------------------------- MODULE PeerRegistry_proofs -------------------------
(***************************************************************************)
(* The peer table, proved for any number of peers, addresses, calls and    *)
(* restarts and any time-out: the types, that the database follows the     *)
(* table, that the heartbeat spares the peers that answer, that a pong     *)
(* finds its peer, and that the newest announcement wins.                  *)
(***************************************************************************)
EXTENDS PeerRegistry, SequenceTheorems, TLAPS

LEMMA CallsDiffer ==
    ASSUME NEW c \in Call
    PROVE  /\ c.op \in {"add", "update", "get", "remove", "list"}
           /\ c.op = "add" => c \in Add
           /\ c.op = "update" => c \in Update
           /\ c.op = "get" => c \in Get
           /\ c.op = "remove" => c \in Remove
    BY DEF Call, Add, Update, Get, Remove, List

LEMMA MergedType ==
    ASSUME NEW old \in Slot, NEW new \in Entry
    PROVE  Merged(old, new) \in Entry
    BY DEF Merged, Slot, Entry, Score

(* The first call, where there is one, and the queue without it or with one *)
(* more.                                                                    *)
LEMMA QueueSteps ==
    ASSUME NEW q \in Seq(Call)
    PROVE  /\ Len(q) \in Nat /\ DOMAIN q = 1 .. Len(q)
           /\ \A i \in DOMAIN q : q[i] \in Call
           /\ q # <<>> => /\ Head(q) \in Call /\ 1 \in DOMAIN q /\ Head(q) = q[1]
                          /\ Tail(q) \in Seq(Call) /\ DOMAIN Tail(q) = 1 .. Len(q) - 1
                          /\ \A i \in DOMAIN Tail(q) : i + 1 \in DOMAIN q /\ Tail(q)[i] = q[i + 1]
           /\ \A c \in Call : /\ Append(q, c) \in Seq(Call)
                              /\ DOMAIN Append(q, c) = 1 .. Len(q) + 1
                              /\ \A i \in DOMAIN q : Append(q, c)[i] = q[i]
                              /\ Append(q, c)[Len(q) + 1] = c
<1>1. Len(q) \in Nat /\ DOMAIN q = 1 .. Len(q) /\ \A i \in DOMAIN q : q[i] \in Call
    BY LenProperties, ElementOfSeq
<1>2. ASSUME q # <<>>
      PROVE  /\ Head(q) \in Call /\ 1 \in DOMAIN q /\ Head(q) = q[1]
             /\ Tail(q) \in Seq(Call) /\ DOMAIN Tail(q) = 1 .. Len(q) - 1
             /\ \A i \in DOMAIN Tail(q) : i + 1 \in DOMAIN q /\ Tail(q)[i] = q[i + 1]
    <2>1. Len(q) \in Nat \ {0}
        BY <1>2, EmptySeq
    <2>2. Head(q) = q[1] /\ 1 \in DOMAIN q
        BY <1>1, <2>1
    <2>3. /\ Head(q) \in Call /\ Tail(q) \in Seq(Call) /\ Len(Tail(q)) = Len(q) - 1
          /\ \A i \in 1 .. Len(Tail(q)) : Tail(q)[i] = q[i + 1]
        BY <1>2, HeadTailProperties
    <2>4. DOMAIN Tail(q) = 1 .. Len(q) - 1
        BY <2>3, LenProperties
    <2> QED
        BY <1>1, <2>1, <2>2, <2>3, <2>4
<1>3. ASSUME NEW c \in Call
      PROVE  /\ Append(q, c) \in Seq(Call)
             /\ DOMAIN Append(q, c) = 1 .. Len(q) + 1
             /\ \A i \in DOMAIN q : Append(q, c)[i] = q[i]
             /\ Append(q, c)[Len(q) + 1] = c
    <2>1. /\ Append(q, c) \in Seq(Call) /\ Len(Append(q, c)) = Len(q) + 1
          /\ \A i \in 1 .. Len(q) : Append(q, c)[i] = q[i]
          /\ Append(q, c)[Len(q) + 1] = c
        BY AppendProperties
    <2> QED
        BY <1>1, <2>1, LenProperties
<1> QED
    BY <1>1, <1>2, <1>3

-----------------------------------------------------------------------------
(* Types. *)

(* What the actions leave alone is not mentioned below. *)
TypeTable == table \in [Peer -> Slot] /\ rows \in [Peer -> Slot]
TypeCalls ==
    /\ ready \in Seq(Add) /\ queue \in Seq(Call) /\ held \in BOOLEAN /\ writes \subseteq Write
TypeMonitor ==
    /\ linked \subseteq Linkable /\ beat \in Beat /\ todo \subseteq Peer
    /\ pending \in [Peer -> (0 .. Rounds - 1) \cup {NoPing}]
TypeHistory ==
    /\ boots \in 0 .. MaxBoots /\ heard \in [Peer -> Slot] /\ unsaved \subseteq Peer
    /\ answered \in [Peer -> 0 .. Rounds]

(* An update that is to use the table's own object finds one there: a       *)
(* removal detaches it first.  Without this GrantUpdate would store nothing *)
(* as an entry.                                                             *)
OwnIsListed ==
    \A i \in DOMAIN queue :
        queue[i].op = "update" /\ queue[i].entry = NoEntry => Listed(queue[i].peer)

LEMMA TypeParts == TypeOK <=> TypeTable /\ TypeCalls /\ TypeMonitor /\ TypeHistory
    BY DEF TypeOK, TypeTable, TypeCalls, TypeMonitor, TypeHistory

LEMMA TypePartsNext == TypeOK' <=> (TypeTable /\ TypeCalls /\ TypeMonitor /\ TypeHistory)'
    BY DEF TypeOK, TypeTable, TypeCalls, TypeMonitor, TypeHistory

LEMMA TypeArrival ==
    ASSUME TypeOK, Arrival \/ Begin
    PROVE  TypeOK'
<1> SUFFICES (TypeTable /\ TypeCalls /\ TypeMonitor /\ TypeHistory)'
    BY TypePartsNext
<1>0. TypeTable /\ TypeCalls /\ TypeMonitor /\ TypeHistory
    BY TypeParts
<1>1. ASSUME NEW p \in Peer, NEW e \in Entry, Announce(p, e)
      PROVE  ready' \in Seq(Add) /\ heard' \in [Peer -> Slot]
    <2>1. [op |-> "add", peer |-> p, entry |-> e] \in Add
        BY DEF Add
    <2>2. ready' \in Seq(Add)
        BY <1>0, <1>1, <2>1, AppendProperties DEF TypeCalls, Announce
    <2>3. Merged(heard[p], e) \in Slot
        BY <1>0, MergedType DEF TypeHistory, Slot
    <2> QED
        BY <1>0, <1>1, <2>2, <2>3 DEF TypeHistory, Announce
<1>2. ASSUME NEW p \in Peer, NEW a \in Addr, Hello(p, a)
      PROVE  (TypeTable /\ TypeCalls /\ TypeMonitor /\ TypeHistory)'
    <2>1. [addr |-> a, score |-> 1] \in Entry
        BY DEF Entry, Score
    <2>2. ready' \in Seq(Add) /\ heard' \in [Peer -> Slot]
        BY <1>1, <1>2, <2>1 DEF Hello
    <2> QED
        BY <1>0, <1>2, <2>2 DEF Hello, TypeTable, TypeCalls, TypeMonitor, TypeHistory, monitor
<1>3. ASSUME NEW p \in Peer, NEW a \in Addr, Handshake(p, a)
      PROVE  (TypeTable /\ TypeCalls /\ TypeMonitor /\ TypeHistory)'
    <2>1. [addr |-> a, score |-> 0] \in Entry
        BY DEF Entry, Score
    <2>2. ready' \in Seq(Add) /\ heard' \in [Peer -> Slot]
        BY <1>1, <1>3, <2>1 DEF Handshake
    <2>3. linked' \subseteq Linkable
        BY <1>0, <1>3 DEF Handshake, TypeMonitor
    <2> QED
        BY <1>0, <1>3, <2>2, <2>3 DEF Handshake, TypeTable, TypeCalls, TypeMonitor, TypeHistory
<1>4. CASE Begin
    <2>1. Head(ready) \in Add /\ ready' \in Seq(Add)
        BY <1>0, <1>4, HeadTailProperties DEF Begin, TypeCalls
    <2>2. Head(ready) \in Call
        BY <2>1 DEF Call
    <2>3. queue' \in Seq(Call)
        BY <1>0, <1>4, <2>2, QueueSteps DEF Begin, TypeCalls
    <2> QED
        BY <1>0, <1>4, <2>1, <2>3
        DEF Begin, TypeTable, TypeCalls, TypeMonitor, TypeHistory, monitor, history
<1> QED
    BY <1>2, <1>3, <1>4 DEF Arrival

(* add_peer stores an entry, whichever object it was given. *)
LEMMA GrantStores ==
    ASSUME TypeOK, OwnIsListed, GrantAdd \/ GrantUpdate
    PROVE  \E p \in Peer : \E e \in Entry : StorePeer(p, e)
<1>0. TypeTable /\ TypeCalls
    BY TypeParts
<1>1. queue # <<>>
    BY DEF GrantAdd, GrantUpdate, Granted
<1>2. Head(queue) \in Call
    BY <1>0, <1>1, QueueSteps DEF TypeCalls
<1>3. CASE GrantAdd
    <2> DEFINE c == Head(queue)
    <2>1. c \in Add
        BY <1>2, <1>3, CallsDiffer DEF GrantAdd, Granted
    <2>2. c.peer \in Peer /\ c.entry \in Entry
        BY <2>1 DEF Add
    <2>3. Merged(table[c.peer], c.entry) \in Entry
        BY <1>0, <2>2, MergedType DEF TypeTable
    <2> QED
        BY <1>3, <2>2, <2>3 DEF GrantAdd
<1>4. CASE GrantUpdate
    <2> DEFINE c == Head(queue)
               e == IF c.entry = NoEntry THEN table[c.peer] ELSE Merged(table[c.peer], c.entry)
    <2>1. c \in Update
        BY <1>2, <1>4, CallsDiffer DEF GrantUpdate, Granted
    <2>2. c.peer \in Peer /\ c.entry \in Slot
        BY <2>1 DEF Update
    <2>3. c = queue[1] /\ 1 \in DOMAIN queue /\ c.op = "update"
        BY <1>0, <1>1, <1>4, QueueSteps DEF TypeCalls, GrantUpdate, Granted
    <2>4. c.entry = NoEntry => table[c.peer] \in Entry
        BY <1>0, <2>2, <2>3 DEF OwnIsListed, Listed, TypeTable, Slot
    <2>5. c.entry # NoEntry => Merged(table[c.peer], c.entry) \in Entry
        BY <1>0, <2>2, MergedType DEF TypeTable, Slot
    <2>6. e \in Entry
        BY <2>4, <2>5
    <2>7. StorePeer(c.peer, e)
        BY <1>4 DEF GrantUpdate
    <2> HIDE DEF e, c
    <2> QED
        BY <2>2, <2>6, <2>7
<1> QED
    BY <1>3, <1>4

LEMMA TypeGrant ==
    ASSUME TypeOK, OwnIsListed, Grant
    PROVE  TypeOK'
<1> SUFFICES (TypeTable /\ TypeCalls /\ TypeMonitor /\ TypeHistory)'
    BY TypePartsNext
<1>0. TypeTable /\ TypeCalls /\ TypeMonitor /\ TypeHistory
    BY TypeParts
<1>1. queue # <<>>
    BY DEF Grant, GrantAdd, GrantUpdate, GrantGet, GrantList, GrantRemove, Granted
<1>2. Head(queue) \in Call /\ Tail(queue) \in Seq(Call)
    BY <1>0, <1>1, QueueSteps DEF TypeCalls
<1>3. ASSUME NEW p \in Peer, NEW e \in Entry, StorePeer(p, e)
      PROVE  (TypeTable /\ TypeCalls /\ TypeMonitor /\ TypeHistory)'
    <2>1. [peer |-> p, entry |-> e] \in Write
        BY DEF Write
    <2>2. table' \in [Peer -> Slot]
        BY <1>0, <1>3 DEF StorePeer, TypeTable, Slot
    <2> QED
        BY <1>0, <1>3, <2>1, <2>2
        DEF StorePeer, TypeTable, TypeCalls, TypeMonitor, TypeHistory, monitor, history
<1>4. CASE GrantAdd \/ GrantUpdate
    BY <1>3, <1>4, GrantStores
<1>6. CASE GrantGet
    <2>1. Head(queue).peer \in Peer
        BY <1>2, <1>6, CallsDiffer DEF GrantGet, Granted, Get
    <2>2. [op |-> "update", peer |-> Head(queue).peer, entry |-> NoEntry] \in Call
        BY <2>1 DEF Call, Update, Slot
    <2>3. queue' \in Seq(Call)
        BY <1>2, <1>6, <2>2, QueueSteps DEF GrantGet
    <2> QED
        BY <1>0, <1>6, <2>3
        DEF GrantGet, TypeTable, TypeCalls, TypeMonitor, TypeHistory, monitor, history
<1>7. CASE GrantList
    BY <1>0, <1>2, <1>7
    DEF GrantList, TypeTable, TypeCalls, TypeMonitor, TypeHistory, history, Beat
<1>8. CASE GrantRemove
    <2> DEFINE p == Head(queue).peer
               q == Tail(queue)
    <2>1. p \in Peer
        BY <1>2, <1>8, CallsDiffer DEF GrantRemove, Granted, Remove
    <2>2. \A c \in Call : Detached(p, c) \in Call
        <3> SUFFICES ASSUME NEW c \in Call, c.op = "update"
                     PROVE  [c EXCEPT !.entry = table[p]] \in Call
            BY DEF Detached
        <3>1. c \in Update /\ table[p] \in Slot
            BY <1>0, <2>1, CallsDiffer DEF TypeTable
        <3>2. [c EXCEPT !.entry = table[p]] \in Update
            BY <3>1 DEF Update
        <3> QED
            BY <3>2 DEF Call
    <2>3. Len(q) \in Nat /\ DOMAIN q = 1 .. Len(q) /\ \A i \in DOMAIN q : q[i] \in Call
        BY <1>2, QueueSteps
    <2>4. queue' = [i \in 1 .. Len(q) |-> Detached(p, q[i])]
        BY <1>8, <2>3 DEF GrantRemove
    <2>5. queue' \in [1 .. Len(q) -> Call]
        BY <2>2, <2>3, <2>4
    <2>6. queue' \in Seq(Call)
        BY <2>3, <2>5, SeqDef
    <2>7. table' \in [Peer -> Slot] /\ todo' \subseteq Peer /\ beat' \in Beat
        BY <1>0, <1>8, <2>1 DEF GrantRemove, TypeTable, TypeMonitor, Slot, Beat
    <2> QED
        BY <1>0, <1>8, <2>6, <2>7
        DEF GrantRemove, TypeTable, TypeCalls, TypeMonitor, TypeHistory, history
<1> QED
    BY <1>4, <1>6, <1>7, <1>8 DEF Grant

LEMMA TypeHeartbeat ==
    ASSUME TypeOK, HeartbeatLoop
    PROVE  TypeOK'
<1> SUFFICES (TypeTable /\ TypeCalls /\ TypeMonitor /\ TypeHistory)'
    BY TypePartsNext
<1>0. TypeTable /\ TypeCalls /\ TypeMonitor /\ TypeHistory
    BY TypeParts
<1> USE DEF TypeTable, TypeCalls, TypeMonitor, TypeHistory, registry, history, Beat
<1>1. CASE BeatList
    <2>1. [op |-> "list"] \in Call
        BY DEF Call, List
    <2>2. queue' \in Seq(Call)
        BY <1>0, <1>1, <2>1, QueueSteps DEF BeatList
    <2> QED
        BY <1>0, <1>1, <2>2 DEF BeatList
<1>2. CASE Round
    <2>1. \A p \in Peer : pending[p] = NoPing \/ Expired(p) \/ pending[p] + 1 \in 0 .. Rounds - 1
        BY <1>0, RoundsAssumption DEF Expired
    <2>2. pending' \in [Peer -> (0 .. Rounds - 1) \cup {NoPing}]
        BY <1>2, <2>1 DEF Round
    <2>3. answered' \in [Peer -> 0 .. Rounds]
        BY <1>0, <1>2, RoundsAssumption DEF Round
    <2>4. todo' \subseteq Peer
        BY <1>2 DEF Round
    <2> QED
        BY <1>0, <1>2, <2>2, <2>3, <2>4 DEF Round
<1>3. CASE RemovedAll
    BY <1>0, <1>3 DEF RemovedAll
<1>4. ASSUME NEW p \in Peer, Ping(p)
      PROVE  (TypeTable /\ TypeCalls /\ TypeMonitor /\ TypeHistory)'
    <2>1. 0 \in 0 .. Rounds - 1
        BY RoundsAssumption
    <2>2. pending' \in [Peer -> (0 .. Rounds - 1) \cup {NoPing}]
        BY <1>0, <1>4, <2>1 DEF Ping
    <2> QED
        BY <1>0, <1>4, <2>2 DEF Ping
<1>5. ASSUME NEW p \in Peer, AskRemove(p)
      PROVE  (TypeTable /\ TypeCalls /\ TypeMonitor /\ TypeHistory)'
    <2>1. [op |-> "remove", peer |-> p] \in Call
        BY DEF Call, Remove
    <2>2. queue' \in Seq(Call)
        BY <1>0, <1>5, <2>1, QueueSteps DEF AskRemove
    <2> QED
        BY <1>0, <1>5, <2>2 DEF AskRemove
<1> QED
    BY <1>1, <1>2, <1>3, <1>4, <1>5 DEF HeartbeatLoop

LEMMA TypeOthers ==
    ASSUME TypeOK, held => queue # <<>>,
           \/ Restart \/ \E w \in writes : Written(w)
           \/ \E p \in Peer : Unlink(p) \/ Pong(p)
    PROVE  TypeOK'
<1> SUFFICES (TypeTable /\ TypeCalls /\ TypeMonitor /\ TypeHistory)'
    BY TypePartsNext
<1>0. TypeTable /\ TypeCalls /\ TypeMonitor /\ TypeHistory
    BY TypeParts
<1> USE DEF TypeTable, TypeCalls, TypeMonitor, TypeHistory
<1>1. CASE Restart
    <2>1. <<>> \in Seq(Add) /\ <<>> \in Seq(Call)
        BY EmptySeq
    <2>2. boots' \in 0 .. MaxBoots /\ Rounds \in 0 .. Rounds
        BY <1>0, <1>1, BoundsAssumption, RoundsAssumption DEF Restart
    <2> QED
        BY <1>0, <1>1, <2>1, <2>2 DEF Restart, Beat
<1>2. ASSUME NEW w \in writes, Written(w)
      PROVE  (TypeTable /\ TypeCalls /\ TypeMonitor /\ TypeHistory)'
    <2>1. w.peer \in Peer /\ w.entry \in Slot
        BY <1>0 DEF Write, Slot
    <2>2. rows' \in [Peer -> Slot] /\ unsaved' \subseteq Peer
        BY <1>0, <1>2, <2>1 DEF Written
    <2>3. queue' \in Seq(Call)
        <3>1. queue # <<>> => Tail(queue) \in Seq(Call)
            BY <1>0, QueueSteps
        <3> QED
            BY <1>0, <1>2, <3>1 DEF Written
    <2> QED
        BY <1>0, <1>2, <2>2, <2>3 DEF Written, monitor
<1>3. ASSUME NEW p \in Peer, Unlink(p)
      PROVE  (TypeTable /\ TypeCalls /\ TypeMonitor /\ TypeHistory)'
    BY <1>0, <1>3 DEF Unlink, registry, history
<1>4. ASSUME NEW p \in Peer, Pong(p)
      PROVE  (TypeTable /\ TypeCalls /\ TypeMonitor /\ TypeHistory)'
    <2>1. [op |-> "get", peer |-> p] \in Call
        BY DEF Call, Get
    <2>2. queue' \in Seq(Call)
        BY <1>0, <1>4, <2>1, QueueSteps DEF Pong
    <2>3. answered' \in [Peer -> 0 .. Rounds]
        BY <1>0, <1>4, RoundsAssumption DEF Pong
    <2>4. pending' \in [Peer -> (0 .. Rounds - 1) \cup {NoPing}]
        BY <1>0, <1>4 DEF Pong
    <2> QED
        BY <1>0, <1>4, <2>2, <2>3, <2>4 DEF Pong
<1> QED
    BY <1>1, <1>2, <1>3, <1>4

-----------------------------------------------------------------------------
(* The lock. *)

(* A write runs under the lock, for the call that has it, and writes what   *)
(* the table says.                                                          *)
LockInv ==
    /\ held => queue # <<>>
    /\ ~held => writes = {}
    /\ \A v, w \in writes : v = w
    /\ \A w \in writes : table[w.peer] = w.entry

Inv == TypeOK /\ OwnIsListed /\ LockInv /\ RowsFollow

LEMMA OwnTail ==
    ASSUME TypeOK, OwnIsListed, queue # <<>>,
           queue' = Tail(queue), \A p \in Peer : Listed(p) => Listed(p)'
    PROVE  OwnIsListed'
<1>1. \A i \in DOMAIN queue' : i + 1 \in DOMAIN queue /\ queue'[i] = queue[i + 1]
    BY QueueSteps DEF TypeOK
<1>2. \A i \in DOMAIN queue : queue[i].op = "update" => queue[i].peer \in Peer
    BY QueueSteps, CallsDiffer DEF TypeOK, Update
<1> QED
    BY <1>1, <1>2 DEF OwnIsListed

LEMMA OwnAppend ==
    ASSUME TypeOK, OwnIsListed, NEW c \in Call, queue' = Append(queue, c),
           \A p \in Peer : Listed(p) => Listed(p)',
           c.op = "update" => Listed(c.peer)'
    PROVE  OwnIsListed'
<1>1. /\ DOMAIN queue' = 1 .. Len(queue) + 1 /\ Len(queue) \in Nat
      /\ DOMAIN queue = 1 .. Len(queue)
      /\ \A i \in DOMAIN queue : queue'[i] = queue[i]
      /\ queue'[Len(queue) + 1] = c
    BY QueueSteps DEF TypeOK
<1>2. \A i \in DOMAIN queue : queue[i].op = "update" => queue[i].peer \in Peer
    BY QueueSteps, CallsDiffer DEF TypeOK, Update
<1>3. \A i \in DOMAIN queue' : i \in DOMAIN queue \/ i = Len(queue) + 1
    BY <1>1
<1> QED
    BY <1>1, <1>2, <1>3 DEF OwnIsListed

(* The table keeps its entries in every step but a removal and a restart. *)
LEMMA StoreKeeps ==
    ASSUME TypeOK, NEW p \in Peer, NEW e \in Entry, table' = [table EXCEPT ![p] = e]
    PROVE  \A q \in Peer : Listed(q) => Listed(q)'
    BY NullAssumption DEF Listed, TypeOK

LEMMA SameTable ==
    ASSUME UNCHANGED table
    PROVE  \A q \in Peer : Listed(q) => Listed(q)'
    BY DEF Listed


LEMMA LockGrant ==
    ASSUME Inv, Grant
    PROVE  OwnIsListed' /\ LockInv' /\ RowsFollow'
<1> USE DEF Inv
<1>0. queue # <<>> /\ ~held /\ writes = {} /\ Head(queue) \in Call /\ Tail(queue) \in Seq(Call)
    <2>1. queue # <<>> /\ ~held
        BY DEF Grant, GrantAdd, GrantUpdate, GrantGet, GrantList, GrantRemove, Granted
    <2> QED
        BY <2>1, QueueSteps DEF LockInv, TypeOK
<1>1. CASE GrantAdd \/ GrantUpdate
    <2>1. PICK p \in Peer : \E e \in Entry : StorePeer(p, e)
        BY <1>1, GrantStores
    <2>2. PICK e \in Entry : StorePeer(p, e)
        BY <2>1
    <2>3. /\ table' = [table EXCEPT ![p] = e] /\ writes' = {[peer |-> p, entry |-> e]}
          /\ held' /\ UNCHANGED <<rows, queue, unsaved>>
        BY <1>0, <2>2 DEF StorePeer, history
    <2>4. \A q \in Peer : Listed(q) => Listed(q)'
        BY <2>3, StoreKeeps
    <2>5. OwnIsListed'
        <3>1. \A i \in DOMAIN queue : queue[i].op = "update" => queue[i].peer \in Peer
            BY QueueSteps, CallsDiffer DEF TypeOK, Update
        <3> QED
            BY <2>3, <2>4, <3>1 DEF OwnIsListed
    <2>6. table'[p] = e /\ \A q \in Peer : q # p => table'[q] = table[q]
        BY <2>3 DEF TypeOK
    <2>7. LockInv'
        BY <1>0, <2>3, <2>6 DEF LockInv
    <2>8. RowsFollow'
        BY <1>0, <2>3, <2>6 DEF RowsFollow, Listed
    <2> QED
        BY <2>5, <2>7, <2>8
<1>2. CASE GrantGet
    <2> DEFINE p == Head(queue).peer
               c == [op |-> "update", peer |-> p, entry |-> NoEntry]
    <2>1. p \in Peer
        BY <1>0, <1>2, CallsDiffer DEF GrantGet, Granted, Get
    <2>2. c \in Call /\ c.op = "update" /\ c.peer = p
        BY <2>1 DEF Call, Update, Slot
    <2> HIDE DEF c
    <2>3. UNCHANGED <<table, rows, held, writes, unsaved>>
        BY <1>2 DEF GrantGet, history
    <2>4. queue' = Tail(queue) \/ (Listed(p) /\ queue' = Append(Tail(queue), c))
        BY <1>2 DEF GrantGet, c
    <2>5. \A i \in DOMAIN queue' : \/ i + 1 \in DOMAIN queue /\ queue'[i] = queue[i + 1]
                                   \/ Listed(p) /\ queue'[i] = c
        <3>1. \A i \in DOMAIN Tail(queue) : i + 1 \in DOMAIN queue /\ Tail(queue)[i] = queue[i + 1]
            BY <1>0, QueueSteps DEF TypeOK
        <3>2. /\ Len(Tail(queue)) \in Nat /\ DOMAIN Tail(queue) = 1 .. Len(Tail(queue))
              /\ DOMAIN Append(Tail(queue), c) = 1 .. Len(Tail(queue)) + 1
              /\ \A i \in DOMAIN Tail(queue) : Append(Tail(queue), c)[i] = Tail(queue)[i]
              /\ Append(Tail(queue), c)[Len(Tail(queue)) + 1] = c
            BY <1>0, <2>2, QueueSteps
        <3>3. \A i \in DOMAIN Append(Tail(queue), c) :
                  i \in DOMAIN Tail(queue) \/ i = Len(Tail(queue)) + 1
            BY <3>2
        <3> QED
            BY <2>4, <3>1, <3>2, <3>3
    <2>6. OwnIsListed'
        BY <2>2, <2>3, <2>5 DEF OwnIsListed, Listed
    <2> QED
        BY <1>0, <2>3, <2>6 DEF LockInv, RowsFollow, Listed
<1>3. CASE GrantList
    <2>1. UNCHANGED <<table, rows, held, writes, unsaved>> /\ queue' = Tail(queue)
        BY <1>3 DEF GrantList, history
    <2>2. OwnIsListed'
        BY <1>0, <2>1, OwnTail, SameTable
    <2> QED
        BY <1>0, <2>1, <2>2 DEF LockInv, RowsFollow, Listed
<1>4. CASE GrantRemove
    <2> DEFINE p == Head(queue).peer
    <2>1. p \in Peer
        BY <1>0, <1>4, CallsDiffer DEF GrantRemove, Granted, Remove
    <2>2. /\ table' = [table EXCEPT ![p] = NoEntry]
          /\ queue' = [i \in DOMAIN Tail(queue) |-> Detached(p, Tail(queue)[i])]
          /\ UNCHANGED <<rows, held, writes, unsaved>>
        BY <1>4 DEF GrantRemove, history
    <2>3. \A i \in DOMAIN Tail(queue) : i + 1 \in DOMAIN queue /\ Tail(queue)[i] = queue[i + 1]
        BY <1>0, QueueSteps DEF TypeOK
    <2>4. \A q \in Peer : q # p => table'[q] = table[q]
        BY <2>2 DEF TypeOK
    <2>5. OwnIsListed'
        <3> SUFFICES ASSUME NEW i \in DOMAIN queue', queue'[i].op = "update",
                            queue'[i].entry = NoEntry
                     PROVE  table'[queue'[i].peer] # NoEntry
            BY DEF OwnIsListed, Listed
        <3> DEFINE c == queue[i + 1]
        <3>1. i + 1 \in DOMAIN queue /\ queue'[i] = Detached(p, c)
            BY <2>2, <2>3
        <3>2. c \in Call
            BY <3>1, QueueSteps DEF TypeOK
        <3>3. CASE c.op = "update" /\ c.peer = p /\ c.entry = NoEntry
            <4>1. c \in Update
                BY <3>2, <3>3, CallsDiffer
            <4>2. queue'[i] = [c EXCEPT !.entry = table[p]]
                BY <3>1, <3>3 DEF Detached
            <4>3. queue'[i].entry = table[p]
                BY <4>1, <4>2 DEF Update
            <4>4. table[p] # NoEntry
                BY <3>1, <3>3 DEF OwnIsListed, Listed
            <4> QED
                BY <4>3, <4>4
        <3>4. CASE ~(c.op = "update" /\ c.peer = p /\ c.entry = NoEntry)
            <4>1. queue'[i] = c
                BY <3>1, <3>4 DEF Detached
            <4>2. c \in Update /\ c.peer # p /\ c.entry = NoEntry
                BY <3>2, <3>4, <4>1, CallsDiffer
            <4>3. Listed(c.peer) /\ c.peer \in Peer
                BY <3>1, <4>1, <4>2 DEF OwnIsListed, Update
            <4> QED
                BY <2>4, <4>1, <4>2, <4>3 DEF Listed
        <3> QED
            BY <3>3, <3>4
    <2>6. table'[p] = NoEntry
        BY <2>1, <2>2 DEF TypeOK
    <2> HIDE DEF p
    <2>7. RowsFollow'
        BY <2>2, <2>4, <2>6 DEF RowsFollow, Listed
    <2>8. LockInv'
        BY <1>0, <2>2 DEF LockInv
    <2> QED
        BY <2>5, <2>7, <2>8
<1> QED
    BY <1>1, <1>2, <1>3, <1>4 DEF Grant


(* The end of a write and a restart. *)
LEMMA LockEnds ==
    ASSUME Inv, Restart \/ \E w \in writes : Written(w)
    PROVE  OwnIsListed' /\ LockInv' /\ RowsFollow'
<1> USE DEF Inv
<1>1. CASE Restart
    BY <1>1 DEF Restart, OwnIsListed, LockInv, RowsFollow
<1>2. ASSUME NEW w \in writes, Written(w)
      PROVE  OwnIsListed' /\ LockInv' /\ RowsFollow'
    <2>1. held /\ queue # <<>> /\ writes = {w} /\ table[w.peer] = w.entry /\ w.peer \in Peer
        BY DEF LockInv, TypeOK, Write
    <2>2. ~held' /\ writes' = {} /\ queue' = Tail(queue) /\ UNCHANGED table
        BY <1>2, <2>1 DEF Written
    <2>3. OwnIsListed'
        BY <2>1, <2>2, OwnTail, SameTable
    <2>4. \/ rows' = [rows EXCEPT ![w.peer] = w.entry] /\ unsaved' = unsaved \ {w.peer}
          \/ unsaved' = unsaved \cup {w.peer} /\ rows' = rows
        BY <1>2 DEF Written
    <2>5. \A q \in Peer : q # w.peer => rows'[q] = rows[q] /\ (q \in unsaved' <=> q \in unsaved)
        BY <2>4 DEF TypeOK
    <2>6. w.peer \in unsaved' \/ rows'[w.peer] = w.entry
        BY <2>1, <2>4 DEF TypeOK
    <2>7. RowsFollow'
        BY <2>1, <2>2, <2>5, <2>6 DEF RowsFollow, Listed
    <2> QED
        BY <2>2, <2>3, <2>7 DEF LockInv
<1> QED
    BY <1>1, <1>2

(* The steps that touch neither table, rows nor lock put at most one call   *)
(* at the end of the queue.                                                 *)
Asks ==
    /\ UNCHANGED <<table, rows, held, writes, unsaved, boots>>
    /\ \/ UNCHANGED queue
       \/ \E c \in Call : c.op # "update" /\ queue' = Append(queue, c)

LEMMA OthersAsk ==
    ASSUME TypeOK, \/ Arrival \/ Begin \/ HeartbeatLoop \/ UNCHANGED vars
                   \/ \E p \in Peer : Unlink(p) \/ Pong(p)
    PROVE  Asks
<1> USE DEF Asks
<1>1. CASE Arrival
    BY <1>1 DEF Arrival, Hello, Handshake
<1>2. CASE Begin
    <2>1. Head(ready) \in Add
        BY <1>2, HeadTailProperties DEF Begin, TypeOK
    <2>2. Head(ready) \in Call /\ Head(ready).op # "update"
        BY <2>1 DEF Add, Call
    <2> QED
        BY <1>2, <2>2 DEF Begin, history
<1>3. CASE BeatList
    <2>1. [op |-> "list"] \in Call
        BY DEF Call, List
    <2> QED
        BY <1>3, <2>1 DEF BeatList, history
<1>4. CASE Round \/ RemovedAll
    BY <1>4 DEF Round, RemovedAll, registry, history
<1>5. ASSUME NEW p \in Peer, Ping(p) \/ AskRemove(p)
      PROVE  Asks
    <2>1. [op |-> "remove", peer |-> p] \in Call
        BY DEF Call, Remove
    <2> QED
        BY <1>5, <2>1 DEF Ping, AskRemove, registry, history
<1>6. CASE UNCHANGED vars
    BY <1>6 DEF vars, registry, history
<1>7. ASSUME NEW p \in Peer, Unlink(p) \/ Pong(p)
      PROVE  Asks
    <2>1. [op |-> "get", peer |-> p] \in Call
        BY DEF Call, Get
    <2> QED
        BY <1>7, <2>1 DEF Unlink, Pong, registry, history
<1> QED
    BY <1>1, <1>2, <1>3, <1>4, <1>5, <1>6, <1>7 DEF HeartbeatLoop

LEMMA LockAsks ==
    ASSUME Inv, Asks
    PROVE  OwnIsListed' /\ LockInv' /\ RowsFollow'
<1> USE DEF Inv
<1>1. OwnIsListed'
    <2>1. CASE UNCHANGED queue
        BY <2>1 DEF Asks, OwnIsListed, Listed
    <2>2. ASSUME NEW c \in Call, c.op # "update", queue' = Append(queue, c)
          PROVE  OwnIsListed'
        BY <2>2, OwnAppend, SameTable DEF Asks
    <2> QED
        BY <2>1, <2>2 DEF Asks
<1>2. queue # <<>> => queue' # <<>>
    <2>1. ASSUME NEW c \in Call
          PROVE  Append(queue, c) # <<>>
        BY AppendProperties DEF TypeOK
    <2> QED
        BY <2>1 DEF Asks
<1> QED
    BY <1>1, <1>2 DEF Asks, LockInv, RowsFollow, Listed

LEMMA InvHolds == Spec => []Inv
<1>1. Init => Inv
    <2> SUFFICES ASSUME Init PROVE Inv
        OBVIOUS
    <2>1. <<>> \in Seq(Add) /\ <<>> \in Seq(Call) /\ 0 \in 0 .. MaxBoots /\ Rounds \in 0 .. Rounds
        BY EmptySeq, BoundsAssumption, RoundsAssumption
    <2>2. TypeOK
        BY <2>1 DEF Init, TypeOK, Slot, Beat
    <2> QED
        BY <2>2 DEF Init, Inv, OwnIsListed, LockInv, RowsFollow, Listed
<1>2. Inv /\ [Next]_vars => Inv'
    <2> SUFFICES ASSUME Inv, [Next]_vars PROVE Inv'
        OBVIOUS
    <2>0. TypeOK /\ OwnIsListed /\ (held => queue # <<>>)
        BY DEF Inv, LockInv
    <2>1. CASE Grant
        BY <2>0, <2>1, TypeGrant, LockGrant DEF Inv
    <2>2. CASE Restart \/ \E w \in writes : Written(w)
        BY <2>0, <2>2, TypeOthers, LockEnds DEF Inv
    <2>3. CASE \/ Arrival \/ Begin \/ HeartbeatLoop \/ UNCHANGED vars
               \/ \E p \in Peer : Unlink(p) \/ Pong(p)
        <3>1. TypeOK'
            <4>1. UNCHANGED vars => TypeOK'
                BY <2>0 DEF vars, registry, monitor, history, TypeOK
            <4> QED
                BY <2>0, <2>3, <4>1, TypeArrival, TypeHeartbeat, TypeOthers
        <3> QED
            BY <2>0, <2>3, <3>1, OthersAsk, LockAsks DEF Inv
    <2> QED
        BY <2>1, <2>2, <2>3 DEF Next
<1> QED
    BY <1>1, <1>2, PTL DEF Spec

(* The table, the calls at the lock and the heartbeat's bookkeeping have    *)
(* their types; in particular add_peer never stores a missing object.       *)
THEOREM TypeCorrect == Spec => []TypeOK
<1>1. Inv => TypeOK
    BY DEF Inv
<1> QED
    BY <1>1, InvHolds, PTL

(* The row of a listed peer is its entry whenever no write of it is under   *)
(* way or has failed: what the lock held across upsert_peer gives.          *)
THEOREM DatabaseFollows == Spec => []RowsFollow
<1>1. Inv => RowsFollow
    BY DEF Inv
<1> QED
    BY <1>1, InvHolds, PTL


-----------------------------------------------------------------------------
(* The heartbeat. *)

(* The loop has at most one call at the lock, the one that it waits for,    *)
(* and a removal is for a peer of its list.                                 *)
OfLoop(c) == c.op \in {"list", "remove"}
LoopCalls ==
    /\ \A i \in DOMAIN queue :
          /\ queue[i].op = "list" => beat = "listing"
          /\ queue[i].op = "remove" => beat = "removing" /\ queue[i].peer \in todo
    /\ \A i, j \in DOMAIN queue : OfLoop(queue[i]) /\ OfLoop(queue[j]) => i = j

(* A ping is not older than the latest pong, and the peers to be removed    *)
(* have not answered for a time-out and cannot: no ping of theirs is left.  *)
Silence ==
    /\ \A p \in Peer : pending[p] # NoPing => pending[p] <= answered[p]
    /\ beat \in {"remove", "removing"} =>
          \A p \in todo : answered[p] = Rounds /\ pending[p] = NoPing

LEMMA LoopTail ==
    ASSUME TypeOK, LoopCalls, queue # <<>>, queue' = Tail(queue), UNCHANGED <<beat, todo>>
    PROVE  LoopCalls'
<1>1. \A i \in DOMAIN queue' : i \in Int /\ i + 1 \in DOMAIN queue /\ queue'[i] = queue[i + 1]
    BY QueueSteps DEF TypeOK
<1>2. \A i, j \in DOMAIN queue' : OfLoop(queue'[i]) /\ OfLoop(queue'[j]) => i = j
    <2> SUFFICES ASSUME NEW i \in DOMAIN queue', NEW j \in DOMAIN queue',
                        OfLoop(queue'[i]), OfLoop(queue'[j])
                 PROVE  i = j
        OBVIOUS
    <2>1. i + 1 = j + 1
        BY <1>1 DEF LoopCalls
    <2> QED
        BY <1>1, <2>1
<1> QED
    BY <1>1, <1>2 DEF LoopCalls

LEMMA LoopAppend ==
    ASSUME TypeOK, LoopCalls, NEW c \in Call, ~OfLoop(c), queue' = Append(queue, c),
           UNCHANGED <<beat, todo>>
    PROVE  LoopCalls'
<1>1. \A i \in DOMAIN queue' : \/ i \in DOMAIN queue /\ queue'[i] = queue[i]
                               \/ queue'[i] = c
    <2>1. /\ DOMAIN queue' = 1 .. Len(queue) + 1 /\ Len(queue) \in Nat
          /\ DOMAIN queue = 1 .. Len(queue)
          /\ \A i \in DOMAIN queue : queue'[i] = queue[i]
          /\ queue'[Len(queue) + 1] = c
        BY QueueSteps DEF TypeOK
    <2>2. \A i \in DOMAIN queue' : i \in DOMAIN queue \/ i = Len(queue) + 1
        BY <2>1
    <2> QED
        BY <2>1, <2>2
<1> QED
    BY <1>1 DEF LoopCalls, OfLoop

(* The one call that the loop makes, when it has none at the lock. *)
LEMMA LoopAsks ==
    ASSUME TypeOK, LoopCalls, beat \notin {"listing", "removing"},
           NEW c \in Call, queue' = Append(queue, c), UNCHANGED todo,
           \/ c.op = "list" /\ beat' = "listing"
           \/ c.op = "remove" /\ beat' = "removing" /\ c.peer \in todo
    PROVE  LoopCalls'
<1>1. /\ DOMAIN queue' = 1 .. Len(queue) + 1 /\ Len(queue) \in Nat
      /\ DOMAIN queue = 1 .. Len(queue)
      /\ \A i \in DOMAIN queue : queue'[i] = queue[i]
      /\ queue'[Len(queue) + 1] = c
    BY QueueSteps DEF TypeOK
<1>2. \A i \in DOMAIN queue : ~OfLoop(queue[i])
    BY DEF LoopCalls, OfLoop
<1>3. \A i \in DOMAIN queue' : \/ i = Len(queue) + 1 /\ queue'[i] = c
                               \/ ~OfLoop(queue'[i])
    <2>1. \A i \in DOMAIN queue' : i \in DOMAIN queue \/ i = Len(queue) + 1
        BY <1>1
    <2> QED
        BY <1>1, <1>2, <2>1
<1> QED
    BY <1>3 DEF LoopCalls, OfLoop

LEMMA HeartGrant ==
    ASSUME Inv, LoopCalls, Silence, Grant
    PROVE  LoopCalls' /\ Silence'
<1>0. TypeOK /\ OwnIsListed /\ queue # <<>>
    BY DEF Inv, Grant, GrantAdd, GrantUpdate, GrantGet, GrantList, GrantRemove, Granted
<1>1. CASE GrantAdd \/ GrantUpdate
    <2>1. UNCHANGED <<queue, pending, beat, todo, answered>>
        BY <1>0, <1>1, GrantStores DEF StorePeer, monitor, history
    <2> QED
        BY <2>1 DEF LoopCalls, Silence
<1>2. CASE GrantGet
    <2>1. UNCHANGED <<pending, beat, todo, answered>>
        BY <1>2 DEF GrantGet, monitor, history
    <2>2. /\ Head(queue) \in Call /\ Head(queue) = queue[1] /\ Head(queue).op = "get"
          /\ Tail(queue) \in Seq(Call)
        BY <1>0, <1>2, QueueSteps DEF GrantGet, Granted, TypeOK
    <2> DEFINE c == [op |-> "update", peer |-> Head(queue).peer, entry |-> NoEntry]
    <2>3. c \in Call /\ ~OfLoop(c)
        <3>1. Head(queue).peer \in Peer
            BY <2>2, CallsDiffer DEF Get
        <3> QED
            BY <3>1 DEF Call, Update, Slot, OfLoop
    <2> HIDE DEF c
    <2>4. queue' \in {Tail(queue), Append(Tail(queue), c)}
        BY <1>2 DEF GrantGet, c
    <2>5. \A i \in DOMAIN Tail(queue) :
              i \in Int /\ i + 1 \in DOMAIN queue /\ Tail(queue)[i] = queue[i + 1]
        BY <1>0, QueueSteps DEF TypeOK
    <2>6. \A i \in DOMAIN queue' :
              \/ i \in Int /\ i + 1 \in DOMAIN queue /\ queue'[i] = queue[i + 1]
              \/ queue'[i] = c
        <3>1. CASE queue' = Tail(queue)
            BY <2>5, <3>1
        <3>2. CASE queue' = Append(Tail(queue), c)
            <4>1. /\ DOMAIN queue' = 1 .. Len(Tail(queue)) + 1 /\ Len(Tail(queue)) \in Nat
                  /\ DOMAIN Tail(queue) = 1 .. Len(Tail(queue))
                  /\ \A i \in DOMAIN Tail(queue) : queue'[i] = Tail(queue)[i]
                  /\ queue'[Len(Tail(queue)) + 1] = c
                BY <2>2, <2>3, <3>2, QueueSteps
            <4>2. \A i \in DOMAIN queue' : i \in DOMAIN Tail(queue) \/ i = Len(Tail(queue)) + 1
                BY <4>1
            <4> QED
                BY <2>5, <4>1, <4>2
        <3> QED
            BY <2>4, <3>1, <3>2
    <2>7. \A i, j \in DOMAIN queue' : OfLoop(queue'[i]) /\ OfLoop(queue'[j]) => i = j
        <3> SUFFICES ASSUME NEW i \in DOMAIN queue', NEW j \in DOMAIN queue',
                            OfLoop(queue'[i]), OfLoop(queue'[j])
                     PROVE  i = j
            OBVIOUS
        <3>1. i + 1 = j + 1 /\ i \in Int /\ j \in Int
            BY <2>3, <2>6 DEF LoopCalls
        <3> QED
            BY <3>1
    <2>8. LoopCalls'
        BY <2>1, <2>3, <2>6, <2>7 DEF LoopCalls, OfLoop
    <2> QED
        BY <2>1, <2>8 DEF Silence
<1>3. CASE GrantList \/ GrantRemove
    <2>1. Head(queue) = queue[1] /\ 1 \in DOMAIN queue /\ OfLoop(queue[1])
        BY <1>0, <1>3, QueueSteps DEF GrantList, GrantRemove, Granted, TypeOK, OfLoop
    <2>2. \A i \in DOMAIN Tail(queue) :
              i \in Int /\ i >= 1 /\ i + 1 \in DOMAIN queue /\ Tail(queue)[i] = queue[i + 1]
        BY <1>0, QueueSteps DEF TypeOK
    <2>3. \A i \in DOMAIN Tail(queue) : ~OfLoop(Tail(queue)[i])
        <3> SUFFICES ASSUME NEW i \in DOMAIN Tail(queue), OfLoop(Tail(queue)[i])
                     PROVE  FALSE
            OBVIOUS
        <3>1. i + 1 = 1 /\ i \in Int /\ i >= 1
            BY <2>1, <2>2 DEF LoopCalls
        <3> QED
            BY <3>1
    <2>4. \A i \in DOMAIN queue' : ~OfLoop(queue'[i])
        <3>1. CASE GrantList
            BY <2>3, <3>1 DEF GrantList
        <3>2. CASE GrantRemove
            <4> DEFINE p == Head(queue).peer
            <4>1. queue' = [i \in DOMAIN Tail(queue) |-> Detached(p, Tail(queue)[i])]
                BY <3>2 DEF GrantRemove
            <4>2. \A i \in DOMAIN Tail(queue) : Detached(p, Tail(queue)[i]).op = Tail(queue)[i].op
                <5> SUFFICES ASSUME NEW i \in DOMAIN Tail(queue), Tail(queue)[i].op = "update"
                             PROVE  [Tail(queue)[i] EXCEPT !.entry = table[p]].op = "update"
                    BY DEF Detached
                <5>1. Tail(queue)[i] \in Update
                    BY <1>0, <2>2, QueueSteps, CallsDiffer DEF TypeOK
                <5> QED
                    BY <5>1 DEF Update
            <4> HIDE DEF p
            <4> QED
                BY <2>3, <4>1, <4>2 DEF OfLoop
        <3> QED
            BY <1>3, <3>1, <3>2
    <2>5. LoopCalls'
        BY <2>4 DEF LoopCalls, OfLoop
    <2>6. Silence'
        <3>1. UNCHANGED <<pending, answered>>
            BY <1>3 DEF GrantList, GrantRemove, history
        <3>2. CASE GrantList
            BY <3>1, <3>2 DEF GrantList, Silence
        <3>3. CASE GrantRemove
            <4>1. beat = "removing"
                BY <2>1, <3>3 DEF LoopCalls, GrantRemove, Granted
            <4>2. todo' \subseteq todo
                BY <3>3 DEF GrantRemove
            <4> QED
                BY <3>1, <4>1, <4>2 DEF Silence
        <3> QED
            BY <1>3, <3>2, <3>3
    <2> QED
        BY <2>5, <2>6
<1> QED
    BY <1>1, <1>2, <1>3 DEF Grant


LEMMA HeartLoop ==
    ASSUME Inv, LoopCalls, Silence, HeartbeatLoop
    PROVE  LoopCalls' /\ Silence'
<1>0. TypeOK
    BY DEF Inv
<1>1. CASE BeatList
    <2>1. [op |-> "list"] \in Call /\ [op |-> "list"].op = "list"
        BY DEF Call, List
    <2>2. LoopCalls'
        BY <1>0, <1>1, <2>1, LoopAsks DEF BeatList
    <2> QED
        BY <1>1, <2>2 DEF BeatList, Silence, history
<1>2. CASE Round
    <2>1. \A i \in DOMAIN queue : ~OfLoop(queue[i])
        BY <1>2 DEF Round, LoopCalls, OfLoop
    <2>2. LoopCalls'
        BY <1>2, <2>1 DEF Round, LoopCalls, OfLoop, registry
    <2>3. \A p \in Peer : pending'[p] # NoPing => pending'[p] <= answered'[p]
        <3> SUFFICES ASSUME NEW p \in Peer, pending'[p] # NoPing
                     PROVE  pending'[p] <= answered'[p]
            OBVIOUS
        <3>1. pending[p] # NoPing /\ ~Expired(p) /\ pending'[p] = pending[p] + 1
            BY <1>2 DEF Round
        <3>2. pending[p] \in Nat /\ pending[p] + 1 < Rounds /\ pending[p] <= answered[p]
            BY <1>0, <3>1, RoundsAssumption DEF TypeOK, Expired, Silence
        <3>3. answered'[p] \in {Rounds, answered[p] + 1} /\ answered[p] \in Nat
            BY <1>0, <1>2, RoundsAssumption DEF Round, TypeOK
        <3> QED
            BY <3>1, <3>2, <3>3, RoundsAssumption
    <2>4. \A p \in todo' : answered'[p] = Rounds /\ pending'[p] = NoPing
        <3> SUFFICES ASSUME NEW p \in Peer, Expired(p)
                     PROVE  answered'[p] = Rounds /\ pending'[p] = NoPing
            BY <1>2 DEF Round
        <3>1. pending'[p] = NoPing
            BY <1>2 DEF Round
        <3>2. pending[p] # NoPing /\ pending[p] \in Nat /\ pending[p] + 1 >= Rounds
            BY <1>0, RoundsAssumption DEF TypeOK, Expired
        <3>3. pending[p] <= answered[p] /\ answered[p] \in 0 .. Rounds
            BY <1>0, <3>2 DEF TypeOK, Silence
        <3>4. answered[p] = Rounds \/ answered[p] + 1 = Rounds
            BY <3>2, <3>3, RoundsAssumption
        <3>5. answered'[p] = IF answered[p] = Rounds THEN Rounds ELSE answered[p] + 1
            BY <1>2 DEF Round
        <3> QED
            BY <3>1, <3>4, <3>5
    <2> QED
        BY <2>2, <2>3, <2>4 DEF Silence
<1>3. CASE RemovedAll
    <2>1. \A i \in DOMAIN queue : ~OfLoop(queue[i])
        BY <1>3 DEF RemovedAll, LoopCalls, OfLoop
    <2> QED
        BY <1>3, <2>1 DEF RemovedAll, LoopCalls, OfLoop, Silence, registry, history
<1>4. ASSUME NEW p \in Peer, Ping(p)
      PROVE  LoopCalls' /\ Silence'
    <2>1. beat = "ping" /\ beat' = "ping" /\ UNCHANGED <<queue, answered>>
        BY <1>4 DEF Ping, registry, history
    <2>2. \A i \in DOMAIN queue : ~OfLoop(queue[i])
        BY <2>1 DEF LoopCalls, OfLoop
    <2>3. \A q \in Peer : pending'[q] \in {0, pending[q]} /\ answered[q] \in Nat
        BY <1>0, <1>4, RoundsAssumption DEF Ping, TypeOK
    <2>4. Silence'
        BY <2>1, <2>3 DEF Silence
    <2> QED
        BY <2>1, <2>2, <2>4 DEF LoopCalls, OfLoop
<1>5. ASSUME NEW p \in Peer, AskRemove(p)
      PROVE  LoopCalls' /\ Silence'
    <2> DEFINE c == [op |-> "remove", peer |-> p]
    <2>1. c \in Call /\ c.op = "remove" /\ c.peer = p
        BY DEF Call, Remove
    <2> HIDE DEF c
    <2>2. /\ beat = "remove" /\ beat' = "removing" /\ p \in todo /\ queue' = Append(queue, c)
          /\ UNCHANGED <<pending, todo, answered>>
        BY <1>5 DEF AskRemove, history, c
    <2>3. LoopCalls'
        BY <1>0, <2>1, <2>2, LoopAsks
    <2> QED
        BY <2>2, <2>3 DEF Silence
<1> QED
    BY <1>1, <1>2, <1>3, <1>4, <1>5 DEF HeartbeatLoop

LEMMA HeartOthers ==
    ASSUME Inv, LoopCalls, Silence,
           \/ Arrival \/ Begin \/ Restart \/ UNCHANGED vars
           \/ \E w \in writes : Written(w)
           \/ \E p \in Peer : Unlink(p) \/ Pong(p)
    PROVE  LoopCalls' /\ Silence'
<1>0. TypeOK
    BY DEF Inv
<1>1. CASE Arrival \/ UNCHANGED vars
    <2>1. UNCHANGED <<queue, pending, beat, todo, answered>>
        BY <1>1 DEF Arrival, Hello, Handshake, vars, registry, monitor, history
    <2> QED
        BY <2>1 DEF LoopCalls, Silence
<1>2. CASE Begin
    <2>1. Head(ready) \in Add
        BY <1>0, <1>2, HeadTailProperties DEF Begin, TypeOK
    <2>2. Head(ready) \in Call /\ ~OfLoop(Head(ready))
        BY <2>1 DEF Add, Call, OfLoop
    <2>3. queue' = Append(queue, Head(ready)) /\ UNCHANGED <<pending, beat, todo, answered>>
        BY <1>2 DEF Begin, monitor, history
    <2>4. LoopCalls'
        BY <1>0, <2>2, <2>3, LoopAppend
    <2> QED
        BY <2>3, <2>4 DEF Silence
<1>3. CASE Restart
    BY <1>3 DEF Restart, LoopCalls, Silence
<1>4. ASSUME NEW w \in writes, Written(w)
      PROVE  LoopCalls' /\ Silence'
    <2>1. queue # <<>> /\ held
        BY DEF Inv, LockInv
    <2>2. queue' = Tail(queue) /\ UNCHANGED <<pending, beat, todo, answered>>
        BY <1>4, <2>1 DEF Written, monitor
    <2>3. LoopCalls'
        BY <1>0, <2>1, <2>2, LoopTail
    <2> QED
        BY <2>2, <2>3 DEF Silence
<1>5. ASSUME NEW p \in Peer, Unlink(p)
      PROVE  LoopCalls' /\ Silence'
    <2>1. UNCHANGED <<queue, pending, beat, todo, answered>>
        BY <1>5 DEF Unlink, registry, history
    <2> QED
        BY <2>1 DEF LoopCalls, Silence
<1>6. ASSUME NEW p \in Peer, Pong(p)
      PROVE  LoopCalls' /\ Silence'
    <2>1. [op |-> "get", peer |-> p] \in Call /\ ~OfLoop([op |-> "get", peer |-> p])
        BY DEF Call, Get, OfLoop
    <2>2. /\ queue' = Append(queue, [op |-> "get", peer |-> p]) /\ UNCHANGED <<beat, todo>>
          /\ pending[p] # NoPing
        BY <1>6 DEF Pong
    <2>3. LoopCalls'
        BY <1>0, <2>1, <2>2, LoopAppend
    <2>4. /\ pending'[p] = NoPing
          /\ \A q \in Peer : q # p => pending'[q] = pending[q] /\ answered'[q] = answered[q]
        BY <1>0, <1>6 DEF Pong, TypeOK
    <2>5. beat \in {"remove", "removing"} => p \notin todo
        BY <2>2 DEF Silence
    <2>6. todo \subseteq Peer
        BY <1>0 DEF TypeOK
    <2>7. Silence'
        BY <2>2, <2>4, <2>5, <2>6 DEF Silence
    <2> QED
        BY <2>3, <2>7
<1> QED
    BY <1>1, <1>2, <1>3, <1>4, <1>5, <1>6

LEMMA HeartHolds == Spec => [](LoopCalls /\ Silence)
<1>1. Init => LoopCalls /\ Silence
    BY DEF Init, LoopCalls, Silence
<1>2. Inv /\ (LoopCalls /\ Silence) /\ [Next]_vars => (LoopCalls /\ Silence)'
    BY HeartGrant, HeartLoop, HeartOthers DEF Next
<1> QED
    BY <1>1, <1>2, InvHolds, PTL DEF Spec

(* No peer that answered a ping within the time-out is taken from the       *)
(* table: pongs, the sleep of the loop, its list of expired peers and the   *)
(* wait for the lock never lead to the removal of a peer that is there.     *)
THEOREM AnsweringKept == Spec => AnsweringStays
<1>1. Inv /\ LoopCalls /\ Silence /\ [Next]_vars =>
          [\A p \in Peer : Listed(p) /\ table'[p] = NoEntry /\ boots' = boots
                               => answered[p] = Rounds]_vars
    <2> SUFFICES ASSUME Inv, LoopCalls, Silence, [Next]_vars, NEW p \in Peer,
                        Listed(p), table'[p] = NoEntry, boots' = boots
                 PROVE  answered[p] = Rounds
        OBVIOUS
    <2>0. TypeOK /\ OwnIsListed
        BY DEF Inv
    <2>1. CASE GrantRemove
        <3>1. Head(queue) = queue[1] /\ 1 \in DOMAIN queue /\ Head(queue).op = "remove"
            BY <2>0, <2>1, QueueSteps DEF GrantRemove, Granted, TypeOK
        <3>2. beat = "removing" /\ Head(queue).peer \in todo
            BY <3>1 DEF LoopCalls
        <3>3. p = Head(queue).peer
            BY <2>0, <2>1 DEF GrantRemove, TypeOK, Listed
        <3> QED
            BY <3>2, <3>3 DEF Silence
    <2>2. CASE GrantAdd \/ GrantUpdate
        <3>1. PICK q \in Peer : \E e \in Entry : StorePeer(q, e)
            BY <2>0, <2>2, GrantStores
        <3>2. \A r \in Peer : Listed(r) => Listed(r)'
            BY <2>0, <3>1, StoreKeeps DEF StorePeer
        <3> QED
            BY <3>2 DEF Listed
    <2>3. CASE GrantGet \/ GrantList \/ \E w \in writes : Written(w)
        BY <2>3 DEF GrantGet, GrantList, Written, Listed
    <2>4. CASE Restart
        <3>1. boots \in Nat /\ boots' = boots + 1
            BY <2>0, <2>4, BoundsAssumption DEF Restart, TypeOK
        <3> QED
            BY <3>1
    <2>5. CASE \/ Arrival \/ Begin \/ HeartbeatLoop \/ UNCHANGED vars
               \/ \E q \in Peer : Unlink(q) \/ Pong(q)
        <3>1. UNCHANGED table
            BY <2>0, <2>5, OthersAsk DEF Asks
        <3> QED
            BY <3>1 DEF Listed
    <2> QED
        BY <2>1, <2>2, <2>3, <2>4, <2>5 DEF Next, Grant
<1> QED
    BY <1>1, InvHolds, HeartHolds, PTL DEF Spec, AnsweringStays

-----------------------------------------------------------------------------
(* What a step does to the calls at the lock. *)

(* The same call, but for the object that a removal gives an update.        *)
Same(d, c) ==
    /\ d.op = c.op /\ d.peer = c.peer
    /\ c.op # "update" => d = c

(* The first k calls have left, the others keep their order, and at most    *)
(* one call, c, has joined behind them.                                     *)
Moved(k, c) ==
    /\ DOMAIN queue \subseteq Nat \ {0} /\ DOMAIN queue' \subseteq Nat \ {0}
    /\ \A i \in DOMAIN queue' :
         \/ i + k \in DOMAIN queue /\ Same(queue'[i], queue[i + k])
         \/ queue'[i] = c /\ (\A j \in DOMAIN queue' : j <= i)
                          /\ i + k \notin DOMAIN queue
    /\ \A j \in DOMAIN queue :
         j > k => j - k \in DOMAIN queue' /\ Same(queue'[j - k], queue[j])

(* ... and every update keeps its object.                                   *)
ObjectsKept(k) ==
    \A i \in DOMAIN queue' : i + k \in DOMAIN queue => queue'[i] = queue[i + k]

LEMMA MovedNone ==
    ASSUME TypeOK, UNCHANGED queue, NEW c
    PROVE  Moved(0, c) /\ ObjectsKept(0)
<1>1. Len(queue) \in Nat /\ DOMAIN queue = 1 .. Len(queue)
    BY QueueSteps DEF TypeOK
<1>2. \A i \in DOMAIN queue : i \in Nat \ {0} /\ i + 0 = i /\ i - 0 = i
    BY <1>1
<1> QED
    BY <1>2 DEF Moved, ObjectsKept, Same

LEMMA MovedAppend ==
    ASSUME TypeOK, NEW c \in Call, queue' = Append(queue, c)
    PROVE  Moved(0, c) /\ ObjectsKept(0)
<1>1. /\ Len(queue) \in Nat /\ DOMAIN queue = 1 .. Len(queue)
      /\ DOMAIN queue' = 1 .. Len(queue) + 1
      /\ \A i \in DOMAIN queue : queue'[i] = queue[i]
      /\ queue'[Len(queue) + 1] = c
    BY QueueSteps DEF TypeOK
<1>2. \A i \in DOMAIN queue' : /\ i \in Nat \ {0} /\ i + 0 = i /\ i - 0 = i
                               /\ i \in DOMAIN queue \/ i = Len(queue) + 1
    BY <1>1
<1>3. DOMAIN queue \subseteq DOMAIN queue' /\ Len(queue) + 1 \notin DOMAIN queue
    BY <1>1
<1>4. \A j \in DOMAIN queue' : j <= Len(queue) + 1
    BY <1>1
<1> QED
    BY <1>1, <1>2, <1>3, <1>4 DEF Moved, ObjectsKept, Same

LEMMA MovedTail ==
    ASSUME TypeOK, queue # <<>>, queue' = Tail(queue), NEW c
    PROVE  Moved(1, c) /\ ObjectsKept(1)
<1>1. /\ Len(queue) \in Nat /\ DOMAIN queue = 1 .. Len(queue)
      /\ DOMAIN queue' = 1 .. Len(queue) - 1
      /\ \A i \in DOMAIN queue' : i + 1 \in DOMAIN queue /\ queue'[i] = queue[i + 1]
    BY QueueSteps DEF TypeOK
<1>2. \A j \in DOMAIN queue : j > 1 => j - 1 \in DOMAIN queue' /\ (j - 1) + 1 = j
    BY <1>1
<1>3. DOMAIN queue \subseteq Nat \ {0} /\ DOMAIN queue' \subseteq Nat \ {0}
    BY <1>1
<1>4. \A j \in DOMAIN queue : j > 1 => queue'[j - 1] = queue[j]
    BY <1>1, <1>2
<1> QED
    BY <1>1, <1>2, <1>3, <1>4 DEF Moved, ObjectsKept, Same

(* get_peer ends and its handler asks again, as the last one. *)
LEMMA MovedGet ==
    ASSUME TypeOK, queue # <<>>, NEW c \in Call, queue' = Append(Tail(queue), c)
    PROVE  Moved(1, c) /\ ObjectsKept(1)
<1>1. /\ Len(queue) \in Nat /\ DOMAIN queue = 1 .. Len(queue)
      /\ Tail(queue) \in Seq(Call) /\ DOMAIN Tail(queue) = 1 .. Len(queue) - 1
      /\ \A i \in DOMAIN Tail(queue) : i + 1 \in DOMAIN queue /\ Tail(queue)[i] = queue[i + 1]
      /\ 1 \in DOMAIN queue
    BY QueueSteps DEF TypeOK
<1>2. /\ Len(Tail(queue)) \in Nat /\ DOMAIN Tail(queue) = 1 .. Len(Tail(queue))
      /\ DOMAIN queue' = 1 .. Len(Tail(queue)) + 1
      /\ \A i \in DOMAIN Tail(queue) : queue'[i] = Tail(queue)[i]
      /\ queue'[Len(Tail(queue)) + 1] = c
    BY <1>1, QueueSteps
<1>3. Len(Tail(queue)) = Len(queue) - 1
    BY <1>1, HeadTailProperties DEF TypeOK
<1>4. DOMAIN queue' = 1 .. Len(queue) /\ queue'[Len(queue)] = c
    BY <1>1, <1>2, <1>3
<1>5. /\ \A i \in DOMAIN queue' : i \in DOMAIN Tail(queue) \/ i = Len(queue)
      /\ \A j \in DOMAIN queue : j > 1 => j - 1 \in DOMAIN Tail(queue) /\ (j - 1) + 1 = j
      /\ \A j \in DOMAIN queue' : j <= Len(queue)
      /\ Len(queue) + 1 \notin DOMAIN queue
      /\ DOMAIN Tail(queue) \subseteq DOMAIN queue'
      /\ DOMAIN queue \subseteq Nat \ {0} /\ DOMAIN queue' \subseteq Nat \ {0}
    BY <1>1, <1>4
<1>6. \A j \in DOMAIN queue :
          j > 1 => j - 1 \in DOMAIN queue' /\ queue'[j - 1] = queue[j]
    BY <1>1, <1>2, <1>5
<1>7. \A i \in DOMAIN queue' :
          \/ i + 1 \in DOMAIN queue /\ queue'[i] = queue[i + 1]
          \/ i = Len(queue)
    BY <1>1, <1>2, <1>5
<1> QED
    BY <1>4, <1>5, <1>6, <1>7 DEF Moved, ObjectsKept, Same

LEMMA MovedRemove ==
    ASSUME TypeOK, GrantRemove, NEW c
    PROVE  Moved(1, c)
<1> DEFINE p == Head(queue).peer
<1>0. queue # <<>> /\ queue' = [i \in DOMAIN Tail(queue) |-> Detached(p, Tail(queue)[i])]
    BY DEF GrantRemove, Granted
<1>1. /\ Len(queue) \in Nat /\ DOMAIN queue = 1 .. Len(queue)
      /\ DOMAIN Tail(queue) = 1 .. Len(queue) - 1
      /\ \A i \in DOMAIN Tail(queue) : i + 1 \in DOMAIN queue /\ Tail(queue)[i] = queue[i + 1]
      /\ \A i \in DOMAIN queue : queue[i] \in Call
    BY <1>0, QueueSteps DEF TypeOK
<1>2. \A d \in Call : Same(Detached(p, d), d)
    <2> SUFFICES ASSUME NEW d \in Call, d.op = "update"
                 PROVE  LET e == [d EXCEPT !.entry = table[p]] IN e.op = d.op /\ e.peer = d.peer
        BY DEF Same, Detached
    <2>1. d \in Update
        BY CallsDiffer
    <2> QED
        BY <2>1 DEF Update
<1> HIDE DEF p
<1>3. DOMAIN queue' = 1 .. Len(queue) - 1
    BY <1>0, <1>1
<1>4. \A i \in DOMAIN queue' : i + 1 \in DOMAIN queue /\ Same(queue'[i], queue[i + 1])
    BY <1>0, <1>1, <1>2, <1>3
<1>5. \A j \in DOMAIN queue : j > 1 => j - 1 \in DOMAIN queue' /\ (j - 1) + 1 = j
    BY <1>1, <1>3
<1>6. DOMAIN queue \subseteq Nat \ {0} /\ DOMAIN queue' \subseteq Nat \ {0}
    BY <1>1, <1>3
<1>7. \A j \in DOMAIN queue : j > 1 => Same(queue'[j - 1], queue[j])
    BY <1>4, <1>5
<1> QED
    BY <1>4, <1>5, <1>6, <1>7 DEF Moved

-----------------------------------------------------------------------------
(* A pong under way and the heartbeat. *)

(* No pong of a peer that is about to be removed waits for get_peer.        *)
NoGetOfExpired ==
    beat \in {"remove", "removing"} =>
        \A p \in todo : \A i \in DOMAIN queue : ~(queue[i].op = "get" /\ queue[i].peer = p)

(* A peer whose pong waits for get_peer was pinged in this round at the     *)
(* earliest, so that it does not expire at the end of it.                   *)
GetWhilePinging ==
    beat = "ping" =>
        \A i \in DOMAIN queue : queue[i].op = "get" =>
            /\ pending[queue[i].peer] \in {NoPing, 0}
            /\ Rounds = 1 => pending[queue[i].peer] = NoPing /\ queue[i].peer \notin todo

(* One that asked after the loop did was not pinged since.                  *)
GetBehindList ==
    \A i, j \in DOMAIN queue :
        queue[i].op = "get" /\ queue[j].op = "list" /\ j < i =>
            pending[queue[i].peer] = NoPing /\ Rounds # 1

(* A time-out of one round leaves no ping pending outside of it.            *)
OneRound ==
    Rounds = 1 => \A p \in Peer : beat # "ping" \/ p \in todo => pending[p] = NoPing

(* The update of a pong is granted before the removal of its peer.          *)
UpdateBeforeRemove ==
    \A i, j \in DOMAIN queue :
        queue[i].op = "remove" /\ queue[j].op = "update" /\ queue[i].peer = queue[j].peer
            => j < i

(* So no removal changes the object of an update.                           *)
OwnObjects == \A i \in DOMAIN queue : queue[i].op = "update" => queue[i].entry = NoEntry

PongInv == /\ NoGetOfExpired /\ GetWhilePinging /\ GetBehindList /\ OneRound
           /\ UpdateBeforeRemove /\ OwnObjects

(* A call of the table's users moves the queue and nothing of the loop.     *)
LEMMA PongMoved ==
    ASSUME PongInv, NEW k \in {0, 1}, NEW c, Moved(k, c), ObjectsKept(k),
           UNCHANGED <<pending, beat, todo>>,
           c.op \notin {"get", "list", "remove"},
           c.op = "update" =>
             /\ c.entry = NoEntry
             /\ \A i \in DOMAIN queue : ~(queue[i].op = "remove" /\ queue[i].peer = c.peer)
    PROVE  PongInv'
<1>1. \A i \in DOMAIN queue' : queue'[i].op \in {"get", "list", "remove"} =>
          /\ i + k \in DOMAIN queue
          /\ queue'[i].op = queue[i + k].op /\ queue'[i].peer = queue[i + k].peer
    BY DEF Moved, Same
<1>2. \A i, j \in DOMAIN queue' : j + k < i + k => j < i
    BY DEF Moved
<1>3. \A i, j \in DOMAIN queue' : j < i => j + k < i + k
    BY DEF Moved
<1>4. NoGetOfExpired'
    BY <1>1 DEF PongInv, NoGetOfExpired
<1>5. GetWhilePinging'
    BY <1>1 DEF PongInv, GetWhilePinging
<1>6. GetBehindList'
    BY <1>1, <1>3 DEF PongInv, GetBehindList
<1>7. UpdateBeforeRemove'
    <2> SUFFICES ASSUME NEW i \in DOMAIN queue', NEW j \in DOMAIN queue',
                        queue'[i].op = "remove", queue'[j].op = "update",
                        queue'[i].peer = queue'[j].peer
                 PROVE  j < i
        BY DEF UpdateBeforeRemove
    <2>1. i + k \in DOMAIN queue /\ queue[i + k].op = "remove" /\ queue[i + k].peer = queue'[i].peer
        BY <1>1
    <2>2. j + k \in DOMAIN queue /\ queue[j + k].op = "update" /\ queue[j + k].peer = queue'[j].peer
        BY <2>1 DEF Moved, Same
    <2> QED
        BY <1>2, <2>1, <2>2 DEF PongInv, UpdateBeforeRemove
<1>8. OwnObjects'
    BY DEF PongInv, OwnObjects, ObjectsKept, Moved
<1>9. OneRound'
    BY DEF PongInv, OneRound
<1> QED
    BY <1>4, <1>5, <1>6, <1>7, <1>8, <1>9 DEF PongInv

LEMMA PongGrant ==
    ASSUME Inv, LoopCalls, Silence, PongInv, Grant
    PROVE  PongInv'
<1>0. TypeOK /\ OwnIsListed /\ queue # <<>>
    BY DEF Inv, Grant, GrantAdd, GrantUpdate, GrantGet, GrantList, GrantRemove, Granted
<1>h. Head(queue) \in Call /\ Head(queue) = queue[1] /\ 1 \in DOMAIN queue
    BY <1>0, QueueSteps DEF TypeOK
<1>1. CASE GrantAdd \/ GrantUpdate
    <2>1. UNCHANGED <<queue, pending, beat, todo>>
        BY <1>0, <1>1, GrantStores DEF StorePeer, monitor
    <2> QED
        BY <2>1 DEF PongInv, NoGetOfExpired, GetWhilePinging, GetBehindList, OneRound,
                    UpdateBeforeRemove, OwnObjects
<1>2. CASE GrantGet
    <2> DEFINE p == queue[1].peer
               c == [op |-> "update", peer |-> p, entry |-> NoEntry]
    <2>1. queue[1].op = "get" /\ p \in Peer
        BY <1>h, <1>2, CallsDiffer DEF GrantGet, Granted, Get
    <2>2. c \in Call /\ c.op = "update" /\ c.peer = p /\ c.entry = NoEntry
        BY <2>1 DEF Call, Update, Slot
    <2>3. UNCHANGED <<pending, beat, todo>>
        BY <1>2 DEF GrantGet, monitor
    <2>4. queue' = Append(Tail(queue), c) \/ queue' = Tail(queue)
        BY <1>2, <1>h DEF GrantGet
    <2> HIDE DEF c
    <2>5. Moved(1, c) /\ ObjectsKept(1)
        BY <1>0, <2>2, <2>4, MovedGet, MovedTail
    <2>6. \A i \in DOMAIN queue : ~(queue[i].op = "remove" /\ queue[i].peer = p)
        BY <1>h, <2>1 DEF LoopCalls, PongInv, NoGetOfExpired
    <2> HIDE DEF p
    <2> QED
        BY <2>2, <2>3, <2>5, <2>6, PongMoved
<1>3. CASE GrantList
    <2>1. /\ queue' = Tail(queue) /\ queue[1].op = "list" /\ UNCHANGED pending /\ beat' = "ping"
        BY <1>h, <1>3 DEF GrantList, Granted
    <2>3. \A i \in DOMAIN queue' : i + 1 \in DOMAIN queue /\ queue'[i] = queue[i + 1]
                                   /\ i \in Nat \ {0}
        BY <1>0, <2>1, QueueSteps DEF TypeOK
    <2>4. \A i \in DOMAIN queue' : queue'[i].op # "list" /\ queue'[i].op # "remove"
        <3>1. \A i \in DOMAIN queue' : i + 1 # 1
            BY <2>3
        <3> QED
            BY <1>h, <2>1, <2>3, <3>1 DEF LoopCalls, OfLoop
    <2>5. \A i \in DOMAIN queue' : queue'[i].op = "get" =>
              pending[queue'[i].peer] = NoPing /\ Rounds # 1
        <3>1. \A i \in DOMAIN queue' : 1 < i + 1
            BY <2>3
        <3> QED
            BY <1>h, <2>1, <2>3, <3>1 DEF PongInv, GetBehindList
    <2>6. beat = "listing"
        BY <1>h, <2>1 DEF LoopCalls
    <2>7. OneRound'
        BY <2>1, <2>6 DEF PongInv, OneRound
    <2> QED
        BY <2>1, <2>3, <2>4, <2>5, <2>7
        DEF PongInv, NoGetOfExpired, GetWhilePinging, GetBehindList, UpdateBeforeRemove,
            OwnObjects
<1>4. CASE GrantRemove
    <2> DEFINE p == queue[1].peer
    <2>1. /\ queue[1].op = "remove" /\ UNCHANGED pending
          /\ beat' = "remove" /\ todo' = todo \ {p}
        BY <1>h, <1>4 DEF GrantRemove, Granted
    <2>2. beat = "removing"
        BY <1>h, <2>1 DEF LoopCalls
    <2>3. Moved(1, [op |-> "none"])
        BY <1>0, <1>4, MovedRemove
    <2>4. \A i \in DOMAIN queue' : /\ i + 1 \in DOMAIN queue /\ i \in Nat \ {0}
                                   /\ Same(queue'[i], queue[i + 1])
        <3>1. /\ DOMAIN Tail(queue) = DOMAIN queue' /\ DOMAIN queue = 1 .. Len(queue)
              /\ DOMAIN Tail(queue) = 1 .. Len(queue) - 1 /\ Len(queue) \in Nat
            BY <1>0, <1>4, QueueSteps DEF TypeOK, GrantRemove
        <3>2. \A i \in DOMAIN queue' : i + 1 \in DOMAIN queue /\ i \in Nat \ {0}
            BY <3>1
        <3> QED
            BY <2>3, <3>2 DEF Moved
    <2>5. \A i \in DOMAIN queue' : queue'[i].op # "list" /\ queue'[i].op # "remove"
        <3>1. \A i \in DOMAIN queue' : i + 1 # 1
            BY <2>4
        <3> QED
            BY <1>h, <2>1, <2>4, <3>1 DEF LoopCalls, OfLoop, Same
    <2>6. NoGetOfExpired'
        BY <2>1, <2>2, <2>4 DEF PongInv, NoGetOfExpired, Same
    <2>7. OneRound'
        BY <2>1, <2>2 DEF PongInv, OneRound
    <2>8. OwnObjects'
        <3> SUFFICES ASSUME NEW i \in DOMAIN queue', queue'[i].op = "update"
                     PROVE  queue'[i].entry = NoEntry
            BY DEF OwnObjects
        <3>1. queue[i + 1].op = "update" /\ i + 1 \in DOMAIN queue /\ i + 1 > 1
            BY <2>4 DEF Same
        <3>2. queue[i + 1].peer # p
            <4>1. ~(i + 1 < 1)
                BY <3>1, <2>4
            <4> QED
                BY <1>h, <2>1, <3>1, <4>1 DEF PongInv, UpdateBeforeRemove
        <3>3. i \in DOMAIN Tail(queue) /\ Tail(queue)[i] = queue[i + 1]
              /\ queue'[i] = Detached(Head(queue).peer, Tail(queue)[i])
            BY <1>0, <1>4, QueueSteps DEF TypeOK, GrantRemove
        <3>4. queue'[i] = queue[i + 1]
            BY <1>h, <3>2, <3>3 DEF Detached
        <3> QED
            BY <3>1, <3>4 DEF PongInv, OwnObjects
    <2> QED
        BY <2>1, <2>5, <2>6, <2>7, <2>8
        DEF PongInv, GetWhilePinging, GetBehindList, UpdateBeforeRemove
<1> QED
    BY <1>1, <1>2, <1>3, <1>4 DEF Grant

LEMMA PongLoop ==
    ASSUME Inv, LoopCalls, Silence, PongInv, HeartbeatLoop
    PROVE  PongInv'
<1>0. TypeOK
    BY DEF Inv
<1> USE DEF PongInv
<1>1. CASE BeatList
    <2> DEFINE c == [op |-> "list"]
    <2>1. c \in Call /\ c.op = "list"
        BY DEF Call, List
    <2>2. /\ beat = "list" /\ beat' = "listing" /\ queue' = Append(queue, c)
          /\ UNCHANGED <<pending, todo>>
        BY <1>1 DEF BeatList
    <2> HIDE DEF c
    <2>3. Moved(0, c) /\ ObjectsKept(0)
        BY <1>0, <2>1, <2>2, MovedAppend
    <2>4. \A i \in DOMAIN queue' :
              \/ i \in DOMAIN queue /\ queue'[i] = queue[i]
              \/ queue'[i] = c /\ \A j \in DOMAIN queue' : j <= i
        <3>1. \A i \in DOMAIN queue' : i + 0 = i
            BY <2>3 DEF Moved
        <3> QED
            BY <2>3, <3>1 DEF Moved, ObjectsKept
    <2>5. DOMAIN queue' \subseteq Nat
        BY <2>3 DEF Moved
    <2>6. \A i \in DOMAIN queue : queue[i].op # "list"
        BY <2>2 DEF LoopCalls
    <2>7. GetBehindList'
        BY <2>1, <2>4, <2>5, <2>6 DEF GetBehindList
    <2> QED
        BY <2>1, <2>2, <2>4, <2>7
        DEF NoGetOfExpired, GetWhilePinging, OneRound, UpdateBeforeRemove, OwnObjects
<1>2. CASE Round
    <2>1. /\ beat = "ping" /\ beat' = "remove" /\ todo' = {p \in Peer : Expired(p)}
          /\ UNCHANGED queue
        BY <1>2 DEF Round, registry
    <2>2. \A i \in DOMAIN queue : queue[i].op # "list"
        BY <2>1 DEF LoopCalls
    <2>3. NoGetOfExpired'
        <3> SUFFICES ASSUME NEW i \in DOMAIN queue, queue[i].op = "get", Expired(queue[i].peer)
                     PROVE  FALSE
            BY <2>1 DEF NoGetOfExpired
        <3> QED
            BY <2>1, RoundsAssumption DEF GetWhilePinging, Expired
    <2>4. OneRound'
        <3> SUFFICES ASSUME Rounds = 1, NEW p \in Peer
                     PROVE  pending'[p] = NoPing
            BY DEF OneRound
        <3>1. pending[p] = NoPing \/ Expired(p)
            BY <1>0 DEF TypeOK, Expired
        <3> QED
            BY <1>2, <3>1 DEF Round
    <2> QED
        BY <2>1, <2>2, <2>3, <2>4
        DEF GetWhilePinging, GetBehindList, UpdateBeforeRemove, OwnObjects
<1>3. CASE RemovedAll
    BY <1>3 DEF RemovedAll, registry, NoGetOfExpired, GetWhilePinging, GetBehindList,
                OneRound, UpdateBeforeRemove, OwnObjects
<1>4. ASSUME NEW p \in Peer, Ping(p)
      PROVE  PongInv'
    <2>1. /\ beat = "ping" /\ beat' = "ping" /\ UNCHANGED queue /\ todo' = todo \ {p} /\ p \in todo
          /\ \A q \in Peer : pending'[q] = pending[q] \/ (q = p /\ pending'[q] = 0)
        BY <1>0, <1>4 DEF Ping, registry, TypeOK
    <2>2. \A i \in DOMAIN queue : queue[i].op # "list"
        BY <2>1 DEF LoopCalls
    <2>3. \A i \in DOMAIN queue : queue[i].op = "get" => queue[i].peer \in Peer
        BY <1>0, QueueSteps, CallsDiffer DEF TypeOK, Get
    <2>4. GetWhilePinging'
        BY <2>1, <2>3 DEF GetWhilePinging
    <2>5. OneRound'
        BY <2>1 DEF OneRound
    <2> QED
        BY <2>1, <2>2, <2>4, <2>5
        DEF NoGetOfExpired, GetBehindList, UpdateBeforeRemove, OwnObjects
<1>5. ASSUME NEW p \in Peer, AskRemove(p)
      PROVE  PongInv'
    <2> DEFINE c == [op |-> "remove", peer |-> p]
    <2>1. c \in Call /\ c.op = "remove"
        BY DEF Call, Remove
    <2>2. /\ beat = "remove" /\ beat' = "removing" /\ queue' = Append(queue, c)
          /\ UNCHANGED <<pending, todo>>
        BY <1>5 DEF AskRemove
    <2> HIDE DEF c
    <2>3. Moved(0, c) /\ ObjectsKept(0)
        BY <1>0, <2>1, <2>2, MovedAppend
    <2>4. \A i \in DOMAIN queue' :
              \/ i \in DOMAIN queue /\ queue'[i] = queue[i]
              \/ queue'[i] = c /\ \A j \in DOMAIN queue' : j <= i
        <3>1. \A i \in DOMAIN queue' : i + 0 = i
            BY <2>3 DEF Moved
        <3> QED
            BY <2>3, <3>1 DEF Moved, ObjectsKept
    <2>5. DOMAIN queue' \subseteq Nat
        BY <2>3 DEF Moved
    <2>6. UpdateBeforeRemove'
        <3> SUFFICES ASSUME NEW i \in DOMAIN queue', NEW j \in DOMAIN queue',
                            queue'[i].op = "remove", queue'[j].op = "update",
                            queue'[i].peer = queue'[j].peer
                     PROVE  j < i
            BY DEF UpdateBeforeRemove
        <3>1. j # i
            OBVIOUS
        <3>2. j \in DOMAIN queue /\ queue'[j] = queue[j]
            BY <2>1, <2>4
        <3> QED
            BY <2>4, <2>5, <3>1, <3>2 DEF UpdateBeforeRemove
    <2> QED
        BY <2>1, <2>2, <2>4, <2>6
        DEF NoGetOfExpired, GetWhilePinging, GetBehindList, OneRound, OwnObjects
<1> QED
    BY <1>1, <1>2, <1>3, <1>4, <1>5 DEF HeartbeatLoop

LEMMA PongOthers ==
    ASSUME Inv, LoopCalls, Silence, PongInv,
           \/ Arrival \/ Begin \/ Restart \/ UNCHANGED vars
           \/ \E w \in writes : Written(w)
           \/ \E p \in Peer : Unlink(p) \/ Pong(p)
    PROVE  PongInv'
<1>0. TypeOK
    BY DEF Inv
<1>1. CASE Arrival \/ UNCHANGED vars \/ \E p \in Peer : Unlink(p)
    <2>1. UNCHANGED <<queue, pending, beat, todo>>
        BY <1>1 DEF Arrival, Hello, Handshake, Unlink, vars, registry, monitor
    <2> QED
        BY <2>1 DEF PongInv, NoGetOfExpired, GetWhilePinging, GetBehindList, OneRound,
                    UpdateBeforeRemove, OwnObjects
<1>2. CASE Begin
    <2>1. Head(ready) \in Add
        BY <1>0, <1>2, HeadTailProperties DEF Begin, TypeOK
    <2>2. Head(ready) \in Call /\ Head(ready).op = "add"
        BY <2>1 DEF Add, Call
    <2>3. queue' = Append(queue, Head(ready)) /\ UNCHANGED <<pending, beat, todo>>
        BY <1>2 DEF Begin, monitor
    <2>4. Moved(0, Head(ready)) /\ ObjectsKept(0)
        BY <1>0, <2>2, <2>3, MovedAppend
    <2> QED
        BY <2>2, <2>3, <2>4, PongMoved
<1>3. CASE Restart
    BY <1>3 DEF Restart, PongInv, NoGetOfExpired, GetWhilePinging, GetBehindList, OneRound,
                UpdateBeforeRemove, OwnObjects
<1>4. ASSUME NEW w \in writes, Written(w)
      PROVE  PongInv'
    <2> DEFINE c == [op |-> "none"]
    <2>1. queue # <<>> /\ held
        BY DEF Inv, LockInv
    <2>2. queue' = Tail(queue) /\ UNCHANGED <<pending, beat, todo>>
        BY <1>4, <2>1 DEF Written, monitor
    <2>3. Moved(1, c) /\ ObjectsKept(1)
        BY <1>0, <2>1, <2>2, MovedTail
    <2>4. c.op = "none"
        OBVIOUS
    <2> HIDE DEF c
    <2> QED
        BY <2>2, <2>3, <2>4, PongMoved
<1>5. ASSUME NEW p \in Peer, Pong(p)
      PROVE  PongInv'
    <2> DEFINE c == [op |-> "get", peer |-> p]
    <2>1. c \in Call /\ c.op = "get" /\ c.peer = p
        BY DEF Call, Get
    <2>2. /\ queue' = Append(queue, c) /\ UNCHANGED <<beat, todo>> /\ pending[p] # NoPing
          /\ pending'[p] = NoPing /\ \A q \in Peer : q # p => pending'[q] = pending[q]
        BY <1>0, <1>5 DEF Pong, TypeOK
    <2> HIDE DEF c
    <2>3. Moved(0, c) /\ ObjectsKept(0)
        BY <1>0, <2>1, <2>2, MovedAppend
    <2>4. \A i \in DOMAIN queue' :
              \/ i \in DOMAIN queue /\ queue'[i] = queue[i]
              \/ queue'[i] = c /\ \A j \in DOMAIN queue' : j <= i
        <3>1. \A i \in DOMAIN queue' : i + 0 = i
            BY <2>3 DEF Moved
        <3> QED
            BY <2>3, <3>1 DEF Moved, ObjectsKept
    <2>5. \A i \in DOMAIN queue : queue[i].op = "get" => queue[i].peer \in Peer
        BY <1>0, QueueSteps, CallsDiffer DEF TypeOK, Get
    <2>6. beat \in {"remove", "removing"} => p \notin todo
        BY <2>2 DEF Silence
    <2>7. Rounds = 1 => beat = "ping" /\ p \notin todo
        BY <2>2 DEF PongInv, OneRound
    <2>8. NoGetOfExpired'
        BY <2>1, <2>2, <2>4, <2>6 DEF PongInv, NoGetOfExpired
    <2>9. GetWhilePinging'
        BY <2>1, <2>2, <2>4, <2>5, <2>7 DEF PongInv, GetWhilePinging
    <2>10. GetBehindList'
        <3> SUFFICES ASSUME NEW i \in DOMAIN queue', NEW j \in DOMAIN queue',
                            queue'[i].op = "get", queue'[j].op = "list", j < i
                     PROVE  pending'[queue'[i].peer] = NoPing /\ Rounds # 1
            BY DEF GetBehindList
        <3>1. j \in DOMAIN queue /\ queue[j].op = "list"
            BY <2>1, <2>4
        <3>2. Rounds # 1
            BY <2>7, <3>1 DEF LoopCalls
        <3> QED
            BY <2>1, <2>2, <2>4, <2>5, <3>1, <3>2 DEF PongInv, GetBehindList
    <2>11. OneRound'
        BY <2>2 DEF PongInv, OneRound
    <2> QED
        BY <2>1, <2>4, <2>8, <2>9, <2>10, <2>11
        DEF PongInv, UpdateBeforeRemove, OwnObjects
<1> QED
    BY <1>1, <1>2, <1>3, <1>4, <1>5

LEMMA PongHolds == Spec => [](Inv /\ LoopCalls /\ Silence /\ PongInv)
<1>1. Init => PongInv
    BY DEF Init, PongInv, NoGetOfExpired, GetWhilePinging, GetBehindList, OneRound,
           UpdateBeforeRemove, OwnObjects
<1>2. Inv /\ (LoopCalls /\ Silence) /\ PongInv /\ [Next]_vars => PongInv'
    BY PongGrant, PongLoop, PongOthers DEF Next
<1> QED
    BY <1>1, <1>2, InvHolds, HeartHolds, PTL DEF Spec

(* The object that handle_pong got from get_peer is still the table's when  *)
(* its add_peer has the lock: with any time-out and any traffic at the lock *)
(* the heartbeat never removes the peer in between.                         *)
THEOREM PongsFind == Spec => []PongFindsItsPeer
<1>1. Inv /\ PongInv => PongFindsItsPeer
    BY DEF Inv, OwnIsListed, PongInv, OwnObjects, PongFindsItsPeer
<1> QED
    BY <1>1, PongHolds, PTL

-----------------------------------------------------------------------------
(* The newest announcement. *)

AddOf(i, p) == queue[i].op = "add" /\ queue[i].peer = p

(* The last add_peer of a peer that waits for the lock, and the last task   *)
(* that has not begun, bring the address that was heard last.               *)
LastQueued ==
    \A p \in Peer : \A i \in DOMAIN queue :
        /\ AddOf(i, p) /\ \A j \in DOMAIN queue : AddOf(j, p) => j <= i
        /\ \A j \in DOMAIN ready : ready[j].peer # p
        => queue[i].entry.addr = heard[p].addr

LastReady ==
    \A i \in DOMAIN ready :
        (\A j \in DOMAIN ready : ready[j].peer = ready[i].peer => j <= i)
        => ready[i].entry.addr = heard[ready[i].peer].addr

NewestInv == LastQueued /\ LastReady /\ NewestWins

(* A step that makes and begins no task and stores nothing new.  A call     *)
(* that leaves the lock was no add_peer or has stored its entry.            *)
LEMMA NewestMoved ==
    ASSUME NewestInv, NEW k \in {0, 1}, NEW c, Moved(k, c), c.op # "add",
           UNCHANGED <<ready, heard>>,
           \A p \in Peer : Listed(p)' => Listed(p) /\ table'[p].addr = table[p].addr,
           \/ k = 0 /\ UNCHANGED held
           \/ k = 1 /\ held' = FALSE /\ (held \/ queue[1].op # "add")
    PROVE  NewestInv'
<1>1. DOMAIN queue \subseteq Nat \ {0} /\ DOMAIN queue' \subseteq Nat \ {0}
    BY DEF Moved
<1>2. \A i \in DOMAIN queue' : queue'[i].op = "add" =>
          i + k \in DOMAIN queue /\ queue'[i] = queue[i + k]
    BY DEF Moved, Same
<1>3. \A j \in DOMAIN queue : j > k /\ queue[j].op = "add" =>
          j - k \in DOMAIN queue' /\ queue'[j - k] = queue[j]
    BY DEF Moved, Same
<1>4. LastQueued'
    <2> SUFFICES ASSUME NEW p \in Peer, NEW i \in DOMAIN queue', AddOf(i, p)',
                        \A j \in DOMAIN queue' : AddOf(j, p)' => j <= i,
                        \A j \in DOMAIN ready : ready[j].peer # p
                 PROVE  queue'[i].entry.addr = heard[p].addr
        BY DEF LastQueued
    <2>1. i + k \in DOMAIN queue /\ queue'[i] = queue[i + k] /\ AddOf(i + k, p)
        BY <1>2 DEF AddOf
    <2>2. ASSUME NEW j \in DOMAIN queue, AddOf(j, p)
          PROVE  j <= i + k
        <3>1. CASE j > k
            <4>1. j - k \in DOMAIN queue' /\ AddOf(j - k, p)'
                BY <1>3, <2>2, <3>1 DEF AddOf
            <4>2. j - k <= i
                BY <4>1
            <4> QED
                BY <1>1, <4>2
        <3>2. CASE j <= k
            BY <1>1, <3>2
        <3> QED
            BY <1>1, <3>1, <3>2
    <2> QED
        BY <2>1, <2>2 DEF NewestInv, LastQueued
<1>5. LastReady'
    BY DEF NewestInv, LastReady
<1>6. ASSUME NEW p \in Peer, Announced(p)
      PROVE  Announced(p)'
    <2>1. CASE \E i \in DOMAIN ready : ready[i].peer = p
        BY <2>1 DEF Announced
    <2>2. ASSUME NEW i \in DOMAIN queue, AddOf(i, p), held => i # 1
          PROVE  Announced(p)'
        <3>1. i > k
            BY <1>1, <2>2 DEF AddOf
        <3>2. i - k \in DOMAIN queue' /\ queue'[i - k] = queue[i]
            BY <1>3, <2>2, <3>1 DEF AddOf
        <3>3. held' => i - k # 1
            <4>1. CASE k = 0 /\ UNCHANGED held
                <5>1. i - k = i
                    BY <1>1, <4>1
                <5> QED
                    BY <2>2, <4>1, <5>1, Zenon
            <4>2. CASE k = 1 /\ held' = FALSE
                BY <4>2, Zenon
            <4> QED
                BY <4>1, <4>2
        <3> QED
            BY <2>2, <3>2, <3>3 DEF Announced, AddOf
    <2> QED
        BY <1>6, <2>1, <2>2 DEF Announced, AddOf
<1>7. NewestWins'
    BY <1>6 DEF NewestInv, NewestWins
<1> QED
    BY <1>4, <1>5, <1>7 DEF NewestInv

(* What has been said of the queue holds of the tasks not begun.            *)
LEMMA ReadySteps ==
    ASSUME TypeOK
    PROVE  /\ Len(ready) \in Nat /\ DOMAIN ready = 1 .. Len(ready)
           /\ \A i \in DOMAIN ready : ready[i] \in Add
           /\ ready # <<>> => /\ Head(ready) \in Add /\ 1 \in DOMAIN ready /\ Head(ready) = ready[1]
                              /\ DOMAIN Tail(ready) = 1 .. Len(ready) - 1
                              /\ \A i \in DOMAIN Tail(ready) :
                                   i + 1 \in DOMAIN ready /\ Tail(ready)[i] = ready[i + 1]
           /\ \A c \in Add : /\ DOMAIN Append(ready, c) = 1 .. Len(ready) + 1
                             /\ \A i \in DOMAIN ready : Append(ready, c)[i] = ready[i]
                             /\ Append(ready, c)[Len(ready) + 1] = c
<1>1. ready \in Seq(Add)
    BY DEF TypeOK
<1>2. Len(ready) \in Nat /\ DOMAIN ready = 1 .. Len(ready) /\ \A i \in DOMAIN ready : ready[i] \in Add
    BY <1>1, LenProperties, ElementOfSeq
<1>3. ready \in Seq(Call)
    <2>1. ready \in [1 .. Len(ready) -> Call]
        BY <1>1, <1>2, LenProperties DEF Call
    <2> QED
        BY <1>2, <2>1, SeqDef
<1>4. \A c \in Add : c \in Call
    BY DEF Call
<1>5. ready # <<>> => Head(ready) = ready[1] /\ 1 \in DOMAIN ready
    BY <1>3, QueueSteps
<1>6. ready # <<>> => /\ DOMAIN Tail(ready) = 1 .. Len(ready) - 1
                      /\ \A i \in DOMAIN Tail(ready) :
                           i + 1 \in DOMAIN ready /\ Tail(ready)[i] = ready[i + 1]
    BY <1>3, QueueSteps
<1>7. \A c \in Add : /\ DOMAIN Append(ready, c) = 1 .. Len(ready) + 1
                     /\ \A i \in DOMAIN ready : Append(ready, c)[i] = ready[i]
                     /\ Append(ready, c)[Len(ready) + 1] = c
    BY <1>3, <1>4, QueueSteps
<1> QED
    BY <1>2, <1>5, <1>6, <1>7

LEMMA NewestAnnounce ==
    ASSUME TypeOK, NewestInv, NEW p \in Peer, NEW e \in Entry, Announce(p, e),
           UNCHANGED <<table, queue, held>>
    PROVE  NewestInv'
<1> DEFINE c == [op |-> "add", peer |-> p, entry |-> e]
           n == Len(ready) + 1
<1>1. c \in Add /\ c.peer = p /\ c.entry = e
    BY DEF Add
<1>2. /\ ready' = Append(ready, c) /\ heard'[p] = Merged(heard[p], e)
      /\ \A q \in Peer : q # p => heard'[q] = heard[q]
    BY DEF Announce, TypeOK
<1>3. heard'[p].addr = e.addr
    BY <1>2 DEF Merged, Entry
<1> HIDE DEF c
<1>4. /\ DOMAIN ready' = 1 .. n /\ n \in Nat /\ DOMAIN ready = 1 .. n - 1
      /\ \A i \in DOMAIN ready : ready'[i] = ready[i]
      /\ ready'[n] = c
    BY <1>1, <1>2, ReadySteps
<1>5. /\ \A i \in DOMAIN ready' : i \in DOMAIN ready \/ i = n
      /\ \A i \in DOMAIN ready : i \in DOMAIN ready' /\ ~(n <= i)
      /\ n \in DOMAIN ready'
    BY <1>4
<1>6. \A i \in DOMAIN ready : ready[i].peer \in Peer
    BY ReadySteps DEF Add
<1> HIDE DEF n
<1>7. LastReady'
    BY <1>1, <1>2, <1>3, <1>4, <1>5, <1>6 DEF NewestInv, LastReady
<1>8. LastQueued'
    <2> SUFFICES ASSUME NEW q \in Peer, NEW i \in DOMAIN queue, AddOf(i, q),
                        \A j \in DOMAIN queue : AddOf(j, q) => j <= i,
                        \A j \in DOMAIN ready' : ready'[j].peer # q
                 PROVE  queue[i].entry.addr = heard'[q].addr
        BY DEF LastQueued, AddOf
    <2>1. q # p
        BY <1>1, <1>4, <1>5
    <2>2. \A j \in DOMAIN ready : ready[j].peer # q
        BY <1>4, <1>5
    <2> QED
        BY <1>2, <2>1, <2>2 DEF NewestInv, LastQueued
<1>9. NewestWins'
    <2> SUFFICES ASSUME NEW q \in Peer, Listed(q), ~Announced(q)'
                 PROVE  table[q].addr = heard'[q].addr
        BY DEF NewestWins, Listed
    <2>1. q # p
        BY <1>1, <1>4, <1>5 DEF Announced
    <2>2. ~Announced(q)
        BY <1>4, <1>5 DEF Announced
    <2> QED
        BY <1>2, <2>1, <2>2 DEF NewestInv, NewestWins
<1> QED
    BY <1>7, <1>8, <1>9 DEF NewestInv

LEMMA NewestBegin ==
    ASSUME Inv, NewestInv, Begin
    PROVE  NewestInv'
<1> DEFINE c == Head(ready)
           n == Len(queue) + 1
<1>0. TypeOK /\ ready # <<>> /\ (held => queue # <<>>)
    BY DEF Inv, LockInv, Begin
<1>1. /\ c \in Add /\ c = ready[1] /\ 1 \in DOMAIN ready
      /\ ready' = Tail(ready) /\ queue' = Append(queue, c)
      /\ UNCHANGED <<table, held, heard>>
    BY <1>0, ReadySteps DEF Begin, history
<1>2. c \in Call /\ c.op = "add" /\ c.peer \in Peer
    BY <1>1 DEF Add, Call
<1>3. /\ \A i \in DOMAIN ready' : /\ i \in Nat \ {0} /\ i + 1 \in DOMAIN ready
                                  /\ ready'[i] = ready[i + 1]
      /\ \A j \in DOMAIN ready : j = 1 \/ (j - 1 \in DOMAIN ready' /\ ready'[j - 1] = ready[j])
      /\ DOMAIN ready \subseteq Nat \ {0}
    <2>1. /\ DOMAIN ready' = 1 .. Len(ready) - 1 /\ DOMAIN ready = 1 .. Len(ready)
          /\ Len(ready) \in Nat
          /\ \A i \in DOMAIN ready' : ready'[i] = ready[i + 1]
        BY <1>0, <1>1, ReadySteps
    <2>2. \A j \in DOMAIN ready : j = 1 \/ (j - 1 \in DOMAIN ready' /\ (j - 1) + 1 = j)
        BY <2>1
    <2>3. \A i \in DOMAIN ready' : i \in Nat \ {0} /\ i + 1 \in DOMAIN ready
        BY <2>1
    <2>4. DOMAIN ready \subseteq Nat \ {0}
        BY <2>1
    <2> QED
        BY <2>1, <2>2, <2>3, <2>4
<1>4. /\ DOMAIN queue' = 1 .. n /\ n \in Nat /\ DOMAIN queue = 1 .. n - 1
      /\ \A i \in DOMAIN queue : queue'[i] = queue[i]
      /\ queue'[n] = c
    BY <1>0, <1>1, <1>2, QueueSteps DEF TypeOK
<1>5. /\ \A i \in DOMAIN queue' : i \in DOMAIN queue \/ i = n
      /\ \A i \in DOMAIN queue : i \in DOMAIN queue' /\ ~(n <= i)
      /\ n \in DOMAIN queue'
    BY <1>4
<1>6. held => n # 1
    <2>1. queue # <<>> => 1 \in DOMAIN queue
        BY <1>0, QueueSteps DEF TypeOK
    <2> QED
        BY <1>0, <1>4, <2>1
<1> HIDE DEF c, n
<1>7. LastReady'
    <2> SUFFICES ASSUME NEW i \in DOMAIN ready',
                        \A j \in DOMAIN ready' : ready'[j].peer = ready'[i].peer => j <= i
                 PROVE  ready'[i].entry.addr = heard[ready'[i].peer].addr
        BY <1>1 DEF LastReady
    <2>1. i + 1 \in DOMAIN ready /\ ready'[i] = ready[i + 1] /\ i \in Nat \ {0}
        BY <1>3
    <2>2. \A j \in DOMAIN ready : ready[j].peer = ready[i + 1].peer => j <= i + 1
        <3> SUFFICES ASSUME NEW j \in DOMAIN ready, ready[j].peer = ready[i + 1].peer, j # 1
                     PROVE  j <= i + 1
            BY <2>1
        <3>1. j - 1 \in DOMAIN ready' /\ ready'[j - 1] = ready[j]
            BY <1>3
        <3>2. j - 1 <= i
            BY <2>1, <3>1
        <3> QED
            BY <1>3, <2>1, <3>2
    <2> QED
        BY <2>1, <2>2 DEF NewestInv, LastReady
<1>8. LastQueued'
    <2> SUFFICES ASSUME NEW p \in Peer, NEW i \in DOMAIN queue', AddOf(i, p)',
                        \A j \in DOMAIN queue' : AddOf(j, p)' => j <= i,
                        \A j \in DOMAIN ready' : ready'[j].peer # p
                 PROVE  queue'[i].entry.addr = heard[p].addr
        BY <1>1 DEF LastQueued
    <2>1. CASE c.peer = p
        <3>1. i = n
            BY <1>2, <1>4, <1>5, <2>1 DEF AddOf
        <3>2. \A j \in DOMAIN ready : ready[j].peer = p => j = 1
            BY <1>3
        <3>3. \A j \in DOMAIN ready : ready[j].peer = ready[1].peer => j <= 1
            BY <1>1, <2>1, <3>2
        <3>4. ready[1].entry.addr = heard[p].addr
            BY <1>1, <2>1, <3>3 DEF NewestInv, LastReady
        <3> QED
            BY <1>1, <1>4, <3>1, <3>4
    <2>2. CASE c.peer # p
        <3>1. i \in DOMAIN queue /\ AddOf(i, p) /\ queue'[i] = queue[i]
            BY <1>4, <1>5, <2>2 DEF AddOf
        <3>2. \A j \in DOMAIN queue : AddOf(j, p) => j <= i
            BY <1>4, <1>5 DEF AddOf
        <3>3. \A j \in DOMAIN ready : ready[j].peer # p
            BY <1>1, <1>3, <2>2
        <3> QED
            BY <3>1, <3>2, <3>3 DEF NewestInv, LastQueued
    <2> QED
        BY <2>1, <2>2
<1>9. ASSUME NEW p \in Peer, Announced(p)
      PROVE  Announced(p)'
    <2>1. ASSUME NEW i \in DOMAIN ready, ready[i].peer = p
          PROVE  Announced(p)'
        <3>1. CASE i = 1
            BY <1>1, <1>2, <1>4, <1>5, <1>6, <2>1, <3>1 DEF Announced
        <3>2. CASE i # 1
            BY <1>3, <2>1, <3>2 DEF Announced
        <3> QED
            BY <3>1, <3>2
    <2>2. ASSUME NEW i \in DOMAIN queue, AddOf(i, p), held => i # 1
          PROVE  Announced(p)'
        BY <1>1, <1>4, <1>5, <2>2 DEF Announced, AddOf
    <2> QED
        BY <1>9, <2>1, <2>2 DEF Announced, AddOf
<1>10. NewestWins'
    BY <1>1, <1>9 DEF NewestInv, NewestWins, Listed
<1> QED
    BY <1>7, <1>8, <1>10 DEF NewestInv

LEMMA NewestStored ==
    ASSUME Inv, PongInv, NewestInv, GrantAdd \/ GrantUpdate
    PROVE  NewestInv'
<1>0. TypeOK /\ OwnIsListed /\ queue # <<>> /\ ~held
    BY DEF Inv, GrantAdd, GrantUpdate, Granted
<1>h. Head(queue) \in Call /\ Head(queue) = queue[1] /\ 1 \in DOMAIN queue
    BY <1>0, QueueSteps DEF TypeOK
<1>1. UNCHANGED <<ready, queue, heard>> /\ held'
    BY <1>0, GrantStores DEF StorePeer, history
<1>2. LastQueued' /\ LastReady'
    BY <1>1 DEF NewestInv, LastQueued, LastReady, AddOf
<1>d. DOMAIN queue \subseteq Nat \ {0}
    BY <1>0, QueueSteps DEF TypeOK
<1>3. CASE GrantUpdate
    <2>1. queue[1].op = "update" /\ queue[1].entry = NoEntry
        BY <1>h, <1>3 DEF GrantUpdate, Granted, PongInv, OwnObjects
    <2>2. table' = [table EXCEPT ![queue[1].peer] = table[queue[1].peer]]
        BY <1>h, <1>3, <2>1 DEF GrantUpdate, StorePeer
    <2>3. table' = table
        BY <1>0, <2>2 DEF TypeOK
    <2>4. \A p \in Peer : Announced(p) => Announced(p)'
        BY <1>1, <2>1 DEF Announced
    <2>5. NewestWins'
        BY <1>1, <2>3, <2>4 DEF NewestInv, NewestWins, Listed
    <2> QED
        BY <1>2, <2>5 DEF NewestInv
<1>4. CASE GrantAdd
    <2> DEFINE p == queue[1].peer
               e == queue[1].entry
    <2>1. queue[1].op = "add" /\ p \in Peer /\ e \in Entry
        BY <1>h, <1>4, CallsDiffer DEF GrantAdd, Granted, Add
    <2>2. table' = [table EXCEPT ![p] = Merged(table[p], e)]
        BY <1>h, <1>4 DEF GrantAdd, StorePeer
    <2>3. table'[p].addr = e.addr /\ \A q \in Peer : q # p => table'[q] = table[q]
        BY <1>0, <2>1, <2>2 DEF TypeOK, Merged, Entry
    <2>4. NewestWins'
        <3> SUFFICES ASSUME NEW q \in Peer, Listed(q)', ~Announced(q)'
                     PROVE  table'[q].addr = heard[q].addr
            BY <1>1 DEF NewestWins
        <3>1. CASE q = p
            <4>1. \A j \in DOMAIN ready : ready[j].peer # p
                BY <1>1, <3>1 DEF Announced
            <4>2. \A j \in DOMAIN queue : AddOf(j, p) => j <= 1
                BY <1>1, <1>d, <3>1 DEF Announced, AddOf
            <4>3. e.addr = heard[p].addr
                BY <1>h, <2>1, <4>1, <4>2 DEF NewestInv, LastQueued, AddOf
            <4> QED
                BY <2>3, <3>1, <4>3
        <3>2. CASE q # p
            <4>1. ~Announced(q)
                BY <1>1, <3>2 DEF Announced
            <4>2. Listed(q)
                BY <2>3, <3>2 DEF Listed
            <4> QED
                BY <2>3, <3>2, <4>1, <4>2 DEF NewestInv, NewestWins
        <3> QED
            BY <3>1, <3>2
    <2> QED
        BY <1>2, <2>4 DEF NewestInv
<1> QED
    BY <1>3, <1>4

LEMMA NewestNext ==
    ASSUME Inv, LoopCalls, PongInv, NewestInv, [Next]_vars
    PROVE  NewestInv'
<1>0. TypeOK
    BY DEF Inv
<1> DEFINE none == [op |-> "none"]
<1>n. none.op = "none"
    OBVIOUS
<1> HIDE DEF none
<1>s. ASSUME UNCHANGED table
      PROVE  \A p \in Peer : Listed(p)' => Listed(p) /\ table'[p].addr = table[p].addr
    BY <1>s DEF Listed
<1>q. ASSUME UNCHANGED <<table, ready, heard, held>>,
             UNCHANGED queue \/ \E c \in Call : c.op # "add" /\ queue' = Append(queue, c)
      PROVE  NewestInv'
    <2>1. CASE UNCHANGED queue
        BY <1>0, <1>n, <1>s, <1>q, <2>1, MovedNone, NewestMoved
    <2>2. ASSUME NEW c \in Call, c.op # "add", queue' = Append(queue, c)
          PROVE  NewestInv'
        BY <1>0, <1>s, <1>q, <2>2, MovedAppend, NewestMoved
    <2> QED
        BY <1>q, <2>1, <2>2
<1>1. CASE Arrival
    <2>1. ASSUME NEW p \in Peer, NEW a \in Addr, Hello(p, a)
          PROVE  NewestInv'
        <3>1. [addr |-> a, score |-> 1] \in Entry
            BY DEF Entry, Score
        <3> QED
            BY <1>0, <2>1, <3>1, NewestAnnounce DEF Hello
    <2>2. ASSUME NEW p \in Peer, NEW a \in Addr, Handshake(p, a)
          PROVE  NewestInv'
        <3>1. [addr |-> a, score |-> 0] \in Entry
            BY DEF Entry, Score
        <3> QED
            BY <1>0, <2>2, <3>1, NewestAnnounce DEF Handshake
    <2> QED
        BY <1>1, <2>1, <2>2 DEF Arrival
<1>2. CASE Begin
    BY <1>2, NewestBegin
<1>3. CASE GrantAdd \/ GrantUpdate
    BY <1>3, NewestStored
<1>4. CASE GrantGet \/ GrantList \/ GrantRemove
    <2>1. queue # <<>> /\ ~held /\ held' = FALSE /\ UNCHANGED <<ready, heard>>
        BY <1>4, <1>0 DEF GrantGet, GrantList, GrantRemove, Granted, history, TypeOK
    <2>2. queue[1].op # "add" /\ Head(queue) = queue[1] /\ queue[1] \in Call
        BY <1>0, <1>4, <2>1, QueueSteps DEF TypeOK, GrantGet, GrantList, GrantRemove, Granted
    <2>3. \A p \in Peer : Listed(p)' => Listed(p) /\ table'[p].addr = table[p].addr
        BY <1>0, <1>4 DEF GrantGet, GrantList, GrantRemove, Listed, TypeOK
    <2>4. \E c : c.op # "add" /\ Moved(1, c)
        <3>1. CASE GrantGet
            <4> DEFINE c == [op |-> "update", peer |-> Head(queue).peer, entry |-> NoEntry]
            <4>1. c.op = "update" /\ c \in Call
                BY <2>2, <3>1, CallsDiffer DEF GrantGet, Granted, Call, Update, Get, Slot
            <4>2. queue' = Append(Tail(queue), c) \/ queue' = Tail(queue)
                BY <3>1 DEF GrantGet
            <4> HIDE DEF c
            <4>3. Moved(1, c)
                BY <1>0, <2>1, <4>1, <4>2, MovedGet, MovedTail
            <4> QED
                BY <4>1, <4>3
        <3>2. CASE GrantList
            BY <1>0, <1>n, <2>1, <3>2, MovedTail DEF GrantList
        <3>3. CASE GrantRemove
            BY <1>0, <1>n, <3>3, MovedRemove
        <3> QED
            BY <1>4, <3>1, <3>2, <3>3
    <2>5. PICK c : c.op # "add" /\ Moved(1, c)
        BY <2>4
    <2> QED
        BY <2>1, <2>2, <2>3, <2>5, NewestMoved
<1>5. CASE HeartbeatLoop
    <2>1. UNCHANGED <<table, ready, heard, held>>
        BY <1>5 DEF HeartbeatLoop, BeatList, Round, RemovedAll, Ping, AskRemove, registry, history
    <2>2. UNCHANGED queue \/ \E c \in Call : c.op # "add" /\ queue' = Append(queue, c)
        <3>1. [op |-> "list"] \in Call /\ \A p \in Peer : [op |-> "remove", peer |-> p] \in Call
            BY DEF Call, List, Remove
        <3> QED
            BY <1>5, <3>1
            DEF HeartbeatLoop, BeatList, Round, RemovedAll, Ping, AskRemove, registry
    <2> QED
        BY <1>q, <2>1, <2>2
<1>6. CASE Restart
    BY <1>6 DEF Restart, NewestInv, LastQueued, LastReady, NewestWins, Listed
<1>7. ASSUME NEW w \in writes, Written(w)
      PROVE  NewestInv'
    <2>1. queue # <<>> /\ held
        BY DEF Inv, LockInv
    <2>2. queue' = Tail(queue) /\ UNCHANGED <<table, ready, heard>> /\ held' = FALSE
        BY <1>7, <2>1 DEF Written
    <2>3. Moved(1, none)
        BY <1>0, <2>1, <2>2, MovedTail
    <2> QED
        BY <1>n, <1>s, <2>1, <2>2, <2>3, NewestMoved
<1>8. ASSUME NEW p \in Peer, Unlink(p) \/ Pong(p)
      PROVE  NewestInv'
    <2>1. [op |-> "get", peer |-> p] \in Call
        BY DEF Call, Get
    <2> QED
        BY <1>8, <1>q, <2>1 DEF Unlink, Pong, registry, history
<1>9. CASE UNCHANGED vars
    BY <1>9, <1>q DEF vars, registry, history
<1> QED
    BY <1>1, <1>2, <1>3, <1>4, <1>5, <1>6, <1>7, <1>8, <1>9 DEF Next, Grant

(* Once its announcements are through the tasks and the lock, a listed peer *)
(* is where it last said it was: no older announcement and no object of a   *)
(* pong overtakes a newer one.                                              *)
THEOREM Newest == Spec => []NewestWins
<1>1. Init => NewestInv
    BY DEF Init, NewestInv, LastQueued, LastReady, NewestWins, Listed
<1>2. (Inv /\ LoopCalls /\ Silence /\ PongInv) /\ NewestInv /\ [Next]_vars => NewestInv'
    BY NewestNext
<1>3. NewestInv => NewestWins
    BY DEF NewestInv
<1> QED
    BY <1>1, <1>2, <1>3, PongHolds, PTL DEF Spec

=============================================================================
