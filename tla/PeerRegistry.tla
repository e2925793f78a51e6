---------------------------- MODULE PeerRegistry ----------------------------
(***************************************************************************)
(* The peer table of one node: NodeState of backend/node/state.py with the *)
(* table `peers' of backend/storage/db.py under it, HELLO datagrams        *)
(* (backend/network/discovery.py) and TCP handshakes                       *)
(* (backend/network/connection.py) that add peers, the HeartbeatMonitor of *)
(* backend/advanced/heartbeat.py that removes them, and restarts.          *)
(*                                                                         *)
(* All calls go through one asyncio.Lock, which is granted in the order of *)
(* the requests.  add_peer keeps it while a thread writes the row.  An     *)
(* entry is what the table and the database both keep of a peer: where it  *)
(* is, and the score it reported, 0 if none.                               *)
(***************************************************************************)
EXTENDS Naturals, Sequences

CONSTANTS
    Peer,
    Addr,
    Linkable,   \* the peers that this node gets a TCP connection with
    Rounds,     \* heartbeat rounds in a time-out (15 s / 5 s in the code)
    MaxCalls,   \* calls of add_peer and handle_pong under way at once
    MaxBoots,   \* restarts of the node
    NoEntry,
    NoPing

Score == {0, 1}
Entry == [addr : Addr, score : Score]
Slot == Entry \cup {NoEntry}

(* The calls that wait for the lock.  add_peer of handle_pong is `update':  *)
(* it passes the object it got from get_peer, which is the table's own      *)
(* (entry NoEntry) unless the peer was removed since (then its last entry). *)
Add == [op : {"add"}, peer : Peer, entry : Entry]
Update == [op : {"update"}, peer : Peer, entry : Slot]
Get == [op : {"get"}, peer : Peer]
Remove == [op : {"remove"}, peer : Peer]
List == [op : {"list"}]
Call == Add \cup Update \cup Get \cup Remove \cup List

Write == [peer : Peer, entry : Entry]

Beat == {"list", "listing", "ping", "remove", "removing"}

ASSUME RoundsAssumption == Rounds \in Nat \ {0}
ASSUME BoundsAssumption == MaxCalls \in Nat /\ MaxBoots \in Nat
ASSUME LinkableAssumption == Linkable \subseteq Peer
ASSUME NullAssumption == NoEntry \notin Entry /\ NoPing \notin Nat

VARIABLES
    table,     \* _peers
    rows,      \* the rows of `peers' on disk
    ready,     \* add_peer tasks made by ensure_future and not begun
    queue,     \* calls at the lock, in the order they asked for it
    held,      \* the first of them has the lock and awaits its upsert
    writes,    \* upserts running in threads
    linked,    \* peers in the connection table
    pending,   \* _pending_pings, as rounds since the ping
    beat,      \* where _heartbeat_loop is
    todo,      \* the peers its present for-loop has left
    boots,
    heard,     \* history: the entry that the latest arrival announced
    unsaved,   \* history: peers whose latest upsert failed
    answered   \* history: rounds since the peer's latest pong

registry == <<table, rows, ready, queue, held, writes>>
monitor == <<linked, pending, beat, todo>>
history == <<heard, unsaved, answered>>
vars == <<registry, monitor, boots, history>>

TypeOK ==
    /\ table \in [Peer -> Slot] /\ rows \in [Peer -> Slot]
    /\ ready \in Seq(Add) /\ queue \in Seq(Call)
    /\ held \in BOOLEAN /\ writes \subseteq Write
    /\ linked \subseteq Linkable
    /\ pending \in [Peer -> (0 .. Rounds - 1) \cup {NoPing}]
    /\ beat \in Beat /\ todo \subseteq Peer
    /\ boots \in 0 .. MaxBoots
    /\ heard \in [Peer -> Slot] /\ unsaved \subseteq Peer
    /\ answered \in [Peer -> 0 .. Rounds]

Listed(p) == table[p] # NoEntry

Init ==
    /\ table = [p \in Peer |-> NoEntry] /\ rows = table
    /\ ready = <<>> /\ queue = <<>> /\ held = FALSE /\ writes = {}
    /\ linked = {} /\ pending = [p \in Peer |-> NoPing]
    /\ beat = "list" /\ todo = {} /\ boots = 0
    /\ heard = table /\ unsaved = {} /\ answered = [p \in Peer |-> Rounds]

-----------------------------------------------------------------------------
(* Arrivals. *)

Room == Len(ready) + Len(queue) < MaxCalls

(* What add_peer makes of an announced entry: a score that was not reported *)
(* does not replace the known one.                                          *)
Merged(old, new) ==
    IF old # NoEntry /\ new.score = 0 THEN [new EXCEPT !.score = old.score] ELSE new

(* A task for add_peer; the event loop starts tasks in the order they were  *)
(* made.  The first form starts the latest one first.                       *)
AnnounceFirst(p, e) ==
    /\ ready' = <<[op |-> "add", peer |-> p, entry |-> e]>> \o ready
    /\ heard' = [heard EXCEPT ![p] = Merged(@, e)]

Announce(p, e) ==
    /\ ready' = Append(ready, [op |-> "add", peer |-> p, entry |-> e])
    /\ heard' = [heard EXCEPT ![p] = Merged(@, e)]

(* datagram_received, of a HELLO that another node of the swarm signed. *)
Hello(p, a) ==
    /\ Room
    /\ Announce(p, [addr |-> a, score |-> 1])
    /\ UNCHANGED <<table, rows, queue, held, writes, monitor, boots, unsaved, answered>>

(* The end of a handshake, on either side. *)
Handshake(p, a) ==
    /\ Room /\ p \in Linkable
    /\ Announce(p, [addr |-> a, score |-> 0])
    /\ linked' = linked \cup {p}
    /\ UNCHANGED <<table, rows, queue, held, writes, pending, beat, todo, boots,
                   unsaved, answered>>

(* The end of _handle_client takes the connection from the table. *)
Unlink(p) ==
    /\ p \in linked
    /\ linked' = linked \ {p}
    /\ UNCHANGED <<registry, pending, beat, todo, boots, history>>

Begin ==
    /\ ready # <<>>
    /\ ready' = Tail(ready) /\ queue' = Append(queue, Head(ready))
    /\ UNCHANGED <<table, rows, held, writes, monitor, boots, history>>

-----------------------------------------------------------------------------
(* The lock goes to the first call. *)

Granted(op) == queue # <<>> /\ ~held /\ Head(queue).op = op

(* add_peer up to the await of upsert_peer.  The row written is the entry   *)
(* as it is now.  The first form leaves the lock before the await.          *)
StorePeerUnlocked(p, e) ==
    /\ table' = [table EXCEPT ![p] = e]
    /\ writes' = writes \cup {[peer |-> p, entry |-> e]}
    /\ queue' = Tail(queue)
    /\ UNCHANGED <<rows, ready, held, monitor, boots, history>>

StorePeer(p, e) ==
    /\ table' = [table EXCEPT ![p] = e]
    /\ writes' = writes \cup {[peer |-> p, entry |-> e]}
    /\ held' = TRUE
    /\ UNCHANGED <<rows, ready, queue, monitor, boots, history>>

GrantAdd ==
    /\ Granted("add")
    /\ LET c == Head(queue) IN StorePeer(c.peer, Merged(table[c.peer], c.entry))

(* The object of an update is the table's own, so that the address cannot   *)
(* change, unless the peer was removed and has perhaps been added anew.     *)
GrantUpdate ==
    /\ Granted("update")
    /\ LET c == Head(queue)
       IN  StorePeer(c.peer, IF c.entry = NoEntry THEN table[c.peer]
                             ELSE Merged(table[c.peer], c.entry))

(* get_peer of handle_pong, which asks for the lock again for its add_peer. *)
GrantGet ==
    /\ Granted("get")
    /\ LET p == Head(queue).peer
       IN  queue' = IF Listed(p)
                    THEN Append(Tail(queue), [op |-> "update", peer |-> p, entry |-> NoEntry])
                    ELSE Tail(queue)
    /\ UNCHANGED <<table, rows, ready, held, writes, monitor, boots, history>>

(* get_all_peers of _ping_all_peers. *)
GrantList ==
    /\ Granted("list")
    /\ queue' = Tail(queue)
    /\ beat' = "ping" /\ todo' = {p \in Peer : Listed(p)}
    /\ UNCHANGED <<table, rows, ready, held, writes, linked, pending, boots, history>>

(* An object that handle_pong holds is its own from here on. *)
Detached(p, c) ==
    IF c.op = "update" /\ c.peer = p /\ c.entry = NoEntry
    THEN [c EXCEPT !.entry = table[p]] ELSE c

(* remove_peer; the row stays. *)
GrantRemove ==
    /\ Granted("remove")
    /\ LET p == Head(queue).peer
       IN  /\ table' = [table EXCEPT ![p] = NoEntry]
           /\ queue' = [i \in DOMAIN Tail(queue) |-> Detached(p, Tail(queue)[i])]
           /\ todo' = todo \ {p}
    /\ beat' = "remove"
    /\ UNCHANGED <<rows, ready, held, writes, linked, pending, boots, history>>

(* The thread has written the row, or the database raised an exception;     *)
(* `async with' releases the lock in both cases, and in the first form in   *)
(* the good one only.  (A write without the lock would release nothing.)    *)
WrittenKeepsLock(w) ==
    /\ w \in writes
    /\ writes' = writes \ {w}
    /\ \/ /\ rows' = [rows EXCEPT ![w.peer] = w.entry] /\ unsaved' = unsaved \ {w.peer}
          /\ held' = FALSE /\ queue' = Tail(queue)
       \/ /\ unsaved' = unsaved \cup {w.peer}
          /\ UNCHANGED <<rows, held, queue>>
    /\ UNCHANGED <<table, ready, monitor, boots, heard, answered>>

Written(w) ==
    /\ w \in writes
    /\ writes' = writes \ {w}
    /\ \/ rows' = [rows EXCEPT ![w.peer] = w.entry] /\ unsaved' = unsaved \ {w.peer}
       \/ unsaved' = unsaved \cup {w.peer} /\ UNCHANGED rows
    /\ held' = FALSE /\ queue' = IF held THEN Tail(queue) ELSE queue
    /\ UNCHANGED <<table, ready, monitor, boots, heard, answered>>

Grant == GrantAdd \/ GrantUpdate \/ GrantGet \/ GrantList \/ GrantRemove

-----------------------------------------------------------------------------
(* The heartbeat loop: list the peers, ping each, sleep, check, remove. *)

BeatList ==
    /\ beat = "list"
    /\ beat' = "listing" /\ queue' = Append(queue, [op |-> "list"])
    /\ UNCHANGED <<table, rows, ready, held, writes, linked, pending, todo, boots, history>>

(* A ping that is sent replaces the time of the one before it. *)
Ping(p) ==
    /\ beat = "ping" /\ p \in todo
    /\ todo' = todo \ {p}
    /\ \/ p \in linked /\ pending' = [pending EXCEPT ![p] = 0]
       \/ UNCHANGED pending
    /\ UNCHANGED <<registry, linked, beat, boots, history>>

(* The sleep and _check_timeouts up to its first await; the first form of   *)
(* the comparison is one round late.                                        *)
ExpiredLate(p) == pending[p] # NoPing /\ pending[p] + 1 > Rounds

Expired(p) == pending[p] # NoPing /\ pending[p] + 1 >= Rounds

Round ==
    /\ beat = "ping" /\ todo = {}
    /\ beat' = "remove" /\ todo' = {p \in Peer : Expired(p)}
    /\ pending' = [p \in Peer |-> IF pending[p] = NoPing \/ Expired(p) THEN NoPing
                                  ELSE pending[p] + 1]
    /\ answered' = [p \in Peer |-> IF answered[p] = Rounds THEN Rounds ELSE answered[p] + 1]
    /\ UNCHANGED <<registry, linked, boots, heard, unsaved>>

AskRemove(p) ==
    /\ beat = "remove" /\ p \in todo
    /\ beat' = "removing" /\ queue' = Append(queue, [op |-> "remove", peer |-> p])
    /\ UNCHANGED <<table, rows, ready, held, writes, linked, pending, todo, boots, history>>

RemovedAll ==
    /\ beat = "remove" /\ todo = {}
    /\ beat' = "list"
    /\ UNCHANGED <<registry, linked, pending, todo, boots, history>>

(* handle_pong up to its get_peer.  One coroutine reads the connection of a *)
(* peer, so that it handles one pong at a time.  In the first form the ping *)
(* stays pending.                                                           *)
Handling(p) == \E i \in DOMAIN queue : queue[i].op \in {"get", "update"} /\ queue[i].peer = p

PongStaysPending(p) ==
    /\ pending[p] # NoPing /\ ~Handling(p) /\ Room
    /\ queue' = Append(queue, [op |-> "get", peer |-> p])
    /\ answered' = [answered EXCEPT ![p] = 0]
    /\ UNCHANGED <<table, rows, ready, held, writes, monitor, boots, heard, unsaved>>

Pong(p) ==
    /\ pending[p] # NoPing /\ ~Handling(p) /\ Room
    /\ pending' = [pending EXCEPT ![p] = NoPing]
    /\ queue' = Append(queue, [op |-> "get", peer |-> p])
    /\ answered' = [answered EXCEPT ![p] = 0]
    /\ UNCHANGED <<table, rows, ready, held, writes, linked, beat, todo, boots, heard, unsaved>>

-----------------------------------------------------------------------------
(* The process dies; load_peers_from_db fills the table before anything     *)
(* else is started.                                                         *)
Restart ==
    /\ boots < MaxBoots
    /\ boots' = boots + 1
    /\ table' = rows /\ heard' = rows /\ unsaved' = {}
    /\ ready' = <<>> /\ queue' = <<>> /\ held' = FALSE /\ writes' = {}
    /\ linked' = {} /\ pending' = [p \in Peer |-> NoPing]
    /\ beat' = "list" /\ todo' = {}
    /\ answered' = [p \in Peer |-> Rounds]
    /\ UNCHANGED rows

Arrival == \E p \in Peer : \E a \in Addr : Hello(p, a) \/ Handshake(p, a)

HeartbeatLoop == BeatList \/ Round \/ RemovedAll \/ \E p \in Peer : Ping(p) \/ AskRemove(p)

Next ==
    \/ Arrival \/ Begin \/ Grant \/ HeartbeatLoop \/ Restart
    \/ \E w \in writes : Written(w)
    \/ \E p \in Peer : Unlink(p) \/ Pong(p)

Spec == Init /\ [][Next]_vars

(* Tasks are started, a released lock goes to the next call, and a write    *)
(* comes back, with or without an error.                                    *)
FairSpec ==
    /\ Spec
    /\ WF_vars(Begin) /\ WF_vars(Grant) /\ WF_vars(\E w \in writes : Written(w))

-----------------------------------------------------------------------------
(* The database follows the table: unless its write is under way or failed, *)
(* the row of a listed peer is its entry.  This is what holding the lock    *)
(* across upsert_peer is for: two writes never race each other.             *)
RowsFollow ==
    \A p \in Peer :
        Listed(p) /\ p \notin unsaved /\ (\A w \in writes : w.peer # p)
            => rows[p] = table[p]

Announced(p) ==
    \/ \E i \in DOMAIN ready : ready[i].peer = p
    \/ \E i \in DOMAIN queue : queue[i].op = "add" /\ queue[i].peer = p /\ (held => i # 1)

(* Once the calls are through, a listed peer is where it last announced     *)
(* itself to be, though tasks, the lock and handle_pong's old object stand  *)
(* between the announcement and the table.                                  *)
NewestWins ==
    \A p \in Peer : Listed(p) /\ ~Announced(p) => table[p].addr = heard[p].addr

(* The object that handle_pong passes to add_peer is the one in the table:  *)
(* a pong under way never brings a removed peer back.                       *)
PongFindsItsPeer ==
    \A i \in DOMAIN queue :
        queue[i].op = "update" => queue[i].entry = NoEntry /\ Listed(queue[i].peer)

(* The heartbeat removes no peer that answered a ping less than a time-out  *)
(* ago.                                                                     *)
AnsweringStays ==
    [][\A p \in Peer : Listed(p) /\ table'[p] = NoEntry /\ boots' = boots
                           => answered[p] = Rounds]_vars

(* A HELLO or handshake that arrived gets its peer listed at its address:   *)
(* the lock is always released and goes round.                              *)
HeardIsListed ==
    \A p \in Peer : \A a \in Addr :
        (/\ boots = MaxBoots
         /\ \E i \in DOMAIN ready : ready[i].peer = p /\ ready[i].entry.addr = a)
            ~> (Listed(p) /\ table[p].addr = a)
=============================================================================
