--------------------------- MODULE SwarmChat_proofs ---------------------------
(***************************************************************************)
(* Proofs about SwarmChat, for every swarm, every set of clients and every *)
(* limit of the set of seen ids: a node lets an id through twice, or a     *)
(* client is shown a message twice, only after the id was forgotten, and a *)
(* broadcast from whose list nobody was taken serves everyone who was on   *)
(* it.                                                                     *)
(***************************************************************************)
EXTENDS SwarmChat, FiniteSetTheorems, SequenceTheorems, WellFoundedInduction, TLAPS

(* A set of naturals has a least element. *)
LEMMA Least ==
    ASSUME NEW T \in SUBSET Nat, T # {}
    PROVE  \E x \in T : \A y \in T : x <= y
<1>1. \E x \in T : \A y \in T : ~ (<<y, x>> \in OpToRel(<, Nat))
  BY NatLessThanWellFounded, WFMin, Zenon
<1>2. ASSUME NEW x \in Nat, NEW y \in Nat, ~ (<<y, x>> \in OpToRel(<, Nat))
      PROVE  x <= y
  BY <1>2 DEF OpToRel
<1> QED BY <1>1, <1>2

-----------------------------------------------------------------------------
(* The list that is left when clients are taken off it. *)

(* How many of the first n elements stay: never more than n, and one more   *)
(* with each of them.                                                       *)
LEMMA KeptBound ==
    ASSUME NEW s, NEW gone, NEW n \in Nat
    PROVE  /\ IsFiniteSet(Kept(s, gone, n))
           /\ Cardinality(Kept(s, gone, n)) \in 0 .. n
<1>1. IsFiniteSet(1 .. n) /\ Cardinality(1 .. n) = n
  BY FS_Interval
<1>2. Kept(s, gone, n) \subseteq 1 .. n
  BY DEF Kept
<1>3. /\ IsFiniteSet(Kept(s, gone, n))
      /\ Cardinality(Kept(s, gone, n)) <= Cardinality(1 .. n)
  BY <1>1, <1>2, FS_Subset, Zenon
<1>4. Cardinality(Kept(s, gone, n)) \in Nat
  BY <1>3, FS_CardinalityType, Zenon
<1> QED BY <1>1, <1>3, <1>4

LEMMA KeptNext ==
    ASSUME NEW s, NEW gone, NEW n \in Nat
    PROVE  /\ s[n + 1] \in gone =>
                 Cardinality(Kept(s, gone, n + 1)) = Cardinality(Kept(s, gone, n))
           /\ s[n + 1] \notin gone =>
                 Cardinality(Kept(s, gone, n + 1)) = Cardinality(Kept(s, gone, n)) + 1
<1>1. CASE s[n + 1] \in gone
  <2>1. Kept(s, gone, n + 1) = Kept(s, gone, n)
    BY <1>1 DEF Kept
  <2> QED BY <1>1, <2>1, Zenon
<1>2. CASE s[n + 1] \notin gone
  <2>1. Kept(s, gone, n + 1) = Kept(s, gone, n) \cup {n + 1}
    BY <1>2 DEF Kept
  <2>2. n + 1 \notin Kept(s, gone, n)
    BY DEF Kept
  <2>3. Cardinality(Kept(s, gone, n) \cup {n + 1}) = Cardinality(Kept(s, gone, n)) + 1
    BY <2>2, KeptBound, FS_AddElement, Zenon
  <2> QED BY <1>2, <2>1, <2>3, Zenon
<1> QED BY <1>1, <1>2

(* Each place of the new list belongs to an element that stays: the least   *)
(* position up to which k elements stay.                                    *)
LEMMA Placed ==
    ASSUME NEW s, NEW gone, NEW n \in Nat,
           NEW k \in 1 .. Cardinality(Kept(s, gone, n))
    PROVE  \E i \in Kept(s, gone, n) : Cardinality(Kept(s, gone, i)) = k
<1> DEFINE T == {i \in 0 .. n : k <= Cardinality(Kept(s, gone, i))}
<1>1. PICK x \in T : \A y \in T : x <= y
  <2>1. n \in T /\ T \in SUBSET Nat
    OBVIOUS
  <2> QED BY <2>1, Least
<1>2. k \in Nat \ {0}
  <2>1. Cardinality(Kept(s, gone, n)) \in 0 .. n
    BY KeptBound, Zenon
  <2> QED BY <2>1
<1>3. x # 0
  <2>1. Cardinality(Kept(s, gone, 0)) \in 0 .. 0
    BY KeptBound
  <2> QED BY <1>1, <1>2, <2>1
<1>4. PICK y \in 0 .. n : y + 1 \in T /\ y \notin T
  <2>1. x - 1 \in 0 .. n /\ (x - 1) + 1 = x
    BY <1>1, <1>3
  <2>2. x - 1 \notin T
    BY <1>1, <1>3, <2>1
  <2> HIDE DEF T
  <2> QED BY <1>1, <2>1, <2>2
<1> HIDE DEF T
<1>5. /\ Cardinality(Kept(s, gone, y)) \in 0 .. y
      /\ s[y + 1] \in gone =>
            Cardinality(Kept(s, gone, y + 1)) = Cardinality(Kept(s, gone, y))
      /\ s[y + 1] \notin gone =>
            Cardinality(Kept(s, gone, y + 1)) = Cardinality(Kept(s, gone, y)) + 1
  <2>1. y \in Nat
    BY <1>4
  <2> QED BY <2>1, KeptBound, KeptNext, Zenon
<1>6. s[y + 1] \notin gone /\ Cardinality(Kept(s, gone, y + 1)) = k
  <2>1. Cardinality(Kept(s, gone, y)) < k
    BY <1>2, <1>4, <1>5 DEF T
  <2>2. k <= Cardinality(Kept(s, gone, y + 1))
    BY <1>4 DEF T
  <2> QED BY <1>2, <1>4, <1>5, <2>1, <2>2
<1>7. y + 1 \in Kept(s, gone, n)
  BY <1>4, <1>6 DEF T, Kept
<1> QED BY <1>6, <1>7

(* Where an element of the new list comes from. *)
From(s, gone, k) ==
    CHOOSE i \in Kept(s, gone, Len(s)) : Cardinality(Kept(s, gone, i)) = k

(* The new list is a list of the same clients; its elements come from       *)
(* different positions, none from before its own; and when nobody was taken *)
(* off, it is the old one.                                                  *)
LEMMA WithoutProperties ==
    ASSUME NEW s \in Seq(Client), NEW gone
    PROVE  /\ Without(s, gone) \in Seq(Client)
           /\ \A k \in 1 .. Len(Without(s, gone)) :
                 /\ From(s, gone, k) \in k .. Len(s)
                 /\ Without(s, gone)[k] = s[From(s, gone, k)]
           /\ \A k, j \in 1 .. Len(Without(s, gone)) :
                 From(s, gone, k) = From(s, gone, j) => k = j
           /\ Elements(s) \cap gone = {} => Without(s, gone) = s
<1> DEFINE N == Cardinality(Kept(s, gone, Len(s)))
<1>1. N \in Nat /\ Len(s) \in Nat
  <2>1. Len(s) \in Nat
    OBVIOUS
  <2>2. N \in 0 .. Len(s)
    BY <2>1, KeptBound, Zenon
  <2> QED BY <2>1, <2>2
<1>2. ASSUME NEW k \in 1 .. N
      PROVE  /\ From(s, gone, k) \in Kept(s, gone, Len(s))
             /\ Cardinality(Kept(s, gone, From(s, gone, k))) = k
  BY <1>1, Placed DEF From
<1>3. ASSUME NEW k \in 1 .. N
      PROVE  From(s, gone, k) \in k .. Len(s)
  <2>1. From(s, gone, k) \in 1 .. Len(s)
    BY <1>2 DEF Kept
  <2>2. Cardinality(Kept(s, gone, From(s, gone, k))) \in 0 .. From(s, gone, k)
    <3>1. From(s, gone, k) \in Nat
      BY <2>1
    <3> QED BY <3>1, KeptBound, Zenon
  <2> QED BY <1>1, <1>2, <2>1, <2>2
<1>4. Without(s, gone) = [k \in 1 .. N |-> s[From(s, gone, k)]]
  BY DEF Without, From
<1>5. \A k \in 1 .. N : s[From(s, gone, k)] \in Client
  BY <1>1, <1>3
<1> HIDE DEF N
<1>6. Without(s, gone) \in Seq(Client) /\ Len(Without(s, gone)) = N
  BY <1>1, <1>4, <1>5
<1>7. \A k, j \in 1 .. N : From(s, gone, k) = From(s, gone, j) => k = j
  BY <1>2, Zenon
<1>8. ASSUME Elements(s) \cap gone = {}
      PROVE  Without(s, gone) = s
  <2>1. ASSUME NEW n \in 0 .. Len(s) PROVE Cardinality(Kept(s, gone, n)) = n
    <3>1. Kept(s, gone, n) = 1 .. n
      BY <1>1, <1>8 DEF Kept, Elements
    <3> QED BY <3>1, FS_Interval
  <2>2. N = Len(s)
    BY <1>1, <2>1 DEF N
  <2>3. \A k \in 1 .. N : From(s, gone, k) = k
    BY <1>1, <1>2, <1>3, <2>1, <2>2
  <2> QED BY <1>4, <1>6, <2>2, <2>3, SeqEqual
<1> QED BY <1>3, <1>4, <1>6, <1>7, <1>8
-----------------------------------------------------------------------------
(* Type correctness. *)

LEMMA AtNode ==
    ASSUME NEW f \in Flow
    PROVE  At(f) \in Node
BY HomeAssumption, LinksAssumption DEF At, Flow

LEMMA OneMoreType ==
    ASSUME NEW k \in 0 .. 2
    PROVE  OneMore(k) \in 1 .. 2
BY DEF OneMore

(* One more for the message m at a. *)
LEMMA Counted ==
    ASSUME NEW S, NEW g \in [S -> [Msg -> 0 .. 2]], NEW a \in S, NEW m \in Msg
    PROVE  LET more == [g EXCEPT ![a][m] = OneMore(@)]
           IN  /\ more \in [S -> [Msg -> 0 .. 2]]
               /\ more[a][m] = OneMore(g[a][m]) /\ more[a][m] > 0
               /\ \A b \in S, k \in Msg : b # a \/ k # m => more[b][k] = g[b][k]
<1>1. g[a] \in [Msg -> 0 .. 2] /\ g[a][m] \in 0 .. 2
  OBVIOUS
<1>2. OneMore(g[a][m]) \in 0 .. 2 /\ OneMore(g[a][m]) > 0
  BY <1>1, OneMoreType
<1> DEFINE row == [g[a] EXCEPT ![m] = OneMore(g[a][m])]
<1>3. row \in [Msg -> 0 .. 2] /\ row[m] = OneMore(g[a][m])
  BY <1>1, <1>2
<1>4. \A k \in Msg : k # m => row[k] = g[a][k]
  BY <1>1
<1>5. [g EXCEPT ![a][m] = OneMore(@)] = [g EXCEPT ![a] = row]
  OBVIOUS
<1> HIDE DEF row
<1> QED BY <1>2, <1>3, <1>4, <1>5

(* A removal touches nothing of a coroutine but the mark that it happened.  *)
LEMMA ShiftedFields ==
    ASSUME TypeOK, NEW n \in Node, NEW gone, NEW f \in Flow
    PROVE  /\ Shifted(n, gone)[f] \in Carrying
           /\ Shifted(n, gone)[f].pc = flow[f].pc
           /\ Shifted(n, gone)[f].msg = flow[f].msg
           /\ Shifted(n, gone)[f].i = flow[f].i
           /\ Shifted(n, gone)[f].dead = flow[f].dead
           /\ Shifted(n, gone)[f].audience = flow[f].audience
<1>1. flow[f] \in Carrying
  BY DEF TypeOK
<1>2. \/ Shifted(n, gone)[f] = [flow[f] EXCEPT !.shifted = TRUE]
      \/ Shifted(n, gone)[f] = flow[f]
  BY DEF Shifted
<1> QED BY <1>1, <1>2 DEF Carrying

LEMMA ShiftedMark ==
    ASSUME TypeOK, NEW n \in Node, NEW gone, NEW f \in Flow, ~Shifted(n, gone)[f].shifted
    PROVE  /\ ~flow[f].shifted
           /\ At(f) = n /\ flow[f].pc = "show" => Elements(active[n]) \cap gone = {}
<1>1. flow[f] \in Carrying
  BY DEF TypeOK
<1>2. CASE At(f) = n /\ flow[f].pc = "show" /\ Elements(active[n]) \cap gone # {}
  <2>1. Shifted(n, gone)[f] = [flow[f] EXCEPT !.shifted = TRUE]
    BY <1>2 DEF Shifted
  <2>2. Shifted(n, gone)[f].shifted = TRUE
    BY <1>1, <2>1 DEF Carrying
  <2> QED BY <2>2
<1>3. CASE ~ (At(f) = n /\ flow[f].pc = "show" /\ Elements(active[n]) \cap gone # {})
  <2>1. Shifted(n, gone)[f] = flow[f]
    BY <1>3 DEF Shifted
  <2> QED BY <1>3, <2>1
<1> QED BY <1>2, <1>3

LEMMA ShiftedType ==
    ASSUME TypeOK, NEW n \in Node, NEW gone
    PROVE  Shifted(n, gone) \in [Flow -> Carrying]
<1>1. Shifted(n, gone) = [f \in Flow |-> Shifted(n, gone)[f]]
  BY DEF Shifted
<1> QED BY <1>1, ShiftedFields

LEMMA RestingType == Resting \in Carrying
BY MsgAssumption DEF Resting, Carrying, Msg

(* What becomes of a node that lets the message m through. *)
LEMMA EnterProperties ==
    ASSUME TypeOK, NEW f \in Flow, NEW m \in Msg, Enter(f, m)
    PROVE  /\ seen' \in [Node -> SUBSET Msg]
           /\ dropped' \in [Node -> SUBSET Msg]
           /\ taken' = [taken EXCEPT ![At(f)][m] = OneMore(@)]
           /\ taken' \in [Node -> [Msg -> 0 .. 2]]
           /\ flow' \in [Flow -> Carrying]
           /\ flow' = [flow EXCEPT ![f] = [pc |-> "show", msg |-> m, i |-> 1, dead |-> {},
                          left |-> {}, audience |-> Elements(active[At(f)]), shifted |-> FALSE]]
           /\ m \in seen'[At(f)] \cup dropped'[At(f)]
           /\ \A n \in Node : /\ dropped[n] \subseteq dropped'[n]
                              /\ seen[n] \cup dropped[n] \subseteq seen'[n] \cup dropped'[n]
<1> DEFINE n == At(f)
           more == seen[n] \cup {m}
<1>1. n \in Node
  BY AtNode
<1>2. PICK ids \in Remembered(n, m) :
        /\ seen' = [seen EXCEPT ![n] = ids]
        /\ dropped' = [dropped EXCEPT ![n] = @ \cup ((seen[n] \cup {m}) \ ids)]
  BY Zenon DEF Enter
<1>3. ids \subseteq more
  BY <1>2 DEF Remembered
<1>4. taken' = [taken EXCEPT ![n][m] = OneMore(@)]
  BY DEF Enter
<1>5. seen \in [Node -> SUBSET Msg] /\ dropped \in [Node -> SUBSET Msg]
      /\ taken \in [Node -> [Msg -> 0 .. 2]] /\ flow \in [Flow -> Carrying]
      /\ active \in [Node -> Seq(Client)]
  BY DEF TypeOK
<1>6. flow' = [flow EXCEPT ![f] = [pc |-> "show", msg |-> m, i |-> 1, dead |-> {},
                  left |-> {}, audience |-> Elements(active[n]), shifted |-> FALSE]]
  BY DEF Enter, Start
<1>7. Elements(active[n]) \subseteq Client
  BY <1>1, <1>5 DEF Elements
<1>8. [pc |-> "show", msg |-> m, i |-> 1, dead |-> {}, left |-> {},
       audience |-> Elements(active[n]), shifted |-> FALSE] \in Carrying
  BY <1>7 DEF Carrying
<1>9. flow' \in [Flow -> Carrying]
  BY <1>5, <1>6, <1>8
<1>10. taken' \in [Node -> [Msg -> 0 .. 2]]
  BY <1>1, <1>4, <1>5, Counted
<1> HIDE DEF n
<1>11. /\ seen' \in [Node -> SUBSET Msg]
       /\ dropped' \in [Node -> SUBSET Msg]
       /\ m \in seen'[n] \cup dropped'[n]
       /\ \A k \in Node : /\ dropped[k] \subseteq dropped'[k]
                          /\ seen[k] \cup dropped[k] \subseteq seen'[k] \cup dropped'[k]
  BY <1>1, <1>2, <1>3, <1>5
<1> QED BY <1>4, <1>6, <1>9, <1>10, <1>11 DEF n

LEMMA InitType == Init => TypeOK
<1> SUFFICES ASSUME Init PROVE TypeOK
  OBVIOUS
<1>1. flow \in [Flow -> Carrying]
  BY RestingType DEF Init
<1> QED BY <1>1, MsgAssumption DEF Init, TypeOK

LEMMA NextType == TypeOK /\ [Next]_vars => TypeOK'
<1> SUFFICES ASSUME TypeOK, [Next]_vars PROVE TypeOK'
  OBVIOUS
<1>0. /\ active \in [Node -> Seq(Client)]
      /\ client \in [Client -> {"new", "on", "gone", "left"}]
      /\ chan \in [Links -> Seq(Msg)]
      /\ flow \in [Flow -> Carrying]
      /\ shown \in [Client -> [Msg -> 0 .. 2]]
  BY DEF TypeOK
<1>1. ASSUME NEW c \in Client, Join(c) PROVE TypeOK'
  <2>1. Home[c] \in Node
    BY HomeAssumption
  <2>2. active' \in [Node -> Seq(Client)]
    BY <1>0, <1>1, <2>1 DEF Join
  <2> QED BY <1>1, <2>2 DEF Join, TypeOK, history
<1>2. ASSUME NEW c \in Client, Leave(c) PROVE TypeOK'
  BY <1>2 DEF Leave, TypeOK, history
<1>3. ASSUME NEW c \in Client, Disconnect(c) PROVE TypeOK'
  <2>1. Home[c] \in Node
    BY HomeAssumption
  <2>2. Without(active[Home[c]], {c}) \in Seq(Client)
    BY <1>0, <2>1, WithoutProperties
  <2>3. active' \in [Node -> Seq(Client)]
    BY <1>0, <1>3, <2>1, <2>2 DEF Disconnect
  <2>4. flow' \in [Flow -> Carrying]
    BY <1>3, <2>1, ShiftedType DEF Disconnect
  <2> QED BY <1>3, <2>3, <2>4 DEF Disconnect, TypeOK, history
<1>4. ASSUME NEW c \in Client, Post(c) PROVE TypeOK'
  <2>1. posted' \in Msg /\ posted' \in 0 .. MaxMsg
    BY <1>4, MsgAssumption DEF Post, TypeOK, Msg
  <2>2. c \in Flow /\ Enter(c, posted')
    BY <1>4 DEF Post, Flow
  <2>3. /\ seen' \in [Node -> SUBSET Msg] /\ dropped' \in [Node -> SUBSET Msg]
        /\ taken' \in [Node -> [Msg -> 0 .. 2]] /\ flow' \in [Flow -> Carrying]
    BY <2>1, <2>2, EnterProperties
  <2> QED BY <1>4, <2>1, <2>3 DEF Post, TypeOK
<1>5. ASSUME NEW l \in Links, Receive(l) PROVE TypeOK'
  <2>1. Head(chan[l]) \in Msg /\ Tail(chan[l]) \in Seq(Msg)
    BY <1>0, <1>5 DEF Receive
  <2>2. l \in Flow /\ Enter(l, Head(chan[l]))
    BY <1>5 DEF Receive, Flow
  <2>3. /\ seen' \in [Node -> SUBSET Msg] /\ dropped' \in [Node -> SUBSET Msg]
        /\ taken' \in [Node -> [Msg -> 0 .. 2]] /\ flow' \in [Flow -> Carrying]
    BY <2>1, <2>2, EnterProperties
  <2>4. chan' \in [Links -> Seq(Msg)]
    BY <1>0, <1>5, <2>1 DEF Receive
  <2> QED BY <1>5, <2>3, <2>4 DEF Receive, TypeOK
<1>6. ASSUME NEW l \in Links, Ignore(l) PROVE TypeOK'
  <2>1. Tail(chan[l]) \in Seq(Msg)
    BY <1>0, <1>6 DEF Ignore
  <2>2. chan' \in [Links -> Seq(Msg)]
    BY <1>0, <1>6, <2>1 DEF Ignore
  <2> QED BY <1>6, <2>2 DEF Ignore, TypeOK, history
<1>7. ASSUME NEW f \in Flow, Show(f) PROVE TypeOK'
  <2> DEFINE c == active[At(f)][flow[f].i]
             m == flow[f].msg
  <2>1. At(f) \in Node /\ flow[f] \in Carrying
    BY <1>0, AtNode
  <2>2. c \in Client /\ m \in Msg
    BY <1>0, <1>7, <2>1 DEF Show, AtElement, Carrying
  <2> HIDE DEF c, m
  <2>3. shown' = [shown EXCEPT ![c][m] = OneMore(@)] \/ shown' = shown
    BY <1>7 DEF Show, c, m
  <2>4. shown' \in [Client -> [Msg -> 0 .. 2]]
    <3>1. [shown EXCEPT ![c][m] = OneMore(@)] \in [Client -> [Msg -> 0 .. 2]]
      BY <1>0, <2>2, Counted
    <3> QED BY <1>0, <2>3, <3>1, Zenon
  <2>5. /\ [flow[f] EXCEPT !.i = @ + 1] \in Carrying
        /\ [flow[f] EXCEPT !.i = @ + 1, !.dead = @ \cup {c}] \in Carrying
    <3>1. flow[f].i + 1 \in Nat \ {0} /\ flow[f].dead \cup {c} \in SUBSET Client
      BY <2>1, <2>2 DEF Carrying
    <3> QED BY <2>1, <3>1 DEF Carrying
  <2>6. flow' \in [Flow -> Carrying]
    <3>1. \/ flow' = [flow EXCEPT ![f].i = @ + 1]
          \/ flow' = [flow EXCEPT ![f].i = @ + 1, ![f].dead = @ \cup {c}]
      BY <1>7 DEF Show, c
    <3> QED BY <1>0, <2>5, <3>1
  <2> QED BY <1>7, <2>4, <2>6 DEF Show, TypeOK
<1>8. ASSUME NEW f \in Flow, BeginFlood(f) PROVE TypeOK'
  <2> DEFINE n == At(f)
             gone == flow[f].dead
             peers == {m \in Node : <<n, m>> \in links}
  <2>1. n \in Node /\ flow[f] \in Carrying
    BY <1>0, AtNode
  <2>2. Without(active[n], gone) \in Seq(Client)
    BY <1>0, <2>1, WithoutProperties
  <2>3. active' \in [Node -> Seq(Client)]
    BY <1>0, <1>8, <2>1, <2>2 DEF BeginFlood
  <2>4. [flow[f] EXCEPT !.pc = "flood", !.left = peers] \in Carrying
    BY <2>1 DEF Carrying
  <2>5. Shifted(n, gone) \in [Flow -> Carrying]
    BY <2>1, ShiftedType
  <2>6. flow' = [Shifted(n, gone) EXCEPT ![f] =
                    [flow[f] EXCEPT !.pc = "flood", !.left = peers]]
    BY <1>8 DEF BeginFlood
  <2>7. flow' \in [Flow -> Carrying]
    BY <2>4, <2>5, <2>6
  <2> QED BY <1>8, <2>3, <2>7 DEF BeginFlood, TypeOK, history
<1>9. ASSUME NEW f \in Flow, NoPeers(f) PROVE TypeOK'
  BY <1>0, <1>9, RestingType DEF NoPeers, TypeOK, history
<1>10. ASSUME NEW f \in Flow, NEW m \in Node, Send(f, m) PROVE TypeOK'
  <2> DEFINE l == <<At(f), m>>
             left == flow[f].left \ {m}
  <2>1. flow[f] \in Carrying /\ flow[f].msg \in Msg
    BY <1>0 DEF Carrying
  <2>2. [flow[f] EXCEPT !.left = left] \in Carrying
    BY <2>1 DEF Carrying
  <2>3. flow' = [flow EXCEPT ![f] =
                    IF left = {} THEN Resting ELSE [flow[f] EXCEPT !.left = left]]
    BY <1>10 DEF Send
  <2>4. flow' \in [Flow -> Carrying]
    BY <1>0, <2>2, <2>3, RestingType
  <2>5. chan' = [chan EXCEPT ![l] = Append(@, flow[f].msg)] \/ chan' = chan
    BY <1>10 DEF Send
  <2>6. chan' \in [Links -> Seq(Msg)]
    <3>1. CASE chan' = [chan EXCEPT ![l] = Append(@, flow[f].msg)]
      <4>1. CASE l \in Links
        <5>1. Append(chan[l], flow[f].msg) \in Seq(Msg)
          BY <1>0, <2>1, <4>1
        <5> HIDE DEF l
        <5> QED BY <1>0, <3>1, <5>1
      <4>2. CASE l \notin Links
        <5> HIDE DEF l
        <5> QED BY <1>0, <3>1, <4>2
      <4> QED BY <4>1, <4>2
    <3> QED BY <1>0, <2>5, <3>1
  <2> QED BY <1>10, <2>4, <2>6 DEF Send, TypeOK, history
<1>11. CASE UNCHANGED vars
  BY <1>11 DEF vars, history, TypeOK
<1> QED
  BY <1>1, <1>2, <1>3, <1>4, <1>5, <1>6, <1>7, <1>8, <1>9, <1>10, <1>11 DEF Next, Step

(* Every variable keeps its type; the list of a node stays a list of        *)
(* clients when several of them are taken off it at once.                   *)
THEOREM TypeCorrect == Spec => []TypeOK
BY InitType, NextType, PTL DEF Spec
-----------------------------------------------------------------------------
(* No message twice. *)

(* The parts of TypeOK that the steps below use. *)
LEMMA Types ==
    ASSUME TypeOK
    PROVE  /\ chan \in [Links -> Seq(Msg)]
           /\ active \in [Node -> Seq(Client)]
           /\ taken \in [Node -> [Msg -> 0 .. 2]]
           /\ shown \in [Client -> [Msg -> 0 .. 2]]
           /\ flow \in [Flow -> Carrying]
           /\ \A f \in Flow : flow[f].msg \in Msg /\ flow[f].i \in Nat \ {0}
           /\ \A n \in Node : /\ Len(active[n]) \in Nat
                              /\ \A i \in 1 .. Len(active[n]) : active[n][i] \in Client
BY DEF TypeOK, Carrying

(* Taking clients off a list leaves it without duplicates, and moves nobody *)
(* to whom a broadcast has already come to where it has still to come.      *)
LEMMA RemovalKeeps ==
    ASSUME TypeOK, ListedOnce, NotYetShown,
           NEW n \in Node, NEW gone, active' = [active EXCEPT ![n] = Without(@, gone)],
           \A c \in Client : client[c] # "new" => client'[c] # "new",
           shown' = shown, dropped' = dropped,
           \A f \in Flow : flow'[f].pc = "show" =>
               flow[f].pc = "show" /\ flow'[f].msg = flow[f].msg /\ flow'[f].i = flow[f].i
    PROVE  ListedOnce' /\ NotYetShown'
<1> USE Types
<1> DEFINE s == active[n]
           t == Without(s, gone)
<1>1. s \in Seq(Client) /\ Len(s) \in Nat
  OBVIOUS
<1>2. /\ t \in Seq(Client)
      /\ \A k \in 1 .. Len(t) : From(s, gone, k) \in k .. Len(s) /\ t[k] = s[From(s, gone, k)]
      /\ \A k, j \in 1 .. Len(t) : From(s, gone, k) = From(s, gone, j) => k = j
  BY <1>1, WithoutProperties
<1>3. active'[n] = t /\ \A k \in Node : k # n => active'[k] = active[k]
  OBVIOUS
<1> HIDE DEF t
<1>4. Len(t) \in Nat
  BY <1>2
<1>5. ASSUME NEW k \in 1 .. Len(t)
      PROVE  From(s, gone, k) \in 1 .. Len(s) /\ t[k] = s[From(s, gone, k)]
  BY <1>1, <1>2, <1>4
<1>6. ListedOnce'
  <2> SUFFICES ASSUME NEW k \in Node, NEW i \in 1 .. Len(active'[k])
               PROVE  /\ Home[active'[k][i]] = k /\ client'[active'[k][i]] # "new"
                      /\ \A j \in 1 .. Len(active'[k]) : active'[k][i] = active'[k][j] => i = j
    BY DEF ListedOnce
  <2>1. CASE k = n
    <3>1. i \in 1 .. Len(t) /\ active'[k] = t
      BY <1>3, <2>1
    <3>2. Home[t[i]] = n /\ client[t[i]] # "new" /\ t[i] \in Client
      BY <1>1, <1>5, <3>1 DEF ListedOnce
    <3>3. ASSUME NEW j \in 1 .. Len(t), t[i] = t[j] PROVE i = j
      <4>1. /\ From(s, gone, i) \in 1 .. Len(s) /\ From(s, gone, j) \in 1 .. Len(s)
            /\ s[From(s, gone, i)] = s[From(s, gone, j)]
        BY <1>5, <3>1, <3>3
      <4>2. From(s, gone, i) = From(s, gone, j)
        BY <4>1, Zenon DEF ListedOnce
      <4> QED BY <1>2, <3>1, <4>2
    <3> QED BY <2>1, <3>1, <3>2, <3>3
  <2>2. CASE k # n
    <3>1. active'[k] = active[k] /\ i \in 1 .. Len(active[k])
      BY <1>3, <2>2
    <3>2. active[k][i] \in Client
      BY <3>1
    <3>3. /\ Home[active[k][i]] = k /\ client[active[k][i]] # "new"
          /\ \A j \in 1 .. Len(active[k]) : active[k][i] = active[k][j] => i = j
      BY <3>1, Zenon DEF ListedOnce
    <3> QED BY <3>1, <3>2, <3>3
  <2> QED BY <2>1, <2>2
<1>7. NotYetShown'
  <2> SUFFICES ASSUME NEW f \in Flow, flow'[f].pc = "show",
                      flow'[f].msg \notin dropped'[At(f)],
                      NEW j \in flow'[f].i .. Len(active'[At(f)])
               PROVE  shown'[active'[At(f)][j]][flow'[f].msg] = 0
    BY DEF NotYetShown
  <2>1. /\ flow[f].pc = "show" /\ flow'[f].msg = flow[f].msg /\ flow'[f].i = flow[f].i
        /\ flow[f].msg \notin dropped[At(f)] /\ At(f) \in Node
    BY AtNode
  <2>2. CASE At(f) = n
    <3>1. j \in flow[f].i .. Len(t) /\ active'[At(f)] = t
      BY <1>3, <2>1, <2>2
    <3>2. j \in 1 .. Len(t)
      BY <1>4, <3>1
    <3>3. From(s, gone, j) \in j .. Len(s) /\ t[j] = s[From(s, gone, j)]
      BY <1>2, <3>2
    <3>4. From(s, gone, j) \in flow[f].i .. Len(s)
      BY <1>1, <1>4, <3>1, <3>3
    <3>5. shown[s[From(s, gone, j)]][flow[f].msg] = 0
      BY <2>1, <2>2, <3>4 DEF NotYetShown
    <3> QED BY <2>1, <3>1, <3>3, <3>5
  <2>3. CASE At(f) # n
    BY <1>3, <2>1, <2>3 DEF NotYetShown
  <2> QED BY <2>2, <2>3
<1> QED BY <1>6, <1>7

(* A coroutine lets the message m through, which its node has not seen or   *)
(* has forgotten: nobody else carries it there, and no client of the node   *)
(* was shown it, unless it was forgotten.                                   *)
LEMMA EnterKeeps ==
    ASSUME TypeOK, PassInv, NEW f \in Flow, NEW m \in Msg, Enter(f, m), ~Busy(f),
           taken[At(f)][m] > 0 => m \in dropped[At(f)],
           posted' \in Nat, posted <= posted', m <= posted',
           \A l \in Links : \A i \in 1 .. Len(chan'[l]) : chan'[l][i] <= posted',
           active' = active, client' = client, shown' = shown
    PROVE  PassInv'
<1> USE Types
<1> DEFINE n == At(f)
<1>1. n \in Node
  BY AtNode
<1>2. /\ m \in seen'[n] \cup dropped'[n]
      /\ \A k \in Node : /\ dropped[k] \subseteq dropped'[k]
                         /\ seen[k] \cup dropped[k] \subseteq seen'[k] \cup dropped'[k]
  BY EnterProperties
<1>3. /\ taken'[n][m] = OneMore(taken[n][m]) /\ taken'[n][m] > 0
      /\ \A k \in Node, q \in Msg : k # n \/ q # m => taken'[k][q] = taken[k][q]
  <2>1. taken' = [taken EXCEPT ![n][m] = OneMore(@)]
    BY EnterProperties
  <2> DEFINE more == [taken EXCEPT ![n][m] = OneMore(@)]
  <2>2. /\ more[n][m] = OneMore(taken[n][m]) /\ more[n][m] > 0
        /\ \A k \in Node, q \in Msg : k # n \/ q # m => more[k][q] = taken[k][q]
    BY <1>1, Counted
  <2> QED BY <2>1, <2>2, Zenon
<1>4. /\ flow'[f].pc = "show" /\ flow'[f].msg = m
      /\ \A g \in Flow : g # f => flow'[g] = flow[g]
  BY EnterProperties
<1>5. ASSUME NEW k \in Node, NEW q \in Msg, taken[k][q] > 0 PROVE taken'[k][q] > 0
  BY <1>1, <1>3, <1>5
<1>6. posted \in Nat
  BY DEF TypeOK
<1> HIDE DEF n
<1>7. Entered'
  <2>1. ASSUME NEW k \in Node, NEW q \in Msg, taken'[k][q] > 0
        PROVE  q <= posted' /\ q \in seen'[k] \cup dropped'[k]
    <3>1. CASE k = n /\ q = m
      BY <1>2, <3>1
    <3>2. CASE k # n \/ q # m
      <4>1. q <= posted /\ q \in seen[k] \cup dropped[k]
        BY <1>3, <2>1, <3>2 DEF PassInv, Entered
      <4>2. q \in Nat
        BY DEF Msg
      <4> QED BY <1>2, <1>6, <4>1, <4>2
    <3> QED BY <3>1, <3>2
  <2>2. ASSUME NEW g \in Flow, flow'[g].pc # "idle" PROVE taken'[At(g)][flow'[g].msg] > 0
    <3>1. CASE g = f
      BY <1>3, <1>4, <3>1 DEF n
    <3>2. CASE g # f
      <4>1. taken[At(g)][flow[g].msg] > 0 /\ At(g) \in Node
        BY <1>4, <2>2, <3>2, AtNode DEF PassInv, Entered, Busy
      <4> QED BY <1>4, <1>5, <3>2, <4>1
    <3> QED BY <3>1, <3>2
  <2> QED BY <2>1, <2>2 DEF Entered, Busy
<1>8. ASSUME NEW g \in Flow, g # f, Busy(g), At(g) = n, flow[g].msg = m
      PROVE  m \in dropped[n]
  BY <1>8 DEF PassInv, Entered, n
<1>9. OneCarrier'
  <2> SUFFICES ASSUME NEW g \in Flow, NEW h \in Flow, g # h, At(g) = At(h),
                      flow'[g].pc # "idle", flow'[h].pc # "idle", flow'[g].msg = flow'[h].msg
               PROVE  flow'[g].msg \in dropped'[At(g)]
    BY DEF OneCarrier, Busy
  <2>1. CASE g # f /\ h # f
    <3>1. flow[g].msg \in dropped[At(g)] /\ At(g) \in Node
      BY <1>4, <2>1, AtNode DEF PassInv, OneCarrier, Busy
    <3> QED BY <1>2, <1>4, <2>1, <3>1
  <2>2. CASE g = f
    BY <1>1, <1>2, <1>4, <1>8, <2>2 DEF Busy, n
  <2>3. CASE h = f
    BY <1>1, <1>2, <1>4, <1>8, <2>3 DEF Busy, n
  <2> QED BY <2>1, <2>2, <2>3
<1>10. ListedOnce'
  BY DEF PassInv, ListedOnce
<1>11. ShownAfter'
  BY <1>5, HomeAssumption DEF PassInv, ShownAfter
<1>12. NotYetShown'
  <2> SUFFICES ASSUME NEW g \in Flow, flow'[g].pc = "show",
                      flow'[g].msg \notin dropped'[At(g)],
                      NEW j \in flow'[g].i .. Len(active[At(g)])
               PROVE  shown[active[At(g)][j]][flow'[g].msg] = 0
    BY DEF NotYetShown
  <2>1. CASE g # f
    <3>1. flow'[g] = flow[g] /\ At(g) \in Node
      BY <1>4, <2>1, AtNode
    <3>2. flow[g].msg \notin dropped[At(g)]
      BY <1>2, <3>1
    <3> QED BY <3>1, <3>2 DEF PassInv, NotYetShown
  <2>2. CASE g = f
    <3>1. m \notin dropped[n] /\ flow'[g].msg = m /\ At(g) = n /\ flow'[g].i = 1
      BY <1>1, <1>2, <1>4, <2>2, EnterProperties DEF n
    <3>2. ~ (taken[n][m] > 0)
      BY <3>1 DEF n
    <3>3. j \in 1 .. Len(active[n])
      BY <3>1
    <3>4. active[n][j] \in Client /\ Home[active[n][j]] = n
      BY <1>1, <3>3 DEF PassInv, ListedOnce
    <3>5. ~ (shown[active[n][j]][m] > 0)
      BY <3>2, <3>4 DEF PassInv, ShownAfter
    <3>6. shown[active[n][j]][m] \in 0 .. 2
      BY <3>4
    <3> QED BY <3>1, <3>5, <3>6
  <2> QED BY <2>1, <2>2
<1>13. ShownOnce'
  <2>1. ASSUME NEW q \in Msg, NEW k \in Node, taken'[k][q] = 2 PROVE q \in dropped'[k]
    <3>1. CASE k = n /\ q = m
      <4>1. taken[n][m] \in 0 .. 2 /\ taken[n][m] # 0
        BY <1>1, <1>3, <2>1, <3>1 DEF OneMore
      <4> QED BY <1>1, <1>2, <3>1, <4>1 DEF n
    <3>2. CASE k # n \/ q # m
      BY <1>2, <1>3, <2>1, <3>2 DEF PassInv, ShownOnce
    <3> QED BY <3>1, <3>2
  <2>2. ASSUME NEW q \in Msg, NEW c \in Client, shown[c][q] = 2 PROVE q \in dropped'[Home[c]]
    BY <1>2, <2>2, HomeAssumption DEF PassInv, ShownOnce
  <2> QED BY <2>1, <2>2 DEF ShownOnce
<1> QED BY <1>7, <1>9, <1>10, <1>11, <1>12, <1>13 DEF PassInv
(* Reading from a link, and a step in which no coroutine takes up a         *)
(* message.                                                                 *)
LEMMA ReadKeeps ==
    ASSUME TypeOK, Entered, NEW l \in Links, chan[l] # <<>>,
           chan' = [chan EXCEPT ![l] = Tail(@)]
    PROVE  \A k \in Links : \A i \in 1 .. Len(chan'[k]) : chan'[k][i] <= posted
<1> SUFFICES ASSUME NEW k \in Links, NEW i \in 1 .. Len(chan'[k])
             PROVE  chan'[k][i] <= posted
  OBVIOUS
<1>0. chan \in [Links -> Seq(Msg)]
  BY Types
<1>1. CASE k = l
  <2> DEFINE s == chan[l]
  <2>1. s \in Seq(Msg) /\ s # <<>> /\ chan'[k] = Tail(s)
    BY <1>0, <1>1
  <2> HIDE DEF s
  <2>2. /\ Len(s) \in Nat /\ Len(Tail(s)) = Len(s) - 1
        /\ \A j \in 1 .. Len(Tail(s)) : Tail(s)[j] = s[j + 1]
    BY <2>1, HeadTailProperties
  <2>3. i \in 1 .. Len(Tail(s)) /\ i + 1 \in 1 .. Len(s)
    BY <2>1, <2>2
  <2>4. s[i + 1] <= posted
    BY <2>3 DEF Entered, s
  <2> QED BY <2>1, <2>2, <2>3, <2>4
<1>2. CASE k # l
  BY <1>0, <1>2 DEF Entered
<1> QED BY <1>1, <1>2

LEMMA CarryKeeps ==
    ASSUME Entered, OneCarrier, UNCHANGED <<seen, posted, taken, dropped>>,
           \A l \in Links : \A i \in 1 .. Len(chan'[l]) : chan'[l][i] <= posted,
           \A f \in Flow : flow'[f].pc # "idle" =>
               flow[f].pc # "idle" /\ flow'[f].msg = flow[f].msg
    PROVE  Entered' /\ OneCarrier'
<1>1. Entered'
  BY DEF Entered, Busy
<1>2. OneCarrier'
  BY DEF OneCarrier, Busy
<1> QED BY <1>1, <1>2

LEMMA InitPass == Init => PassInv
<1> SUFFICES ASSUME Init PROVE PassInv
  OBVIOUS
<1>1. \A f \in Flow : flow[f].pc = "idle"
  BY DEF Init, Resting
<1>2. /\ \A n \in Node, m \in Msg : taken[n][m] = 0
      /\ \A c \in Client, m \in Msg : shown[c][m] = 0
      /\ \A l \in Links : Len(chan[l]) = 0
      /\ \A n \in Node : Len(active[n]) = 0
  BY DEF Init
<1> QED
  BY <1>1, <1>2, HomeAssumption
  DEF PassInv, Entered, OneCarrier, ListedOnce, ShownAfter, NotYetShown, ShownOnce, Busy

LEMMA NextPass == TypeOK /\ PassInv /\ [Next]_vars => PassInv'
<1> SUFFICES ASSUME TypeOK, PassInv, [Next]_vars PROVE PassInv'
  OBVIOUS
<1> USE Types
<1>0. Entered /\ OneCarrier /\ ListedOnce /\ ShownAfter /\ NotYetShown /\ ShownOnce
  BY DEF PassInv
<1>1. ASSUME NEW c \in Client, Join(c) PROVE PassInv'
  <2> DEFINE n == Home[c]
             s == active[n]
  <2>1. /\ client[c] = "new" /\ n \in Node /\ s \in Seq(Client)
        /\ UNCHANGED <<chan, seen, flow, posted, taken, dropped, shown>>
    BY <1>1, HomeAssumption DEF Join, history
  <2>2. \A k \in Client : k # c => client'[k] = client[k]
    BY <1>1 DEF Join
  <2>3. client'[c] # "new"
    BY <1>1 DEF Join, TypeOK
  <2>4. active'[n] = Append(s, c) /\ \A k \in Node : k # n => active'[k] = active[k]
    BY <1>1, <2>1 DEF Join
  <2>5. /\ Len(active'[n]) = Len(s) + 1 /\ active'[n][Len(s) + 1] = c
        /\ \A i \in 1 .. Len(s) : active'[n][i] = s[i]
    BY <2>1, <2>4
  <2>6. Len(s) \in Nat
    BY <2>1
  <2>7. \A i \in 1 .. Len(s) : s[i] # c /\ Home[s[i]] = n /\ client[s[i]] # "new" /\ s[i] \in Client
    BY <1>0, <2>1 DEF ListedOnce
  <2>8. \A i, j \in 1 .. Len(s) : s[i] = s[j] => i = j
    BY <1>0, <2>1, Zenon DEF ListedOnce
  <2> HIDE DEF n, s
  <2>9. ListedOnce'
    <3> SUFFICES ASSUME NEW k \in Node, NEW i \in 1 .. Len(active'[k])
                 PROVE  /\ Home[active'[k][i]] = k /\ client'[active'[k][i]] # "new"
                        /\ \A j \in 1 .. Len(active'[k]) : active'[k][i] = active'[k][j] => i = j
      BY DEF ListedOnce
    <3>1. CASE k = n
      <4>1. i \in 1 .. Len(s) \/ i = Len(s) + 1
        BY <2>5, <2>6, <3>1
      <4>2. \A j \in 1 .. Len(active'[k]) : j \in 1 .. Len(s) \/ j = Len(s) + 1
        BY <2>5, <2>6, <3>1
      <4>3. Home[active'[k][i]] = k /\ client'[active'[k][i]] # "new"
        BY <2>2, <2>3, <2>5, <2>7, <3>1, <4>1 DEF n
      <4>4. ASSUME NEW j \in 1 .. Len(active'[k]), active'[k][i] = active'[k][j] PROVE i = j
        BY <2>5, <2>7, <2>8, <3>1, <4>1, <4>2, <4>4
      <4> QED BY <4>3, <4>4
    <3>2. CASE k # n
      <4>1. active'[k] = active[k] /\ i \in 1 .. Len(active[k]) /\ active[k][i] \in Client
        BY <2>4, <3>2
      <4>2. /\ Home[active[k][i]] = k /\ client[active[k][i]] # "new"
            /\ \A j \in 1 .. Len(active[k]) : active[k][i] = active[k][j] => i = j
        BY <1>0, <4>1, Zenon DEF ListedOnce
      <4> QED BY <2>2, <2>3, <4>1, <4>2
    <3> QED BY <3>1, <3>2
  <2>10. ShownAfter'
    <3> SUFFICES ASSUME NEW k \in Client, NEW m \in Msg, shown[k][m] > 0
                 PROVE  taken[Home[k]][m] > 0 /\ client'[k] # "new"
      BY <2>1 DEF ShownAfter
    <3>1. taken[Home[k]][m] > 0 /\ client[k] # "new"
      BY <1>0 DEF ShownAfter
    <3> QED BY <2>2, <2>3, <3>1
  <2>11. NotYetShown'
    <3> SUFFICES ASSUME NEW f \in Flow, flow[f].pc = "show", flow[f].msg \notin dropped[At(f)],
                        NEW j \in flow[f].i .. Len(active'[At(f)])
                 PROVE  shown[active'[At(f)][j]][flow[f].msg] = 0
      BY <2>1 DEF NotYetShown
    <3>1. CASE At(f) = n /\ j = Len(s) + 1
      <4>1. active'[At(f)][j] = c
        BY <2>5, <3>1
      <4>2. ~ (shown[c][flow[f].msg] > 0) /\ shown[c][flow[f].msg] \in 0 .. 2
        BY <1>0, <2>1 DEF ShownAfter
      <4> QED BY <4>1, <4>2
    <3>2. CASE At(f) = n /\ j # Len(s) + 1
      <4>1. j \in flow[f].i .. Len(s) /\ j \in 1 .. Len(s)
        BY <2>5, <2>6, <3>2
      <4>2. shown[active[At(f)][j]][flow[f].msg] = 0
        BY <1>0, <3>2, <4>1 DEF NotYetShown, s
      <4> QED BY <2>5, <3>2, <4>1, <4>2 DEF s
    <3>3. CASE At(f) # n
      BY <1>0, <2>4, <3>3, AtNode DEF NotYetShown
    <3> QED BY <3>1, <3>2, <3>3
  <2> QED BY <1>0, <2>1, <2>9, <2>10, <2>11 DEF PassInv, Entered, OneCarrier, ShownOnce, Busy
<1>2. ASSUME NEW c \in Client, Leave(c) PROVE PassInv'
  <2>1. /\ \A k \in Client : client'[k] = "new" => client[k] = "new"
        /\ UNCHANGED <<chan, seen, active, flow, posted, taken, dropped, shown>>
    BY <1>2 DEF Leave, history, TypeOK
  <2>2. ListedOnce'
    <3> SUFFICES ASSUME NEW n \in Node, NEW i \in 1 .. Len(active[n])
                 PROVE  /\ Home[active[n][i]] = n /\ client'[active[n][i]] # "new"
                        /\ \A j \in 1 .. Len(active[n]) : active[n][i] = active[n][j] => i = j
      BY <2>1 DEF ListedOnce
    <3>1. /\ Home[active[n][i]] = n /\ client[active[n][i]] # "new"
          /\ \A j \in 1 .. Len(active[n]) : active[n][i] = active[n][j] => i = j
      BY <1>0, Zenon DEF ListedOnce
    <3>2. active[n][i] \in Client
      OBVIOUS
    <3> QED BY <2>1, <3>1, <3>2
  <2>3. ShownAfter'
    BY <1>0, <2>1 DEF ShownAfter
  <2> QED BY <1>0, <2>1, <2>2, <2>3 DEF PassInv, Entered, OneCarrier, NotYetShown, ShownOnce, Busy
<1>3. ASSUME NEW c \in Client, Disconnect(c) PROVE PassInv'
  <2>1. Home[c] \in Node
    BY HomeAssumption
  <2>2. /\ \A k \in Client : client[k] # "new" => client'[k] # "new"
        /\ active' = [active EXCEPT ![Home[c]] = Without(@, {c})]
        /\ flow' = Shifted(Home[c], {c})
        /\ UNCHANGED <<chan, seen, posted, taken, dropped, shown>>
    BY <1>3 DEF Disconnect, history, TypeOK
  <2>3. \A f \in Flow : flow'[f].pc = flow[f].pc /\ flow'[f].msg = flow[f].msg
                        /\ flow'[f].i = flow[f].i
    <3> TAKE f \in Flow
    <3>1. /\ Shifted(Home[c], {c})[f].pc = flow[f].pc
          /\ Shifted(Home[c], {c})[f].msg = flow[f].msg
          /\ Shifted(Home[c], {c})[f].i = flow[f].i
      BY <2>1, ShiftedFields
    <3> QED BY <2>2, <3>1, Zenon
  <2>4. ListedOnce' /\ NotYetShown'
    BY <1>0, <2>1, <2>2, <2>3, RemovalKeeps
  <2>5. Entered' /\ OneCarrier'
    <3>1. \A l \in Links : \A i \in 1 .. Len(chan'[l]) : chan'[l][i] <= posted
      BY <1>0, <2>2 DEF Entered
    <3> QED BY <1>0, <2>2, <2>3, <3>1, CarryKeeps
  <2>6. ShownAfter'
    BY <1>0, <2>2 DEF ShownAfter
  <2> QED BY <1>0, <2>2, <2>4, <2>5, <2>6 DEF PassInv, ShownOnce
<1>4. ASSUME NEW c \in Client, Post(c) PROVE PassInv'
  <2>1. /\ posted' \in Msg /\ posted' = posted + 1 /\ posted \in Nat
        /\ UNCHANGED <<chan, active, client, shown>>
    BY <1>4, MsgAssumption DEF Post, TypeOK, Msg
  <2>2. c \in Flow /\ Enter(c, posted') /\ ~Busy(c) /\ At(c) \in Node
    BY <1>4, AtNode DEF Post, Flow, Busy
  <2>3. ~ (taken[At(c)][posted'] > 0)
    BY <1>0, <2>1, <2>2 DEF Entered
  <2>4. ASSUME NEW l \in Links, NEW i \in 1 .. Len(chan'[l]) PROVE chan'[l][i] <= posted'
    <3>1. chan'[l] = chan[l] /\ chan[l][i] <= posted /\ chan[l][i] \in Msg
      BY <1>0, <2>1 DEF Entered
    <3> QED BY <2>1, <3>1 DEF Msg
  <2>5. posted' \in Nat /\ posted <= posted' /\ posted' <= posted'
    BY <2>1
  <2> HIDE DEF PassInv
  <2> QED BY <2>1, <2>2, <2>3, <2>4, <2>5, EnterKeeps
<1>5. ASSUME NEW l \in Links, Receive(l) PROVE PassInv'
  <2> DEFINE m == Head(chan[l])
  <2>1. /\ UNCHANGED <<active, client, posted, shown>> /\ chan' = [chan EXCEPT ![l] = Tail(@)]
        /\ chan[l] # <<>> /\ m \notin seen[l[2]]
    BY <1>5 DEF Receive
  <2>2. l \in Flow /\ Enter(l, m) /\ ~Busy(l) /\ At(l) \in Node /\ At(l) = l[2]
    BY <1>5, AtNode, LinksAssumption DEF Receive, Flow, Busy, At
  <2>3. m \in Msg /\ m <= posted /\ posted \in Nat
    <3>1. chan[l] \in Seq(Msg) /\ Len(chan[l]) > 0 /\ m = chan[l][1]
      BY <2>1
    <3>2. m \in Msg /\ posted \in Nat
      BY <3>1 DEF TypeOK
    <3>3. 1 \in 1 .. Len(chan[l])
      BY <3>1
    <3> QED BY <1>0, <3>1, <3>2, <3>3 DEF Entered
  <2>4. taken[At(l)][m] > 0 => m \in dropped[At(l)]
    BY <1>0, <2>1, <2>2, <2>3 DEF Entered
  <2>5. \A k \in Links : \A i \in 1 .. Len(chan'[k]) : chan'[k][i] <= posted'
    BY <1>0, <2>1, ReadKeeps
  <2> HIDE DEF m
  <2>6. posted' \in Nat /\ posted <= posted' /\ m <= posted'
    BY <2>1, <2>3
  <2> QED BY <2>1, <2>2, <2>3, <2>4, <2>5, <2>6, EnterKeeps
<1>6. ASSUME NEW l \in Links, Ignore(l) PROVE PassInv'
  <2>1. /\ UNCHANGED <<seen, active, client, flow, posted, taken, dropped, shown>>
        /\ chan' = [chan EXCEPT ![l] = Tail(@)] /\ chan[l] # <<>>
    BY <1>6 DEF Ignore, history
  <2>2. \A k \in Links : \A i \in 1 .. Len(chan'[k]) : chan'[k][i] <= posted
    BY <1>0, <2>1, ReadKeeps
  <2>3. Entered' /\ OneCarrier'
    BY <1>0, <2>1, <2>2, CarryKeeps
  <2> QED BY <1>0, <2>1, <2>3 DEF PassInv, ListedOnce, ShownAfter, NotYetShown, ShownOnce
<1>7. ASSUME NEW f \in Flow, Show(f) PROVE PassInv'
  <2> DEFINE n == At(f)
             c == active[n][flow[f].i]
             m == flow[f].msg
  <2>1. /\ n \in Node /\ flow[f].pc = "show" /\ flow[f].i \in 1 .. Len(active[n]) /\ m \in Msg
        /\ UNCHANGED <<chan, seen, active, client, posted, taken, dropped>>
    BY <1>7, AtNode DEF Show, AtElement
  <2>2. c \in Client /\ Home[c] = n /\ client[c] # "new"
    BY <1>0, <2>1 DEF ListedOnce
  <2>3. taken[n][m] > 0
    BY <1>0, <2>1 DEF Entered, Busy
  <2>4. /\ \A g \in Flow : flow'[g].pc = flow[g].pc /\ flow'[g].msg = flow[g].msg
        /\ \A g \in Flow : g # f => flow'[g].i = flow[g].i
        /\ flow'[f].i = flow[f].i + 1
    <3>1. \/ flow' = [flow EXCEPT ![f].i = @ + 1]
          \/ flow' = [flow EXCEPT ![f].i = @ + 1, ![f].dead = @ \cup {c}]
      BY <1>7 DEF Show
    <3>2. flow[f] \in Carrying
      OBVIOUS
    <3>3. flow'[f].pc = flow[f].pc /\ flow'[f].msg = flow[f].msg /\ flow'[f].i = flow[f].i + 1
      <4>1. /\ [flow[f] EXCEPT !.i = @ + 1].pc = flow[f].pc
            /\ [flow[f] EXCEPT !.i = @ + 1].msg = flow[f].msg
            /\ [flow[f] EXCEPT !.i = @ + 1].i = flow[f].i + 1
        BY <3>2 DEF Carrying
      <4>2. /\ [flow[f] EXCEPT !.i = @ + 1, !.dead = @ \cup {c}].pc = flow[f].pc
            /\ [flow[f] EXCEPT !.i = @ + 1, !.dead = @ \cup {c}].msg = flow[f].msg
            /\ [flow[f] EXCEPT !.i = @ + 1, !.dead = @ \cup {c}].i = flow[f].i + 1
        BY <3>2 DEF Carrying
      <4>3. \/ flow'[f] = [flow[f] EXCEPT !.i = @ + 1]
            \/ flow'[f] = [flow[f] EXCEPT !.i = @ + 1, !.dead = @ \cup {c}]
        BY <3>1
      <4> QED BY <4>1, <4>2, <4>3
    <3>4. \A g \in Flow : g # f => flow'[g] = flow[g]
      BY <3>1
    <3> QED BY <3>3, <3>4, Zenon
  <2>5. shown' = [shown EXCEPT ![c][m] = OneMore(@)] \/ shown' = shown
    BY <1>7 DEF Show
  <2> HIDE DEF c, m, n
  <2>6. /\ \A b \in Client, k \in Msg : b # c \/ k # m => shown'[b][k] = shown[b][k]
        /\ shown'[c][m] = OneMore(shown[c][m]) \/ shown'[c][m] = shown[c][m]
    <3> DEFINE more == [shown EXCEPT ![c][m] = OneMore(@)]
    <3>1. /\ \A b \in Client, k \in Msg : b # c \/ k # m => more[b][k] = shown[b][k]
          /\ more[c][m] = OneMore(shown[c][m])
      BY <2>1, <2>2, Counted
    <3> HIDE DEF more
    <3>2. shown' = more \/ shown' = shown
      BY <2>5 DEF more
    <3> QED BY <3>1, <3>2
  <2>7. Entered' /\ OneCarrier' /\ ListedOnce'
    <3>1. \A l \in Links : \A i \in 1 .. Len(chan'[l]) : chan'[l][i] <= posted
      BY <1>0, <2>1 DEF Entered
    <3>2. Entered' /\ OneCarrier'
      BY <1>0, <2>1, <2>4, <3>1, CarryKeeps
    <3>3. ListedOnce'
      BY <1>0, <2>1 DEF ListedOnce
    <3> QED BY <3>2, <3>3
  <2>8. ShownAfter'
    BY <1>0, <2>1, <2>2, <2>3, <2>6 DEF ShownAfter
  <2>9. NotYetShown'
    <3> SUFFICES ASSUME NEW g \in Flow, flow[g].pc = "show", flow[g].msg \notin dropped[At(g)],
                        NEW j \in flow'[g].i .. Len(active[At(g)])
                 PROVE  shown'[active[At(g)][j]][flow[g].msg] = 0
      BY <2>1, <2>4 DEF NotYetShown
    <3>1. At(g) \in Node /\ j \in flow[g].i .. Len(active[At(g)])
      <4>1. At(g) \in Node /\ flow[g].i \in Nat /\ Len(active[At(g)]) \in Nat
        BY AtNode
      <4>2. flow'[g].i = flow[g].i \/ flow'[g].i = flow[g].i + 1
        BY <2>4, Zenon
      <4> QED BY <4>1, <4>2
    <3>2. j \in 1 .. Len(active[At(g)])
      BY <3>1
    <3>3. active[At(g)][j] \in Client /\ Home[active[At(g)][j]] = At(g)
      BY <1>0, <3>1, <3>2 DEF ListedOnce
    <3>4. shown[active[At(g)][j]][flow[g].msg] = 0
      BY <1>0, <3>1 DEF NotYetShown
    <3>5. CASE active[At(g)][j] # c \/ flow[g].msg # m
      BY <2>6, <3>3, <3>4, <3>5
    <3>6. CASE active[At(g)][j] = c /\ flow[g].msg = m /\ g # f
      <4>1. At(g) = At(f)
        BY <2>2, <3>3, <3>6 DEF n
      <4> QED BY <1>0, <2>1, <3>6, <4>1 DEF OneCarrier, Busy, m
    <3>7. CASE active[At(g)][j] = c /\ g = f
      <4>1. j = flow[f].i
        BY <1>0, <2>1, <3>2, <3>7 DEF ListedOnce, c, n
      <4>2. j > flow[f].i
        BY <2>4, <3>7
      <4> QED BY <2>1, <4>1, <4>2
    <3> QED BY <3>5, <3>6, <3>7
  <2>10. ShownOnce'
    <3>1. ASSUME NEW q \in Msg, NEW b \in Client, shown'[b][q] = 2 PROVE q \in dropped[Home[b]]
      <4>1. CASE b # c \/ q # m
        BY <1>0, <2>6, <3>1, <4>1 DEF ShownOnce
      <4>2. CASE b = c /\ q = m
        <5>1. shown[c][m] \in 0 .. 2 /\ shown[c][m] # 0
          BY <2>1, <2>2, <2>6, <3>1, <4>2 DEF OneMore
        <5>2. m \in dropped[n]
          <6> SUFFICES ASSUME m \notin dropped[n] PROVE FALSE
            OBVIOUS
          <6>1. flow[f].i \in flow[f].i .. Len(active[n])
            BY <2>1
          <6> QED BY <1>0, <2>1, <5>1, <6>1 DEF NotYetShown, c, m, n
        <5> QED BY <2>2, <4>2, <5>2
      <4> QED BY <4>1, <4>2
    <3> QED BY <1>0, <2>1, <3>1 DEF ShownOnce
  <2> QED BY <2>7, <2>8, <2>9, <2>10 DEF PassInv
<1>8. ASSUME NEW f \in Flow, BeginFlood(f) PROVE PassInv'
  <2> DEFINE n == At(f)
             gone == flow[f].dead
             peers == {m \in Node : <<n, m>> \in links}
  <2>1. n \in Node
    BY AtNode
  <2>2. /\ flow[f].pc = "show" /\ active' = [active EXCEPT ![n] = Without(@, gone)]
        /\ flow' = [Shifted(n, gone) EXCEPT ![f] =
                       [flow[f] EXCEPT !.pc = "flood", !.left = peers]]
        /\ UNCHANGED <<chan, seen, client, posted, taken, dropped, shown>>
    BY <1>8 DEF BeginFlood, history
  <2> HIDE DEF peers
  <2>3. flow'[f] = [flow[f] EXCEPT !.pc = "flood", !.left = peers]
        /\ \A g \in Flow : g # f => flow'[g] = Shifted(n, gone)[g]
    <3>1. Shifted(n, gone) \in [Flow -> Carrying]
      BY <2>1, ShiftedType, Zenon
    <3> QED BY <2>2, <3>1
  <2>4. flow'[f].pc = "flood" /\ flow'[f].msg = flow[f].msg /\ flow'[f].i = flow[f].i
    BY <2>3 DEF Carrying
  <2>5. \A g \in Flow : g # f =>
           flow'[g].pc = flow[g].pc /\ flow'[g].msg = flow[g].msg /\ flow'[g].i = flow[g].i
    <3> TAKE g \in Flow
    <3>1. /\ Shifted(n, gone)[g].pc = flow[g].pc
          /\ Shifted(n, gone)[g].msg = flow[g].msg
          /\ Shifted(n, gone)[g].i = flow[g].i
      BY <2>1, ShiftedFields
    <3> QED BY <2>3, <3>1, Zenon
  <2> HIDE DEF n, gone
  <2>6. ListedOnce' /\ NotYetShown'
    <3>1. \A g \in Flow : flow'[g].pc = "show" =>
             flow[g].pc = "show" /\ flow'[g].msg = flow[g].msg /\ flow'[g].i = flow[g].i
      BY <2>4, <2>5
    <3> QED BY <1>0, <2>1, <2>2, <3>1, RemovalKeeps
  <2>7. \A g \in Flow : flow'[g].msg = flow[g].msg /\ (flow'[g].pc # "idle" <=> flow[g].pc # "idle")
    BY <2>2, <2>4, <2>5
  <2>8. Entered' /\ OneCarrier'
    <3>1. \A l \in Links : \A i \in 1 .. Len(chan'[l]) : chan'[l][i] <= posted
      BY <1>0, <2>2 DEF Entered
    <3> QED BY <1>0, <2>2, <2>7, <3>1, CarryKeeps
  <2> QED BY <1>0, <2>2, <2>6, <2>8 DEF PassInv, ShownAfter, ShownOnce
<1>9. ASSUME NEW f \in Flow, NoPeers(f) PROVE PassInv'
  <2>1. /\ flow'[f].pc = "idle" /\ \A g \in Flow : g # f => flow'[g] = flow[g]
        /\ UNCHANGED <<chan, seen, active, client, posted, taken, dropped, shown>>
    <3>1. flow' = [flow EXCEPT ![f] = Resting]
      BY <1>9 DEF NoPeers
    <3>2. Resting.pc = "idle"
      BY DEF Resting
    <3>3. UNCHANGED <<chan, seen, active, client, posted, taken, dropped, shown>>
      BY <1>9 DEF NoPeers, history
    <3> QED BY <3>1, <3>2, <3>3
  <2>2. Entered' /\ OneCarrier'
    <3>1. \A l \in Links : \A i \in 1 .. Len(chan'[l]) : chan'[l][i] <= posted
      BY <1>0, <2>1 DEF Entered
    <3> QED BY <1>0, <2>1, <3>1, CarryKeeps
  <2>3. NotYetShown'
    BY <1>0, <2>1 DEF NotYetShown
  <2> QED BY <1>0, <2>1, <2>2, <2>3 DEF PassInv, ListedOnce, ShownAfter, ShownOnce
<1>10. ASSUME NEW f \in Flow, NEW m \in Node, Send(f, m) PROVE PassInv'
  <2> DEFINE l == <<At(f), m>>
             left == flow[f].left \ {m}
             next == IF left = {} THEN Resting ELSE [flow[f] EXCEPT !.left = left]
  <2>1. /\ flow[f].pc = "flood" /\ flow' = [flow EXCEPT ![f] = next]
        /\ chan' = [chan EXCEPT ![l] = Append(@, flow[f].msg)] \/ chan' = chan
        /\ UNCHANGED <<seen, active, client, posted, taken, dropped, shown>>
    BY <1>10 DEF Send, history
  <2>2. next.pc = "idle" \/ (next.pc = "flood" /\ next.msg = flow[f].msg)
    BY <2>1 DEF Resting, Carrying
  <2> HIDE DEF next, l
  <2>3. /\ flow'[f].pc = "idle" \/ (flow'[f].pc = "flood" /\ flow'[f].msg = flow[f].msg)
        /\ \A g \in Flow : g # f => flow'[g] = flow[g]
    BY <2>1, <2>2
  <2>4. flow[f].msg <= posted /\ flow[f].msg \in Msg
    BY <1>0, <2>1, AtNode DEF Entered, Busy
  <2>5. ASSUME NEW k \in Links, NEW i \in 1 .. Len(chan'[k]) PROVE chan'[k][i] <= posted
    <3>1. CASE chan'[k] = chan[k]
      BY <1>0, <3>1 DEF Entered
    <3>2. CASE chan'[k] = Append(chan[k], flow[f].msg)
      <4>1. chan[k] \in Seq(Msg)
        OBVIOUS
      <4>2. CASE i \in 1 .. Len(chan[k])
        <5>1. chan'[k][i] = chan[k][i]
          BY <2>4, <3>2, <4>1, <4>2
        <5> QED BY <1>0, <4>2, <5>1 DEF Entered
      <4>3. CASE i \notin 1 .. Len(chan[k])
        <5>1. chan'[k][i] = flow[f].msg
          BY <2>4, <3>2, <4>1, <4>3
        <5> QED BY <2>4, <5>1
      <4> QED BY <4>2, <4>3
    <3>3. chan'[k] = chan[k] \/ chan'[k] = Append(chan[k], flow[f].msg)
      BY <2>1
    <3> QED BY <3>1, <3>2, <3>3
  <2>6. Entered' /\ OneCarrier'
    BY <1>0, <2>1, <2>3, <2>5, CarryKeeps
  <2>7. NotYetShown'
    BY <1>0, <2>1, <2>3 DEF NotYetShown
  <2> QED BY <1>0, <2>1, <2>6, <2>7 DEF PassInv, ListedOnce, ShownAfter, ShownOnce
<1>11. CASE UNCHANGED vars
  BY <1>0, <1>11
  DEF vars, history, PassInv, Entered, OneCarrier, ListedOnce, ShownAfter, NotYetShown, ShownOnce, Busy
<1> QED
  BY <1>1, <1>2, <1>3, <1>4, <1>5, <1>6, <1>7, <1>8, <1>9, <1>10, <1>11 DEF Next, Step

(* A message that floods the swarm passes a node twice, or is shown to a    *)
(* client twice, only after the node has forgotten its id (handle_tcp_chat, *)
(* ChatManager.broadcast).                                                  *)
THEOREM Once == Spec => []ShownOnce
<1>1. Init => TypeOK /\ PassInv
  BY InitType, InitPass
<1>2. (TypeOK /\ PassInv) /\ [Next]_vars => (TypeOK /\ PassInv)'
  BY NextType, NextPass
<1>3. PassInv => ShownOnce
  BY DEF PassInv
<1> QED BY <1>1, <1>2, <1>3, PTL DEF Spec
-----------------------------------------------------------------------------
(* Everyone on the list is served. *)

(* What Serving and AudienceServed say of one coroutine. *)
Serves(f) ==
    ~flow[f].shifted =>
        \A c \in flow[f].audience :
            /\ flow[f].pc = "show" =>
                  Served(f, c) \/ \E j \in flow[f].i .. Len(active[At(f)]) : active[At(f)][j] = c
            /\ flow[f].pc = "flood" => Served(f, c)

LEMMA ServesEach == Serving /\ AudienceServed <=> \A f \in Flow : Serves(f)
BY DEF Serving, AudienceServed, Serves, Served

(* The same in the next state. *)
LEMMA ServesNext ==
    (\A f \in Flow : Serves(f)') => (Serving /\ AudienceServed)'
BY DEF Serving, AudienceServed, Serves, Served

LEMMA AudienceType ==
    ASSUME TypeOK, NEW f \in Flow
    PROVE  flow[f].audience \subseteq Client /\ flow[f].msg \in Msg /\ flow[f].i \in Nat
BY DEF TypeOK, Carrying

(* A coroutine that keeps its place goes on serving: nobody who was shown   *)
(* the message is not, and nobody listed from there on moves, unless the    *)
(* removal is marked.                                                       *)
LEMMA KeepsServing ==
    ASSUME TypeOK, NEW f \in Flow, Serves(f),
           ~flow'[f].shifted => ~flow[f].shifted,
           flow'[f].pc = flow[f].pc, flow'[f].msg = flow[f].msg, flow'[f].i = flow[f].i,
           flow'[f].dead = flow[f].dead, flow'[f].audience = flow[f].audience,
           \A c \in Client, m \in Msg : shown[c][m] > 0 => shown'[c][m] > 0,
           flow[f].pc = "show" /\ ~flow'[f].shifted =>
               \A j \in flow[f].i .. Len(active[At(f)]) :
                   j \in flow[f].i .. Len(active'[At(f)]) /\ active'[At(f)][j] = active[At(f)][j]
    PROVE  Serves(f)'
<1> SUFFICES ASSUME ~flow'[f].shifted, NEW c \in flow[f].audience
             PROVE  /\ flow[f].pc = "show" =>
                          Served(f, c)' \/ \E j \in flow[f].i .. Len(active'[At(f)]) :
                                               active'[At(f)][j] = c
                    /\ flow[f].pc = "flood" => Served(f, c)'
  BY DEF Serves
<1>1. Served(f, c) => Served(f, c)'
  BY AudienceType DEF Served
<1> QED BY <1>1 DEF Serves

LEMMA InitServing == Init => Serving /\ AudienceServed
<1> SUFFICES ASSUME Init PROVE Serving /\ AudienceServed
  OBVIOUS
<1>1. \A f \in Flow : flow[f].pc = "idle"
  BY DEF Init, Resting
<1> QED BY <1>1 DEF Serving, AudienceServed

LEMMA NextServing ==
    TypeOK /\ Serving /\ AudienceServed /\ [Next]_vars => (Serving /\ AudienceServed)'
<1> SUFFICES ASSUME TypeOK, Serving, AudienceServed, [Next]_vars
             PROVE  (Serving /\ AudienceServed)'
  OBVIOUS
<1> USE Types
<1>0. \A f \in Flow : Serves(f)
  BY ServesEach
<1>1. ASSUME NEW c \in Client, Join(c) PROVE (Serving /\ AudienceServed)'
  <2>1. Home[c] \in Node /\ UNCHANGED <<flow, shown>>
    BY <1>1, HomeAssumption DEF Join, history
  <2>2. ASSUME NEW f \in Flow, NEW j \in flow[f].i .. Len(active[At(f)])
        PROVE  j \in flow[f].i .. Len(active'[At(f)]) /\ active'[At(f)][j] = active[At(f)][j]
    <3>1. At(f) \in Node /\ active[At(f)] \in Seq(Client) /\ flow[f].i \in Nat \ {0}
      BY AtNode
    <3>2. j \in 1 .. Len(active[At(f)])
      BY <3>1
    <3>3. CASE At(f) = Home[c]
      <4>1. active'[At(f)] = Append(active[At(f)], c)
        BY <1>1, <2>1, <3>3 DEF Join
      <4> QED BY <3>1, <3>2, <4>1
    <3>4. CASE At(f) # Home[c]
      <4>1. active'[At(f)] = active[At(f)]
        BY <1>1, <2>1, <3>1, <3>4 DEF Join
      <4> QED BY <4>1
    <3> QED BY <3>3, <3>4
  <2>3. ASSUME NEW f \in Flow PROVE Serves(f)'
    BY <1>0, <2>1, <2>2, KeepsServing
  <2> QED BY <2>3, ServesNext
<1>2. ASSUME NEW c \in Client, Leave(c) PROVE (Serving /\ AudienceServed)'
  BY <1>2 DEF Leave, history, Serving, AudienceServed, Served
<1>3. ASSUME NEW n \in Node, NEW gone, active' = [active EXCEPT ![n] = Without(@, gone)],
             shown' = shown, NEW f \in Flow, flow'[f] = Shifted(n, gone)[f]
      PROVE  Serves(f)'
  <2>1. At(f) \in Node
    BY AtNode
  <2>2. /\ flow'[f].pc = flow[f].pc /\ flow'[f].msg = flow[f].msg /\ flow'[f].i = flow[f].i
        /\ flow'[f].dead = flow[f].dead /\ flow'[f].audience = flow[f].audience
    BY <1>3, ShiftedFields
  <2>3. ASSUME ~flow'[f].shifted
        PROVE  /\ ~flow[f].shifted
               /\ At(f) = n /\ flow[f].pc = "show" => Elements(active[n]) \cap gone = {}
    BY <1>3, <2>3, ShiftedMark
  <2>4. ASSUME ~flow'[f].shifted, flow[f].pc = "show" PROVE active'[At(f)] = active[At(f)]
    <3>1. CASE At(f) = n
      <4>1. Without(active[n], gone) = active[n]
        BY <2>3, <2>4, <3>1, WithoutProperties
      <4> QED BY <1>3, <3>1, <4>1
    <3>2. CASE At(f) # n
      BY <1>3, <2>1, <3>2
    <3> QED BY <3>1, <3>2
  <2> QED BY <1>0, <1>3, <2>2, <2>3, <2>4, KeepsServing
<1>4. ASSUME NEW c \in Client, Disconnect(c) PROVE (Serving /\ AudienceServed)'
  <2>1. /\ Home[c] \in Node /\ active' = [active EXCEPT ![Home[c]] = Without(@, {c})]
        /\ flow' = Shifted(Home[c], {c}) /\ shown' = shown
    BY <1>4, HomeAssumption DEF Disconnect, history
  <2>2. ASSUME NEW f \in Flow PROVE Serves(f)'
    BY <1>3, <2>1
  <2> QED BY <2>2, ServesNext
<1>5. ASSUME NEW f \in Flow, NEW m \in Msg, Enter(f, m), active' = active, shown' = shown
      PROVE  (Serving /\ AudienceServed)'
  <2>1. /\ flow'[f].pc = "show" /\ flow'[f].i = 1
        /\ flow'[f].audience = Elements(active[At(f)])
        /\ \A g \in Flow : g # f => flow'[g] = flow[g]
    BY <1>5, EnterProperties
  <2>2. ASSUME NEW c \in Elements(active[At(f)])
        PROVE  \E j \in 1 .. Len(active[At(f)]) : active[At(f)][j] = c
    <3>1. At(f) \in Node /\ active[At(f)] \in Seq(Client)
      BY AtNode
    <3>2. DOMAIN active[At(f)] = 1 .. Len(active[At(f)])
      BY <3>1
    <3> QED BY <3>2, Zenon DEF Elements
  <2>3. ASSUME NEW g \in Flow PROVE Serves(g)'
    <3>1. CASE g = f
      BY <1>5, <2>1, <2>2, <3>1 DEF Serves
    <3>2. CASE g # f
      <4>1. flow'[g] = flow[g]
        BY <2>1, <3>2
      <4> QED BY <1>0, <1>5, <4>1, KeepsServing
    <3> QED BY <3>1, <3>2
  <2> QED BY <2>3, ServesNext
<1>6. ASSUME NEW c \in Client, Post(c) PROVE (Serving /\ AudienceServed)'
  <2>1. posted' \in Msg /\ c \in Flow
    BY <1>6, MsgAssumption DEF Post, TypeOK, Msg, Flow
  <2>2. Enter(c, posted') /\ active' = active /\ shown' = shown
    BY <1>6 DEF Post
  <2> QED BY <1>5, <2>1, <2>2
<1>7. ASSUME NEW l \in Links, Receive(l) PROVE (Serving /\ AudienceServed)'
  <2>1. Head(chan[l]) \in Msg /\ l \in Flow
    BY <1>7 DEF Receive, Flow
  <2>2. Enter(l, Head(chan[l])) /\ active' = active /\ shown' = shown
    BY <1>7 DEF Receive
  <2> QED BY <1>5, <2>1, <2>2
<1>8. ASSUME NEW l \in Links, Ignore(l) PROVE (Serving /\ AudienceServed)'
  BY <1>8 DEF Ignore, history, Serving, AudienceServed, Served
<1>9. ASSUME NEW f \in Flow, Show(f) PROVE (Serving /\ AudienceServed)'
  <2> DEFINE n == At(f)
             i == flow[f].i
             c == active[n][i]
             m == flow[f].msg
  <2>1. /\ n \in Node /\ flow[f].pc = "show" /\ i \in 1 .. Len(active[n]) /\ m \in Msg
        /\ c \in Client /\ flow[f] \in Carrying /\ active' = active
    BY <1>9, AtNode DEF Show, AtElement
  <2>2. \/ /\ shown' = [shown EXCEPT ![c][m] = OneMore(@)]
           /\ flow' = [flow EXCEPT ![f].i = @ + 1]
        \/ /\ shown' = shown
           /\ flow' = [flow EXCEPT ![f].i = @ + 1, ![f].dead = @ \cup {c}]
    BY <1>9 DEF Show
  <2> DEFINE step == [flow[f] EXCEPT !.i = @ + 1]
             skip == [flow[f] EXCEPT !.i = @ + 1, !.dead = @ \cup {c}]
             more == [shown EXCEPT ![c][m] = OneMore(@)]
  <2>3. /\ step.pc = "show" /\ step.msg = m /\ step.i = i + 1 /\ step.dead = flow[f].dead
        /\ step.audience = flow[f].audience /\ step.shifted = flow[f].shifted
    BY <2>1 DEF Carrying
  <2>4. /\ skip.pc = "show" /\ skip.msg = m /\ skip.i = i + 1
        /\ skip.dead = flow[f].dead \cup {c}
        /\ skip.audience = flow[f].audience /\ skip.shifted = flow[f].shifted
    BY <2>1 DEF Carrying
  <2>6. /\ \A g \in Flow : g # f => flow'[g] = flow[g]
        /\ (flow'[f] = step /\ shown' = more) \/ (flow'[f] = skip /\ shown' = shown)
    BY <2>2
  <2> HIDE DEF step, skip, c, m, i, n
  <2>5. /\ more[c][m] > 0
        /\ \A b \in Client, k \in Msg : b # c \/ k # m => more[b][k] = shown[b][k]
    <3>1. c \in Client /\ m \in Msg
      BY <2>1
    <3>2. more[c][m] > 0
      BY <3>1, Counted
    <3>3. \A b \in Client, k \in Msg : b # c \/ k # m => more[b][k] = shown[b][k]
      BY <3>1, Counted
    <3> QED BY <3>2, <3>3
  <2> HIDE DEF more
  <2>7. \A b \in Client, k \in Msg : shown[b][k] > 0 => shown'[b][k] > 0
    BY <2>5, <2>6
  <2>8. /\ flow'[f].pc = "show" /\ flow'[f].msg = m /\ flow'[f].i = i + 1
        /\ flow[f].dead \subseteq flow'[f].dead /\ flow'[f].audience = flow[f].audience
        /\ flow'[f].shifted = flow[f].shifted
    BY <2>3, <2>4, <2>6
  <2>9. shown'[c][m] > 0 \/ c \in flow'[f].dead
    BY <2>4, <2>5, <2>6
  <2>10. ASSUME ~flow[f].shifted, NEW b \in flow[f].audience
         PROVE  \/ shown'[b][m] > 0 \/ b \in flow'[f].dead
                \/ \E j \in i + 1 .. Len(active[n]) : active[n][j] = b
    <3>0. b \in Client
      BY AudienceType
    <3>1. \/ shown[b][m] > 0 \/ b \in flow[f].dead
          \/ \E j \in i .. Len(active[n]) : active[n][j] = b
      BY <1>0, <2>1, <2>10 DEF Serves, Served, m, i, n
    <3>2. CASE shown[b][m] > 0
      BY <2>1, <2>7, <3>0, <3>2
    <3>3. CASE b \in flow[f].dead
      BY <2>8, <3>3
    <3>4. ASSUME NEW j \in i .. Len(active[n]), active[n][j] = b
          PROVE  \/ shown'[b][m] > 0 \/ b \in flow'[f].dead
                 \/ \E k \in i + 1 .. Len(active[n]) : active[n][k] = b
      <4>1. CASE j = i
        BY <2>9, <3>4, <4>1 DEF c
      <4>2. CASE j # i
        <5>1. j \in i + 1 .. Len(active[n])
          BY <2>1, <4>2
        <5> QED BY <3>4, <5>1
      <4> QED BY <4>1, <4>2
    <3> QED BY <3>1, <3>2, <3>3, <3>4
  <2>11. ASSUME NEW g \in Flow PROVE Serves(g)'
    <3>1. CASE g = f
      BY <2>1, <2>8, <2>10, <3>1 DEF Serves, Served, n
    <3>2. CASE g # f
      <4>1. flow'[g] = flow[g]
        BY <2>6, <3>2
      <4> QED BY <1>0, <2>1, <2>7, <4>1, KeepsServing
    <3> QED BY <3>1, <3>2
  <2> QED BY <2>11, ServesNext
<1>10. ASSUME NEW f \in Flow, BeginFlood(f) PROVE (Serving /\ AudienceServed)'
  <2> DEFINE n == At(f)
             gone == flow[f].dead
             begun == [flow[f] EXCEPT !.pc = "flood", !.left = {m \in Node : <<n, m>> \in links}]
  <2>1. /\ n \in Node /\ flow[f].pc = "show" /\ ~ (flow[f].i <= Len(active[n]))
        /\ active' = [active EXCEPT ![n] = Without(@, gone)] /\ shown' = shown
        /\ flow' = [Shifted(n, gone) EXCEPT ![f] = begun]
    BY <1>10, AtNode DEF BeginFlood, AtElement, history
  <2>2. /\ begun.pc = "flood" /\ begun.msg = flow[f].msg /\ begun.dead = flow[f].dead
        /\ begun.audience = flow[f].audience /\ begun.shifted = flow[f].shifted
    BY DEF Carrying
  <2> HIDE DEF begun, n, gone
  <2>3. flow'[f] = begun /\ \A g \in Flow : g # f => flow'[g] = Shifted(n, gone)[g]
    <3>1. Shifted(n, gone) \in [Flow -> Carrying]
      BY <2>1, ShiftedType
    <3> QED BY <2>1, <3>1
  <2>4. ASSUME ~flow[f].shifted, NEW b \in flow[f].audience PROVE Served(f, b)
    <3>1. flow[f].i .. Len(active[n]) = {}
      BY <2>1
    <3> QED BY <1>0, <2>1, <2>4, <3>1 DEF Serves, n
  <2>5. ASSUME NEW g \in Flow PROVE Serves(g)'
    <3>1. CASE g = f
      BY <2>1, <2>2, <2>3, <2>4, <3>1 DEF Serves, Served
    <3>2. CASE g # f
      BY <1>3, <2>1, <2>3, <3>2
    <3> QED BY <3>1, <3>2
  <2> QED BY <2>5, ServesNext
<1>11. ASSUME NEW f \in Flow, NoPeers(f) PROVE (Serving /\ AudienceServed)'
  <2>1. flow' = [flow EXCEPT ![f] = Resting] /\ active' = active /\ shown' = shown
    BY <1>11 DEF NoPeers, history
  <2>2. flow'[f].pc = "idle" /\ \A g \in Flow : g # f => flow'[g] = flow[g]
    BY <2>1 DEF Resting
  <2>3. ASSUME NEW g \in Flow PROVE Serves(g)'
    <3>1. CASE g = f
      BY <2>2, <3>1 DEF Serves
    <3>2. CASE g # f
      <4>1. flow'[g] = flow[g]
        BY <2>2, <3>2
      <4> QED BY <1>0, <2>1, <4>1, KeepsServing
    <3> QED BY <3>1, <3>2
  <2> QED BY <2>3, ServesNext
<1>12. ASSUME NEW f \in Flow, NEW m \in Node, Send(f, m) PROVE (Serving /\ AudienceServed)'
  <2> DEFINE left == flow[f].left \ {m}
             next == IF left = {} THEN Resting ELSE [flow[f] EXCEPT !.left = left]
  <2>1. /\ flow[f].pc = "flood" /\ flow' = [flow EXCEPT ![f] = next]
        /\ active' = active /\ shown' = shown
    BY <1>12 DEF Send, history
  <2>2. \/ next.pc = "idle"
        \/ /\ next.pc = "flood" /\ next.msg = flow[f].msg /\ next.dead = flow[f].dead
           /\ next.audience = flow[f].audience /\ next.shifted = flow[f].shifted
    BY <2>1 DEF Resting, Carrying
  <2> HIDE DEF next
  <2>3. flow'[f] = next /\ \A g \in Flow : g # f => flow'[g] = flow[g]
    BY <2>1
  <2> QED BY <2>1, <2>2, <2>3 DEF Serving, AudienceServed, Served
<1>13. CASE UNCHANGED vars
  BY <1>13 DEF vars, history, Serving, AudienceServed, Served
<1> QED
  BY <1>1, <1>2, <1>4, <1>6, <1>7, <1>8, <1>9, <1>10, <1>11, <1>12, <1>13 DEF Next, Step

(* A broadcast during which nobody was taken off the list has, when it      *)
(* ends, served every client that was listed when it began                  *)
(* (ChatManager.broadcast over the live list).                              *)
THEOREM Audience == Spec => []AudienceServed
<1>1. Init => TypeOK /\ Serving /\ AudienceServed
  BY InitType, InitServing
<1>2. (TypeOK /\ Serving /\ AudienceServed) /\ [Next]_vars => (TypeOK /\ Serving /\ AudienceServed)'
  BY NextType, NextServing
<1> QED BY <1>1, <1>2, PTL DEF Spec
==============================================================================
