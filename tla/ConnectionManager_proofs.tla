---------------------- MODULE ConnectionManager_proofs ----------------------
(***************************************************************************)
(* Theorems about ConnectionManager, for every set of nodes and of         *)
(* connections.                                                            *)
(***************************************************************************)
EXTENDS ConnectionManager, TLAPS

(* A step of one connection: the others stay, and an entry stays, is        *)
(* cleared or becomes this connection.                                      *)
OnlyChanges(c) ==
    /\ \A d \in Conn : d # c => conn'[d] = conn[d]
    /\ \A n, m \in Node : table'[n][m] \in {table[n][m], c, NoConn}

LEMMA LocalStep ==
    ASSUME TypeOK, TableInv, NEW c \in Conn, TypeOK', OnlyChanges(c), EndsAgree(c)',
           \A n, m \in Node : table'[n][m] = c => Greeted(c, n, m)'
    PROVE  TypeOK' /\ TableInv'
<1>1. ASSUME NEW d \in Conn PROVE EndsAgree(d)'
  <2>1. CASE d = c
    BY <2>1
  <2>2. CASE d # c
    BY <2>2 DEF OnlyChanges, TableInv, EndsAgree, Serving
  <2>3. QED
    BY <2>1, <2>2
<1>2. ASSUME NEW n \in Node, NEW m \in Node, NEW d \in Conn, table'[n][m] = d
      PROVE  Greeted(d, n, m)'
  <2>1. CASE d = c
    BY <1>2, <2>1
  <2>2. CASE d # c
    <3>1. table[n][m] = d /\ conn'[d] = conn[d]
      BY <1>2, <2>2, NoConnAssumption DEF OnlyChanges
    <3>2. QED
      BY <3>1 DEF TableInv, ListedIsGreeted, Greeted
  <2>3. QED
    BY <2>1, <2>2
<1>3. QED
  BY <1>1, <1>2 DEF TableInv, ListedIsGreeted

LEMMA InitFacts == Init => TypeOK /\ TableInv
<1> SUFFICES ASSUME Init PROVE TypeOK /\ TableInv
  OBVIOUS
<1>1. ASSUME NEW c \in Conn
      PROVE  /\ conn[c] \in Connection
             /\ conn[c].dial = "unused" /\ conn[c].serve = "unused"
             /\ ~conn[c].up /\ ~conn[c].acked
  <2>1. PICK n \in Node :
          conn[c] = [from |-> n, to |-> n, dial |-> "unused", serve |-> "unused",
                     up |-> FALSE, acked |-> FALSE]
    BY DEF Init
  <2>2. QED
    BY <2>1 DEF Connection, Dial, Serve
<1>2. TypeOK
  BY <1>1 DEF Init, TypeOK
<1>3. ListedIsGreeted
  BY NoConnAssumption DEF Init, ListedIsGreeted
<1>4. QED
  BY <1>1, <1>2, <1>3 DEF TableInv, EndsAgree, Serving

(* A dial takes a connection that no table lists.                           *)
LEMMA StartDialFacts ==
    ASSUME TypeOK, TableInv, NEW c \in Conn, NEW n \in Node, NEW m \in Node,
           StartDial(c, n, m)
    PROVE  TypeOK' /\ TableInv'
<1>1. TypeOK'
  BY DEF TypeOK, Connection, Dial, Serve, StartDial
<1>2. OnlyChanges(c)
  BY DEF TypeOK, OnlyChanges, StartDial
<1>3. EndsAgree(c)'
  BY DEF TypeOK, Connection, EndsAgree, Serving, StartDial
<1>4. \A k, l \in Node : table'[k][l] # c
  BY DEF StartDial, Free, Listed
<1>5. QED
  BY <1>1, <1>2, <1>3, <1>4, LocalStep

(* The steps of the dialling end.                                           *)
LEMMA DialFacts ==
    ASSUME TypeOK, TableInv, NEW c \in Conn, DialStep(c)
    PROVE  TypeOK' /\ TableInv'
<1>0. \A n, m \in Node : table[n][m] = c => Greeted(c, n, m)
  BY DEF TableInv, ListedIsGreeted
<1>1. CASE Open(c)
  <2>0. conn' = [conn EXCEPT ![c] =
                   [conn[c] EXCEPT !.dial = "greeting", !.serve = "auth", !.up = TRUE]]
    BY <1>1 DEF TypeOK, Connection, Open
  <2>1. TypeOK'
    BY <1>1, <2>0 DEF TypeOK, Connection, Dial, Serve, Open
  <2>2. OnlyChanges(c)
    BY <1>1 DEF TypeOK, Connection, OnlyChanges, Open
  <2>3. EndsAgree(c)'
    BY <1>1 DEF TypeOK, Connection, Dial, Serve, TableInv, EndsAgree, Serving, Open
  <2>4. ASSUME NEW n \in Node, NEW m \in Node, table'[n][m] = c
        PROVE  Greeted(c, n, m)'
    <3>1. table[n][m] = c
      BY <1>1, <2>4 DEF Open
    <3>2. conn[c].from = m /\ conn[c].to = n /\ conn[c].serve \in {"answer", "loop"}
      BY <1>0, <1>1, <3>1 DEF Greeted, Open
    <3>3. QED
      BY <1>1, <3>2 DEF TypeOK, TableInv, EndsAgree, Serving, Open
  <2>5. QED
    BY <2>1, <2>2, <2>3, <2>4, LocalStep
<1>2. CASE Refused(c)
  <2>1. TypeOK'
    BY <1>2 DEF TypeOK, Connection, Dial, Serve, Refused
  <2>2. OnlyChanges(c)
    BY <1>2 DEF TypeOK, Connection, OnlyChanges, Refused
  <2>3. EndsAgree(c)'
    BY <1>2 DEF TypeOK, Connection, Dial, Serve, TableInv, EndsAgree, Serving, Refused
  <2>4. ASSUME NEW n \in Node, NEW m \in Node, table'[n][m] = c
        PROVE  Greeted(c, n, m)'
    BY <1>0, <1>2, <2>4
       DEF TypeOK, Connection, Greeted, Refused
  <2>5. QED
    BY <2>1, <2>2, <2>3, <2>4, LocalStep
<1>3. CASE ReadAck(c)
  <2>1. TypeOK'
    <3>0. conn[c] \in Connection
      BY DEF TypeOK
    <3>1. [conn[c] EXCEPT !.dial = "held"] \in Connection
      BY <3>0 DEF Connection, Dial, Serve
    <3>2. conn' = [conn EXCEPT ![c] = [conn[c] EXCEPT !.dial = "held"]]
      BY <1>3 DEF TypeOK, Connection, ReadAck
    <3>3. conn' \in [Conn -> Connection]
      BY <3>1, <3>2 DEF TypeOK
    <3>4. QED
      BY <1>3, <3>3, NoConnAssumption DEF TypeOK, ReadAck
  <2>2. OnlyChanges(c)
    BY <1>3 DEF TypeOK, Connection, OnlyChanges, ReadAck
  <2>3. EndsAgree(c)'
    BY <1>3 DEF TypeOK, Connection, Dial, Serve, TableInv, EndsAgree, Serving, ReadAck
  <2>4. ASSUME NEW n \in Node, NEW m \in Node, table'[n][m] = c
        PROVE  Greeted(c, n, m)'
    BY <1>0, <1>3, <2>4, NoConnAssumption
       DEF TypeOK, Connection, Greeted, ReadAck
  <2>5. QED
    BY <2>1, <2>2, <2>3, <2>4, LocalStep
<1>4. CASE NoAck(c)
  <2>1. TypeOK'
    BY <1>4 DEF TypeOK, Connection, Dial, Serve, NoAck
  <2>2. OnlyChanges(c)
    BY <1>4 DEF TypeOK, Connection, OnlyChanges, NoAck
  <2>3. EndsAgree(c)'
    BY <1>4 DEF TypeOK, Connection, Dial, Serve, TableInv, EndsAgree, Serving, NoAck
  <2>4. ASSUME NEW n \in Node, NEW m \in Node, table'[n][m] = c
        PROVE  Greeted(c, n, m)'
    BY <1>0, <1>4, <2>4
       DEF TypeOK, Connection, Greeted, NoAck
  <2>5. QED
    BY <2>1, <2>2, <2>3, <2>4, LocalStep
<1>5. QED
  BY <1>1, <1>2, <1>3, <1>4 DEF DialStep

(* The steps of the accepting end, and a loss.  End clears the entry of the *)
(* peer: its own, or that of a connection which goes on.                     *)
LEMMA ServeFacts ==
    ASSUME TypeOK, TableInv, NEW c \in Conn, ServeStep(c) \/ Cut(c)
    PROVE  TypeOK' /\ TableInv'
<1>0. \A n, m \in Node : table[n][m] = c => Greeted(c, n, m)
  BY DEF TableInv, ListedIsGreeted
<1>1. CASE ReadAuth(c)
  <2>1. TypeOK'
    BY <1>1 DEF TypeOK, Connection, Dial, Serve, ReadAuth
  <2>2. OnlyChanges(c)
    BY <1>1 DEF TypeOK, Connection, OnlyChanges, ReadAuth
  <2>3. EndsAgree(c)'
    BY <1>1 DEF TypeOK, Connection, Dial, Serve, TableInv, EndsAgree, Serving, ReadAuth
  <2>4. ASSUME NEW n \in Node, NEW m \in Node, table'[n][m] = c
        PROVE  Greeted(c, n, m)'
    BY <1>0, <1>1, <2>4
       DEF TypeOK, Connection, Greeted, ReadAuth
  <2>5. QED
    BY <2>1, <2>2, <2>3, <2>4, LocalStep
<1>2. CASE Reject(c)
  <2>1. TypeOK'
    <3>0. conn[c] \in Connection
      BY DEF TypeOK
    <3>1. [conn[c] EXCEPT !.serve = "gone", !.up = FALSE] \in Connection
      BY <3>0 DEF Connection, Dial, Serve
    <3>2. conn' = [conn EXCEPT ![c] = [conn[c] EXCEPT !.serve = "gone", !.up = FALSE]]
      BY <1>2 DEF TypeOK, Connection, Reject
    <3>3. conn' \in [Conn -> Connection]
      BY <3>1, <3>2 DEF TypeOK
    <3>4. QED
      BY <1>2, <3>3 DEF TypeOK, Reject
  <2>2. OnlyChanges(c)
    BY <1>2 DEF TypeOK, Connection, OnlyChanges, Reject
  <2>3. EndsAgree(c)'
    BY <1>2 DEF TypeOK, Connection, Dial, Serve, TableInv, EndsAgree, Serving, Reject
  <2>4. ASSUME NEW n \in Node, NEW m \in Node, table'[n][m] = c
        PROVE  Greeted(c, n, m)'
    BY <1>0, <1>2, <2>4
       DEF TypeOK, Connection, Greeted, Reject
  <2>5. QED
    BY <2>1, <2>2, <2>3, <2>4, LocalStep
<1>3. CASE ReadHello(c)
  <2>1. TypeOK'
    <3>0. conn[c] \in Connection
      BY DEF TypeOK
    <3>1. [conn[c] EXCEPT !.serve = "answer", !.acked = TRUE] \in Connection
      BY <3>0 DEF Connection, Dial, Serve
    <3>2. conn' = [conn EXCEPT ![c] = [conn[c] EXCEPT !.serve = "answer", !.acked = TRUE]]
      BY <1>3 DEF TypeOK, Connection, ReadHello
    <3>3. conn' \in [Conn -> Connection]
      BY <3>1, <3>2 DEF TypeOK
    <3>4. QED
      BY <1>3, <3>3, NoConnAssumption DEF TypeOK, ReadHello
  <2>2. OnlyChanges(c)
    BY <1>3 DEF TypeOK, Connection, OnlyChanges, ReadHello
  <2>3. EndsAgree(c)'
    BY <1>3 DEF TypeOK, Connection, Dial, Serve, TableInv, EndsAgree, Serving, ReadHello
  <2>4. ASSUME NEW n \in Node, NEW m \in Node, table'[n][m] = c
        PROVE  Greeted(c, n, m)'
    BY <1>0, <1>3, <2>4, NoConnAssumption
       DEF TypeOK, Connection, Greeted, ReadHello
  <2>5. QED
    BY <2>1, <2>2, <2>3, <2>4, LocalStep
<1>4. CASE Answered(c)
  <2>1. TypeOK'
    BY <1>4 DEF TypeOK, Connection, Dial, Serve, Answered
  <2>2. OnlyChanges(c)
    BY <1>4 DEF TypeOK, Connection, OnlyChanges, Answered
  <2>3. EndsAgree(c)'
    BY <1>4 DEF TypeOK, Connection, Dial, Serve, TableInv, EndsAgree, Serving, Answered
  <2>4. ASSUME NEW n \in Node, NEW m \in Node, table'[n][m] = c
        PROVE  Greeted(c, n, m)'
    BY <1>0, <1>4, <2>4
       DEF TypeOK, Connection, Greeted, Answered
  <2>5. QED
    BY <2>1, <2>2, <2>3, <2>4, LocalStep
<1>5. CASE End(c)
  <2>1. TypeOK'
    <3>0. conn[c] \in Connection
      BY DEF TypeOK
    <3>1. [conn[c] EXCEPT !.serve = "gone"] \in Connection
      BY <3>0 DEF Connection, Dial, Serve
    <3>2. conn' = [conn EXCEPT ![c] = [conn[c] EXCEPT !.serve = "gone"]]
      BY <1>5 DEF TypeOK, Connection, End
    <3>3. conn' \in [Conn -> Connection]
      BY <3>1, <3>2 DEF TypeOK
    <3>4. QED
      BY <1>5, <3>3, NoConnAssumption DEF TypeOK, End, Unlisted
  <2>2. OnlyChanges(c)
    BY <1>5 DEF TypeOK, Connection, OnlyChanges, End, Unlisted
  <2>3. EndsAgree(c)'
    BY <1>5 DEF TypeOK, Connection, Dial, Serve, TableInv, EndsAgree, Serving, End
  <2>4. ASSUME NEW n \in Node, NEW m \in Node, table'[n][m] = c
        PROVE  Greeted(c, n, m)'
    BY <1>0, <1>5, <2>4, NoConnAssumption
       DEF TypeOK, Connection, Greeted, End, Unlisted
  <2>5. QED
    BY <2>1, <2>2, <2>3, <2>4, LocalStep
<1>6. CASE Cut(c)
  <2>1. TypeOK'
    <3>0. conn[c] \in Connection
      BY DEF TypeOK
    <3>1. [conn[c] EXCEPT !.up = FALSE] \in Connection
      BY <3>0 DEF Connection, Dial, Serve
    <3>2. conn' = [conn EXCEPT ![c] = [conn[c] EXCEPT !.up = FALSE]]
      BY <1>6 DEF TypeOK, Connection, Cut
    <3>3. conn' \in [Conn -> Connection]
      BY <3>1, <3>2 DEF TypeOK
    <3>4. QED
      BY <1>6, <3>3 DEF TypeOK, Cut
  <2>2. OnlyChanges(c)
    BY <1>6 DEF TypeOK, Connection, OnlyChanges, Cut
  <2>3. EndsAgree(c)'
    BY <1>6 DEF TypeOK, Connection, Dial, Serve, TableInv, EndsAgree, Serving, Cut
  <2>4. ASSUME NEW n \in Node, NEW m \in Node, table'[n][m] = c
        PROVE  Greeted(c, n, m)'
    BY <1>0, <1>6, <2>4
       DEF TypeOK, Connection, Greeted, Cut
  <2>5. QED
    BY <2>1, <2>2, <2>3, <2>4, LocalStep
<1>7. QED
  BY <1>1, <1>2, <1>3, <1>4, <1>5, <1>6 DEF ServeStep

LEMMA NodeFacts ==
    ASSUME TypeOK, TableInv, NEW n \in Node,
           Restart(n) \/ BeginStop(n) \/ CloseListed(n) \/ FinishStop(n)
    PROVE  TypeOK' /\ TableInv'
<1>0. \A c \in Conn : \A k, m \in Node : table[k][m] = c => Greeted(c, k, m)
  BY DEF TableInv, ListedIsGreeted
<1>1. CASE Restart(n)
  <2>1. TypeOK'
    <3>1. ASSUME NEW c \in Conn PROVE conn'[c] \in Connection
      <4>1. conn[c] \in Connection
        BY DEF TypeOK
      <4>2. QED
        BY <1>1, <4>1 DEF Connection, Dial, Serve, Restart, Gone
    <3>2. conn' \in [Conn -> Connection]
      BY <1>1, <3>1 DEF Restart
    <3>3. QED
      BY <1>1, <3>2, NoConnAssumption DEF TypeOK, Restart
  <2>2. ASSUME NEW c \in Conn PROVE EndsAgree(c)'
    <3>1. conn'[c] = Gone(n, c) /\ EndsAgree(c) /\ conn[c] \in Connection
      BY <1>1 DEF Restart, TableInv, TypeOK
    <3>2. /\ conn'[c].acked = conn[c].acked
          /\ conn'[c].dial = IF conn[c].from = n THEN "closed" ELSE conn[c].dial
          /\ conn'[c].serve = IF conn[c].to = n THEN "gone" ELSE conn[c].serve
          /\ conn'[c].up = IF n \in {conn[c].from, conn[c].to} THEN FALSE ELSE conn[c].up
      BY <3>1 DEF Connection, Gone
    <3>3. QED
      BY <3>1, <3>2 DEF EndsAgree, Serving
  <2>3. ASSUME NEW k \in Node, NEW m \in Node, NEW c \in Conn, table'[k][m] = c
        PROVE  Greeted(c, k, m)'
    <3>1. k # n /\ table[k][m] = c
      BY <1>1, <2>3, NoConnAssumption DEF TypeOK, Restart
    <3>2. Greeted(c, k, m)
      BY <1>0, <3>1
    <3>3. conn'[c] = Gone(n, c)
      BY <1>1 DEF Restart
    <3>4. /\ conn'[c].from = conn[c].from /\ conn'[c].to = conn[c].to
          /\ conn[c].from # n => conn'[c].dial = conn[c].dial
          /\ conn[c].to # n => conn'[c].serve = conn[c].serve
      BY <3>3 DEF TypeOK, Connection, Gone
    <3>5. QED
      BY <3>1, <3>2, <3>4 DEF Greeted
  <2>4. QED
    BY <2>1, <2>2, <2>3 DEF TableInv, ListedIsGreeted
<1>2. CASE BeginStop(n)
  <2>1. TypeOK'
    <3>1. ASSUME NEW c \in Conn PROVE conn'[c] \in Connection
      <4>1. conn[c] \in Connection
        BY DEF TypeOK
      <4>2. QED
        BY <1>2, <4>1 DEF Connection, Dial, Serve, BeginStop
    <3>2. conn' \in [Conn -> Connection]
      BY <1>2, <3>1 DEF BeginStop
    <3>3. QED
      BY <1>2, <3>2 DEF TypeOK, BeginStop
  <2>2. ASSUME NEW c \in Conn PROVE EndsAgree(c)'
    BY <1>2 DEF TypeOK, Connection, Dial, Serve, TableInv, EndsAgree, Serving, BeginStop
  <2>3. ASSUME NEW k \in Node, NEW m \in Node, NEW c \in Conn, table'[k][m] = c
        PROVE  Greeted(c, k, m)'
    <3>1. Greeted(c, k, m)
      BY <1>0, <1>2, <2>3 DEF BeginStop
    <3>2. conn'[c] = conn[c] \/
            /\ conn[c].dial # "held"
            /\ conn'[c] = [conn[c] EXCEPT !.dial = "closed", !.up = FALSE]
      BY <1>2 DEF BeginStop
    <3>3. QED
      BY <3>1, <3>2 DEF TypeOK, Connection, Greeted
  <2>4. QED
    BY <2>1, <2>2, <2>3 DEF TableInv, ListedIsGreeted
<1>3. CASE CloseListed(n)
  <2>1. TypeOK'
    <3>1. ASSUME NEW c \in Conn PROVE conn'[c] \in Connection
      <4>1. conn[c] \in Connection
        BY DEF TypeOK
      <4>2. QED
        BY <1>3, <4>1 DEF Connection, Dial, Serve, CloseListed
    <3>2. conn' \in [Conn -> Connection]
      BY <1>3, <3>1 DEF CloseListed
    <3>3. QED
      BY <1>3, <3>2 DEF TypeOK, CloseListed
  <2>2. ASSUME NEW c \in Conn PROVE EndsAgree(c)'
    BY <1>3 DEF TypeOK, Connection, Dial, Serve, TableInv, EndsAgree, Serving, CloseListed
  <2>3. ASSUME NEW k \in Node, NEW m \in Node, NEW c \in Conn, table'[k][m] = c
        PROVE  Greeted(c, k, m)'
    BY <1>0, <1>3, <2>3
       DEF TypeOK, Connection, Greeted, CloseListed
  <2>4. QED
    BY <2>1, <2>2, <2>3 DEF TableInv, ListedIsGreeted
<1>4. CASE FinishStop(n)
  <2>1. TypeOK'
    BY <1>4, NoConnAssumption DEF TypeOK, Connection, Dial, Serve, FinishStop
  <2>2. ASSUME NEW c \in Conn PROVE EndsAgree(c)'
    BY <1>4 DEF TypeOK, Connection, Dial, Serve, TableInv, EndsAgree, Serving, FinishStop
  <2>3. ASSUME NEW k \in Node, NEW m \in Node, NEW c \in Conn, table'[k][m] = c
        PROVE  Greeted(c, k, m)'
    BY <1>0, <1>4, <2>3, NoConnAssumption
       DEF TypeOK, Connection, Greeted, FinishStop
  <2>4. QED
    BY <2>1, <2>2, <2>3 DEF TableInv, ListedIsGreeted
<1>5. QED
  BY <1>1, <1>2, <1>3, <1>4

LEMMA NextFacts == TypeOK /\ TableInv /\ [Next]_vars => TypeOK' /\ TableInv'
<1> SUFFICES ASSUME TypeOK, TableInv, [Next]_vars PROVE TypeOK' /\ TableInv'
  OBVIOUS
<1>1. CASE Next
  BY <1>1, StartDialFacts, DialFacts, ServeFacts, NodeFacts DEF Next
<1>2. CASE UNCHANGED vars
  BY <1>2 DEF vars, TypeOK, TableInv, ListedIsGreeted, Greeted, EndsAgree, Serving
<1>3. QED
  BY <1>1, <1>2

LEMMA FactsHold == Spec => [](TypeOK /\ TableInv)
BY InitFacts, NextFacts, PTL DEF Spec

(* Every variable of every node keeps its type, through dials, failures,    *)
(* stops and restarts (connection.py:63-231).                               *)
THEOREM TypeCorrect == Spec => []TypeOK
BY FactsHold, PTL

(* However many connections two nodes open to each other and lose, every    *)
(* table entry is a connection with that peer, greeted at this end and with *)
(* its reader alive if it was accepted (lines 117, 150, 184).               *)
THEOREM GreetedOnly == Spec => []ListedIsGreeted
<1>1. TableInv => ListedIsGreeted
  BY DEF TableInv
<1>2. QED
  BY <1>1, FactsHold, PTL

(* What a node sends over a connection it dialled and that holds reaches a  *)
(* coroutine that reads it (lines 131-145, 177-184).                        *)
THEOREM Heard == Spec => []DialledIsHeard
<1>1. TableInv => DialledIsHeard
  BY DEF TableInv, DialledIsHeard, ListedIsGreeted, Greeted, EndsAgree, Serving
<1>2. QED
  BY <1>1, FactsHold, PTL

=============================================================================
