-------------------------- MODULE ConnectionManager --------------------------
(***************************************************************************)
(* The ConnectionManager of backend/network/connection.py on every node of *)
(* a swarm, with the connector loop of backend/node/node.py: who dials     *)
(* whom, the handshake at both ends, the table `connections' by peer id,   *)
(* lost connections, crashes and the stop of a node.                       *)
(*                                                                         *)
(* A connection is one TCP connection, with the coroutine of               *)
(* connect_to_peer at its dialling end and that of _handle_client at the   *)
(* other.  Only the latter goes on reading once the handshake is over.     *)
(* Nodes share the swarm key and have distinct, nonempty ids.              *)
(***************************************************************************)
EXTENDS FiniteSets

CONSTANTS
    Node,
    Conn,   \* identities of connections alive at once
    NoConn

ASSUME NoConnAssumption == NoConn \notin Conn

VARIABLES
    table,   \* connections of each node: by peer, the connection it uses
    server,  \* the TCP server of each node
    conn     \* the connections

vars == <<table, server, conn>>

(* connect_to_peer: waiting for open_connection, for the HANDSHAKE_ACK,     *)
(* returned with the connection, or ended without it.                       *)
Dial == {"unused", "opening", "greeting", "held", "closed"}

(* _handle_client: not accepted yet, waiting for AUTH or for HANDSHAKE, in  *)
(* the drain of its answer, in its message loop, or ended.                  *)
Serve == {"unused", "auth", "hello", "answer", "loop", "gone"}

Connection == [from : Node, to : Node, dial : Dial, serve : Serve,
               up : BOOLEAN,     \* neither end has closed or lost it
               acked : BOOLEAN]  \* the HANDSHAKE_ACK was written

Serving(c) == conn[c].serve \in {"auth", "hello", "answer", "loop"}

Listed(c) == \E n, m \in Node : table[n][m] = c

(* Both ends are through with the connection and no table refers to it. *)
Free(c) ==
    /\ conn[c].dial \in {"unused", "closed"} /\ ~Serving(c)
    /\ ~Listed(c)

(* `pop' of the entry of m from the table of n; the first form would drop   *)
(* the whole slot.                                                          *)
UnlistedWithSlot(n, m) == [table EXCEPT ![n] = [k \in Node \ {m} |-> @[k]]]

Unlisted(n, m) == [table EXCEPT ![n][m] = NoConn]

Init ==
    /\ table = [n \in Node |-> [m \in Node |-> NoConn]]
    /\ server = [n \in Node |-> "up"]
    /\ conn \in [Conn -> {[from |-> n, to |-> n, dial |-> "unused", serve |-> "unused",
                           up |-> FALSE, acked |-> FALSE] : n \in Node}]
    /\ \A c, d \in Conn : conn[c] = conn[d]

-----------------------------------------------------------------------------
(* connect_to_peer *)

(* The connector loop, or an engine that replicates, finds no connection to *)
(* a peer it knows and dials.  Nothing keeps two of them from doing so.     *)
StartDial(c, n, m) ==
    /\ server[n] = "up" /\ n # m
    /\ table[n][m] = NoConn
    /\ Free(c)
    /\ conn' = [conn EXCEPT ![c] = [from |-> n, to |-> m, dial |-> "opening",
                                    serve |-> "unused", up |-> FALSE, acked |-> FALSE]]
    /\ UNCHANGED <<table, server>>

(* The connection opens; AUTH and HANDSHAKE are sent one after the other.   *)
(* The first form lists the connection before it is acknowledged.           *)
OpenAndList(c) ==
    /\ conn[c].dial = "opening" /\ server[conn[c].to] = "up"
    /\ conn' = [conn EXCEPT ![c].dial = "greeting", ![c].serve = "auth", ![c].up = TRUE]
    /\ table' = [table EXCEPT ![conn[c].from][conn[c].to] = c]
    /\ UNCHANGED server

Open(c) ==
    /\ conn[c].dial = "opening" /\ server[conn[c].to] = "up"
    /\ conn' = [conn EXCEPT ![c].dial = "greeting", ![c].serve = "auth", ![c].up = TRUE]
    /\ UNCHANGED <<table, server>>

Refused(c) ==
    /\ conn[c].dial = "opening" /\ server[conn[c].to] # "up"
    /\ conn' = [conn EXCEPT ![c].dial = "closed"]
    /\ UNCHANGED <<table, server>>

(* The HANDSHAKE_ACK, which a lost connection may still hold: the dialling  *)
(* node puts the connection in its table, over the one that is there.       *)
ReadAck(c) ==
    /\ conn[c].dial = "greeting" /\ conn[c].acked
    /\ conn' = [conn EXCEPT ![c].dial = "held"]
    /\ table' = [table EXCEPT ![conn[c].from][conn[c].to] = c]
    /\ UNCHANGED server

(* receive() returns None at the end of the stream. *)
NoAck(c) ==
    /\ conn[c].dial = "greeting" /\ ~conn[c].up
    /\ conn' = [conn EXCEPT ![c].dial = "closed"]
    /\ UNCHANGED <<table, server>>

-----------------------------------------------------------------------------
(* _handle_client *)

ReadAuth(c) ==
    /\ conn[c].serve = "auth"
    /\ conn' = [conn EXCEPT ![c].serve = "hello"]
    /\ UNCHANGED <<table, server>>

(* Two seconds without an AUTH, or the end of the stream instead of an AUTH *)
(* or a HANDSHAKE: close.  The `finally' pops the empty peer id, which      *)
(* names nobody.  The first form leaves the connection open.                *)
RejectLeavingOpen(c) ==
    /\ \/ conn[c].serve = "auth"
       \/ conn[c].serve = "hello" /\ ~conn[c].up
    /\ conn' = [conn EXCEPT ![c].serve = "gone"]
    /\ UNCHANGED <<table, server>>

Reject(c) ==
    /\ \/ conn[c].serve = "auth"
       \/ conn[c].serve = "hello" /\ ~conn[c].up
    /\ conn' = [conn EXCEPT ![c].serve = "gone", ![c].up = FALSE]
    /\ UNCHANGED <<table, server>>

(* The HANDSHAKE: register the connection and write the answer. *)
ReadHello(c) ==
    /\ conn[c].serve = "hello"
    /\ conn' = [conn EXCEPT ![c].serve = "answer", ![c].acked = TRUE]
    /\ table' = [table EXCEPT ![conn[c].to][conn[c].from] = c]
    /\ UNCHANGED server

Answered(c) ==
    /\ conn[c].serve = "answer"
    /\ conn' = [conn EXCEPT ![c].serve = "loop"]
    /\ UNCHANGED <<table, server>>

(* The connection is lost: the drain raises, or the loop reads None.  The   *)
(* `finally' pops the peer's entry, whichever connection is there now; the  *)
(* first form pops nothing.                                                 *)
EndUnpopped(c) ==
    /\ conn[c].serve \in {"answer", "loop"} /\ ~conn[c].up
    /\ conn' = [conn EXCEPT ![c].serve = "gone"]
    /\ UNCHANGED <<table, server>>

End(c) ==
    /\ conn[c].serve \in {"answer", "loop"} /\ ~conn[c].up
    /\ conn' = [conn EXCEPT ![c].serve = "gone"]
    /\ table' = Unlisted(conn[c].to, conn[c].from)
    /\ UNCHANGED server

-----------------------------------------------------------------------------
(* Failures, and the stop of a node *)

Cut(c) ==
    /\ conn[c].up
    /\ conn' = [conn EXCEPT ![c].up = FALSE]
    /\ UNCHANGED <<table, server>>

(* What a node's process takes with it when it dies. *)
Gone(n, c) ==
    [conn[c] EXCEPT
        !.dial = IF conn[c].from = n THEN "closed" ELSE @,
        !.serve = IF conn[c].to = n THEN "gone" ELSE @,
        !.up = IF n \in {conn[c].from, conn[c].to} THEN FALSE ELSE @]

(* The process dies, or exits after a stop, and is started again. *)
Restart(n) ==
    /\ conn' = [c \in Conn |-> Gone(n, c)]
    /\ table' = [table EXCEPT ![n] = [m \in Node |-> NoConn]]
    /\ server' = [server EXCEPT ![n] = "up"]

(* DistriNode.stop cancels the connector loop with the dial it is in, and   *)
(* the server stops accepting.  The HTTP requests, whose engines dial too,  *)
(* have ended by then.                                                      *)
BeginStop(n) ==
    /\ server[n] = "up"
    /\ server' = [server EXCEPT ![n] = "closing"]
    /\ conn' = [c \in Conn |->
         IF conn[c].from = n /\ conn[c].dial \in {"opening", "greeting"}
         THEN [conn[c] EXCEPT !.dial = "closed", !.up = FALSE] ELSE conn[c]]
    /\ UNCHANGED table

(* ConnectionManager.stop after wait_closed, which since Python 3.12.1      *)
(* waits for the handlers as well: close what the table lists.  The         *)
(* handlers are not told and may register a connection during those closes, *)
(* which the code awaits one by one and this step takes together.           *)
CloseListed(n) ==
    /\ server[n] = "closing"
    /\ server' = [server EXCEPT ![n] = "closed"]
    /\ conn' = [c \in Conn |->
         IF \E m \in Node : table[n][m] = c THEN [conn[c] EXCEPT !.up = FALSE] ELSE conn[c]]
    /\ UNCHANGED table

FinishStop(n) ==
    /\ server[n] = "closed"
    /\ server' = [server EXCEPT ![n] = "down"]
    /\ table' = [table EXCEPT ![n] = [m \in Node |-> NoConn]]
    /\ UNCHANGED conn

-----------------------------------------------------------------------------

DialStep(c) == Open(c) \/ Refused(c) \/ ReadAck(c) \/ NoAck(c)

ServeStep(c) == ReadAuth(c) \/ Reject(c) \/ ReadHello(c) \/ Answered(c) \/ End(c)

Next ==
    \/ \E c \in Conn :
         \/ \E n, m \in Node : StartDial(c, n, m)
         \/ DialStep(c) \/ ServeStep(c) \/ Cut(c)
    \/ \E n \in Node : Restart(n) \/ BeginStop(n) \/ CloseListed(n) \/ FinishStop(n)

Spec == Init /\ [][Next]_vars

(* A coroutine that can go on is run, at either end. *)
FairSpec == Spec /\ \A c \in Conn : WF_vars(DialStep(c)) /\ WF_vars(ServeStep(c))

-----------------------------------------------------------------------------
(* Properties *)

(* Every variable has the type its declaration describes. *)
TypeOK ==
    /\ table \in [Node -> [Node -> Conn \cup {NoConn}]]
    /\ server \in [Node -> {"up", "closing", "closed", "down"}]
    /\ conn \in [Conn -> Connection]

Greeted(c, n, m) ==
    \/ conn[c].from = n /\ conn[c].to = m /\ conn[c].dial = "held"
    \/ conn[c].from = m /\ conn[c].to = n /\ conn[c].serve \in {"answer", "loop"}

(* An entry is a connection with that peer whose handshake was completed at *)
(* this end; an entry of the accepting end has a handler that reads it,     *)
(* whatever handler of the same peer has ended (lines 117, 150, 184).       *)
ListedIsGreeted ==
    \A n, m \in Node : \A c \in Conn : table[n][m] = c => Greeted(c, n, m)

(* A node that lists a connection it dialled, and that holds, is read at    *)
(* the other end: that end ends only on a connection it has lost            *)
(* (lines 131-145, 177-184).                                                *)
DialledIsHeard ==
    \A n, m \in Node : \A c \in Conn :
        table[n][m] = c /\ conn[c].from = n /\ conn[c].up =>
            conn[c].serve \in {"answer", "loop"}

(* What makes the two invariants above inductive: what the acknowledgment,  *)
(* the two ends and the stream of a connection say of each other.           *)
EndsAgree(c) ==
    /\ conn[c].dial \in {"unused", "opening"} =>
         ~conn[c].up /\ ~conn[c].acked /\ ~Serving(c)
    /\ conn[c].dial = "held" => conn[c].acked
    /\ conn[c].acked => conn[c].serve \in {"answer", "loop", "gone"}
    /\ conn[c].up => Serving(c)

TableInv == ListedIsGreeted /\ \A c \in Conn : EndsAgree(c)

(* Every dial ends, although connect_to_peer waits for the acknowledgment   *)
(* without a limit (line 177): the other end answers, closes or is lost.    *)
DialEnds == \A c \in Conn : conn[c].dial = "greeting" ~> conn[c].dial # "greeting"

(* A lost connection leaves the table of the node that accepted it, and     *)
(* with that the connector loop dials again (lines 142-150).                *)
AcceptedIsPruned ==
    \A n, m \in Node : \A c \in Conn :
        table[n][m] = c /\ conn[c].to = n /\ ~conn[c].up
            ~> ~(table[n][m] = c /\ conn[c].to = n /\ ~conn[c].up)
=============================================================================
