---------------------------- MODULE SlidingWindow ----------------------------
(***************************************************************************)
(* SlidingWindowSender of backend/strategies/sliding_window.py: three      *)
(* coroutines on one event loop (send_all, _ack_listener, _sweep_loop)     *)
(* that share the window, one connection to a peer, and the transfers a    *)
(* replication engine makes over that connection one after the other.      *)
(*                                                                         *)
(* self._lock is never held across an await, so each stretch between two   *)
(* awaits is one action.  TCP keeps the order of what it delivers and      *)
(* loses nothing until the connection breaks; from then on an unread       *)
(* message may stay unread for ever.                                       *)
(***************************************************************************)
EXTENDS Integers, Sequences, FiniteSets

CONSTANTS
    NumChunks,   \* chunks of a transfer, self._total
    Window,      \* window_size
    MaxRetries,  \* MAX_RETRIES
    Transfers,   \* calls of send_all over the connection
    Ignores,     \* copies of a chunk the peer does not acknowledge
    Breakable,   \* whether the connection may break
    Sharing      \* whether _handle_client reads it too: the cases looked at

ASSUME WindowAssumption == NumChunks \in Nat \ {0} /\ Window \in Nat \ {0}
ASSUME BoundAssumption ==
    MaxRetries \in Nat /\ Transfers \in Nat \ {0} /\ Ignores \in Nat
ASSUME LinkAssumption == Breakable \in BOOLEAN /\ Sharing \subseteq BOOLEAN

Index == 0 .. NumChunks - 1

(* A STORE_CHUNK or a CHUNK_ACK: the transfer it belongs to is not part of  *)
(* the message the listener looks at, only of what the peer knows.          *)
Message == [transfer : 1 .. Transfers, index : Index]

VARIABLES
    transfer,   \* which call of send_all runs
    main,       \* send_all: before its first write, suspended in drain, in
                \* _done.wait(), or at its end
    sendIdx,    \* _send_idx
    unacked,    \* keys of _unacked
    retries,    \* retries of the UnackedChunk made for each chunk
    acked,      \* _acked
    done,       \* _done.is_set()
    listening,  \* the listener has not ended
    sweep,      \* timed_out chunks the sweep has not visited yet
    wire,       \* chunks on their way to the peer
    acks,       \* acknowledgments on their way back
    broken,     \* the connection is lost
    shared,     \* it is an inbound one, which _handle_client reads as well
    stored,     \* what the peer has stored
    ignored     \* copies of each chunk the peer did not acknowledge

sender == <<transfer, main, sendIdx, unacked, retries, acked, done, listening, sweep>>
link == <<wire, acks, broken, shared, stored, ignored>>
vars == <<transfer, main, sendIdx, unacked, retries, acked, done, listening, sweep,
          wire, acks, broken, shared, stored, ignored>>

Running == main \in {"start", "drain", "waiting"}

Sent == 0 .. (IF main \in {"drain", "raised"} THEN sendIdx ELSE sendIdx - 1)

Init ==
    /\ transfer = 1 /\ main = "start" /\ sendIdx = 0
    /\ unacked = {} /\ retries = [i \in Index |-> 0] /\ acked = {}
    /\ done = FALSE /\ listening = TRUE /\ sweep = {}
    /\ wire = <<>> /\ acks = <<>> /\ broken = FALSE
    /\ shared \in Sharing
    /\ stored = {} /\ ignored = [i \in Index |-> 0]

(* A write to a connection that is lost goes nowhere. *)
Write(i) ==
    wire' = IF broken THEN wire ELSE Append(wire, [transfer |-> transfer, index |-> i])

-----------------------------------------------------------------------------
(* send_all *)

HasRoomForOneMore(i) == i < NumChunks /\ Cardinality(unacked) <= Window
HasRoom(i) == i < NumChunks /\ Cardinality(unacked) < Window

(* _send_chunk up to its drain. *)
SendChunk(i) ==
    /\ unacked' = unacked \cup {i}
    /\ retries' = [retries EXCEPT ![i] = 0]
    /\ Write(i)
    /\ main' = "drain"

Start ==
    /\ main = "start"
    /\ SendChunk(0)
    /\ UNCHANGED <<transfer, sendIdx, acked, done, listening, sweep,
                   acks, broken, shared, stored, ignored>>

(* The chunk is put into _unacked when its send is over instead of before.  *)
DrainedThenTracked ==
    /\ main = "drain"
    /\ sendIdx' = sendIdx + 1 /\ main' = "waiting"
    /\ unacked' = unacked \cup {sendIdx}
    /\ UNCHANGED <<transfer, retries, acked, done, listening, sweep, link>>

(* The drain returns: count the chunk, then send the next one if the window *)
(* has room now.  Once it has none, nobody fills it again.                  *)
Drained ==
    /\ main = "drain"
    /\ sendIdx' = sendIdx + 1
    /\ IF HasRoom(sendIdx + 1)
       THEN SendChunk(sendIdx + 1)
       ELSE main' = "waiting" /\ UNCHANGED <<unacked, retries, wire>>
    /\ UNCHANGED <<transfer, acked, done, listening, sweep,
                   acks, broken, shared, stored, ignored>>

(* The drain raises: send_all does, its `finally' cancels the other two. *)
DrainFails ==
    /\ main = "drain" /\ broken
    /\ main' = "raised" /\ listening' = FALSE /\ sweep' = {}
    /\ UNCHANGED <<transfer, sendIdx, unacked, retries, acked, done, link>>

Return ==
    /\ main = "waiting" /\ done
    /\ main' = "returned" /\ listening' = FALSE /\ sweep' = {}
    /\ UNCHANGED <<transfer, sendIdx, unacked, retries, acked, done, link>>

(* The engine replicates another file over the same connection, with a new  *)
(* sender.                                                                  *)
NextTransfer ==
    /\ ~Running /\ transfer < Transfers
    /\ transfer' = transfer + 1
    /\ main' = "start" /\ sendIdx' = 0
    /\ unacked' = {} /\ retries' = [i \in Index |-> 0] /\ acked' = {}
    /\ done' = FALSE /\ listening' = TRUE /\ sweep' = {}
    /\ ignored' = [i \in Index |-> 0]
    /\ UNCHANGED <<wire, acks, broken, shared, stored>>

-----------------------------------------------------------------------------
(* _ack_listener *)

NothingUnacked(more) == unacked \subseteq more
AllAcked(more) == Cardinality(acked \cup more) >= NumChunks

(* _handle_ack suspends nowhere: the acknowledged chunk leaves the window,  *)
(* and the last one ends the listener and wakes send_all.                   *)
ReceiveAck ==
    /\ listening /\ main # "start" /\ acks # <<>>
    /\ LET i == Head(acks).index
       IN  /\ unacked' = unacked \ {i}
           /\ acked' = acked \cup {i}
           /\ done' = (done \/ AllAcked({i}))
           /\ listening' = ~AllAcked({i})
    /\ acks' = Tail(acks)
    /\ UNCHANGED <<transfer, main, sendIdx, retries, sweep,
                   wire, broken, shared, stored, ignored>>

(* receive() swallows every exception and returns None: at the end of the   *)
(* stream, and when another coroutine is reading the connection already.    *)
ReceiveNothing ==
    /\ listening /\ main # "start" /\ (broken \/ shared)
    /\ done' = TRUE /\ listening' = FALSE
    /\ UNCHANGED <<transfer, main, sendIdx, unacked, retries, acked, sweep, link>>

(* The message loop of _handle_client takes the acknowledgment; the node    *)
(* only logs it.                                                            *)
OtherReaderTakesAck ==
    /\ shared /\ acks # <<>>
    /\ acks' = Tail(acks)
    /\ UNCHANGED <<sender, wire, broken, shared, stored, ignored>>

-----------------------------------------------------------------------------
(* _sweep_loop *)

(* Every two seconds: the chunks unacknowledged for three seconds or more.  *)
SweepCollects(i) ==
    /\ main \in {"drain", "waiting"} /\ sweep = {}
    /\ sweep' \in SUBSET unacked /\ i \in sweep'
    /\ UNCHANGED <<transfer, main, sendIdx, unacked, retries, acked, done, listening, link>>

GivesUpLate(i) == retries[i] > MaxRetries
GivesUpEarly(i) == retries[i] + 1 >= MaxRetries
GivesUp(i) == retries[i] >= MaxRetries

(* Visit the next chunk of that list, in the order they were sent, whether  *)
(* or not it has been acknowledged since.                                   *)
SweepVisits(i) ==
    /\ i \in sweep /\ \A j \in sweep : i <= j
    /\ sweep' = sweep \ {i}
    /\ IF GivesUp(i)
       THEN UNCHANGED <<retries, wire>>
       ELSE retries' = [retries EXCEPT ![i] = @ + 1] /\ Write(i)
    /\ UNCHANGED <<transfer, main, sendIdx, unacked, acked, done, listening,
                   acks, broken, shared, stored, ignored>>

-----------------------------------------------------------------------------
(* The peer and the connection, external to this code *)

(* The peer that the sender is written for: it stores a chunk and says so.  *)
(* The node of this repository only logs a STORE_CHUNK (node.py:41).        *)
PeerAcks ==
    /\ wire # <<>>
    /\ wire' = Tail(wire)
    /\ stored' = stored \cup {Head(wire)}
    /\ acks' = Append(acks, Head(wire))
    /\ UNCHANGED <<sender, broken, shared, ignored>>

(* A copy of a chunk that the peer cannot store, or stores and does not     *)
(* acknowledge.                                                             *)
PeerIgnores ==
    /\ wire # <<>>
    /\ LET i == Head(wire).index
       IN  /\ ignored[i] < Ignores
           /\ ignored' = [ignored EXCEPT ![i] = @ + 1]
    /\ wire' = Tail(wire)
    /\ stored' \in {stored, stored \cup {Head(wire)}}
    /\ UNCHANGED <<sender, acks, broken, shared>>

Break ==
    /\ Breakable /\ ~broken
    /\ broken' = TRUE
    /\ UNCHANGED <<sender, wire, acks, shared, stored, ignored>>

-----------------------------------------------------------------------------

SenderStep == Start \/ Drained \/ DrainFails \/ Return

ListenerStep == ReceiveAck \/ ReceiveNothing

SweepStep == \E i \in Index : SweepCollects(i) \/ SweepVisits(i)

PeerStep == PeerAcks \/ PeerIgnores

Next ==
    \/ SenderStep \/ NextTransfer
    \/ ListenerStep \/ OtherReaderTakesAck
    \/ SweepStep
    \/ PeerStep \/ Break

Spec == Init /\ [][Next]_vars

(* A coroutine that can go on is run by the event loop; a chunk that stays  *)
(* unacknowledged times out (for each chunk: the timestamps are its own);   *)
(* the peer reads what it is sent.                                          *)
FairSpec ==
    /\ Spec
    /\ WF_vars(SenderStep) /\ WF_vars(ListenerStep) /\ WF_vars(PeerStep)
    /\ \A i \in Index : SF_vars(SweepCollects(i)) /\ WF_vars(SweepVisits(i))

-----------------------------------------------------------------------------
(* Properties *)

(* Every variable has the type its declaration describes. *)
TypeOK ==
    /\ transfer \in 1 .. Transfers
    /\ main \in {"start", "drain", "waiting", "returned", "raised"}
    /\ sendIdx \in 0 .. NumChunks
    /\ unacked \subseteq Index /\ acked \subseteq Index /\ sweep \subseteq Index
    /\ retries \in [Index -> 0 .. MaxRetries]
    /\ done \in BOOLEAN /\ listening \in BOOLEAN /\ broken \in BOOLEAN
    /\ shared \in Sharing
    /\ wire \in Seq(Message) /\ acks \in Seq(Message)
    /\ stored \subseteq Message
    /\ ignored \in [Index -> 0 .. Ignores]

(* No more than window_size chunks are in flight, whatever acknowledgments  *)
(* arrive while a send is suspended in its drain (lines 7, 96).             *)
WindowBound == Cardinality(unacked) <= Window

(* Every chunk sent is acknowledged or still in the window, where the sweep *)
(* finds it: no acknowledgment that overtakes the end of its own send       *)
(* (lines 139-142, 167-170) drops a chunk from both, and none stays in      *)
(* both.                                                                    *)
SentIsTracked == Sent = unacked \cup acked /\ unacked \cap acked = {}

(* send_all counts what the peer has, and ends because every chunk is       *)
(* counted or because it cannot hear the peer: the connection is lost, or   *)
(* another coroutine reads it (lines 101-102, 149-153).                     *)
Transfer ==
    INSTANCE ReliableTransfer WITH
        delivered <- {m.index : m \in stored},
        confirmed <- acked,
        unheard <- broken \/ shared,
        outcome <- IF Running THEN "running"
                   ELSE IF main = "returned" /\ acked = Index THEN "complete"
                   ELSE "abandoned"

ImplementsTransfer == Transfer!TransferSpec

(* Each transfer that fits the window, over a connection of its own that    *)
(* holds, ends with every chunk acknowledged unless some chunk runs out of  *)
(* retries: the sweep retransmits what is missing as often as it may        *)
(* (lines 198-226), whatever the peer ignores.                              *)
EndsOrGivesUp ==
    \/ Running ~> (main = "returned" /\ acked = Index)
    \/ <>[](\E i \in unacked : retries[i] = MaxRetries)

(* "As ACKs arrive, the window slides forward to send the next chunk"       *)
(* (line 10).                                                               *)
EverythingIsSent == <>(sendIdx = NumChunks)
=============================================================================
