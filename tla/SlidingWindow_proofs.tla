------------------------ MODULE SlidingWindow_proofs ------------------------
(***************************************************************************)
(* Proofs about SlidingWindow, for every value of its constants: the       *)
(* types, the bound on the window, and, for the one transfer of a          *)
(* connection, that the sender implements ReliableTransfer.                *)
(***************************************************************************)
EXTENDS SlidingWindow, FiniteSetTheorems, SequenceTheorems, TLAPS

(* The send in progress is of a chunk of the file. *)
SendsAChunk ==
    /\ main \in {"drain", "raised"} => sendIdx < NumChunks
    /\ main = "start" => sendIdx = 0

TypeInv == TypeOK /\ SendsAChunk

(* What writing a chunk and reading an acknowledgment do to the channels. *)
LEMMA WriteTyped ==
    ASSUME TypeOK, NEW i \in Index, Write(i)
    PROVE  wire' \in Seq(Message)
<1>1. [transfer |-> transfer, index |-> i] \in Message
  BY DEF TypeOK, Message
<1>2. wire \in Seq(Message)
  BY DEF TypeOK
<1>3. QED
  BY <1>1, <1>2 DEF Write

LEMMA HeadAndTail ==
    ASSUME NEW S, NEW s \in Seq(S), s # <<>>
    PROVE  Head(s) \in S /\ Tail(s) \in Seq(S)
  OBVIOUS

LEMMA AppendTyped ==
    ASSUME NEW S, NEW s \in Seq(S), NEW e \in S
    PROVE  Append(s, e) \in Seq(S)
  OBVIOUS

LEMMA SenderTypeInv ==
    ASSUME TypeInv, SenderStep
    PROVE  TypeInv'
<1> USE WindowAssumption, BoundAssumption DEF TypeInv, Index
<1>1. CASE Start
  <2>1. wire' \in Seq(Message)
    BY <1>1, WriteTyped DEF Start, SendChunk
  <2>2. QED
    BY <1>1, <2>1 DEF Start, SendChunk, TypeOK, SendsAChunk
<1>2. CASE Drained
  <2>1. CASE HasRoom(sendIdx + 1)
    <3>1. sendIdx + 1 \in Index
      BY <2>1 DEF HasRoom, TypeOK
    <3>2. SendChunk(sendIdx + 1) /\ sendIdx' = sendIdx + 1
      BY <1>2, <2>1 DEF Drained
    <3>3. wire' \in Seq(Message)
      BY <3>1, <3>2, WriteTyped DEF SendChunk
    <3>4. retries' \in [Index -> 0 .. MaxRetries] /\ unacked' \subseteq Index
      BY <3>1, <3>2 DEF SendChunk, TypeOK
    <3>5. sendIdx' \in 0 .. NumChunks /\ sendIdx' < NumChunks
      BY <3>1, <3>2
    <3>6. main' = "drain"
      BY <3>2 DEF SendChunk
    <3>7. UNCHANGED <<transfer, acked, done, listening, sweep,
                      acks, broken, shared, stored, ignored>>
      BY <1>2 DEF Drained
    <3>8. QED
      BY <3>3, <3>4, <3>5, <3>6, <3>7 DEF TypeOK, SendsAChunk
  <2>2. CASE ~HasRoom(sendIdx + 1)
    <3>1. sendIdx' \in 0 .. NumChunks
      BY <1>2 DEF Drained, TypeOK, SendsAChunk
    <3>2. main' = "waiting"
      BY <1>2, <2>2 DEF Drained
    <3>3. UNCHANGED <<transfer, unacked, retries, acked, done, listening, sweep,
                      wire, acks, broken, shared, stored, ignored>>
      BY <1>2, <2>2 DEF Drained
    <3>4. QED
      BY <3>1, <3>2, <3>3 DEF TypeOK, SendsAChunk
  <2>3. QED
    BY <2>1, <2>2
<1>3. CASE DrainFails
  BY <1>3 DEF DrainFails, TypeOK, SendsAChunk, link
<1>4. CASE Return
  BY <1>4 DEF Return, TypeOK, SendsAChunk, link
<1>5. QED
  BY <1>1, <1>2, <1>3, <1>4 DEF SenderStep

LEMMA NextTypeInv ==
    ASSUME TypeInv, [Next]_vars
    PROVE  TypeInv'
<1> USE WindowAssumption, BoundAssumption DEF TypeInv
<1>1. CASE SenderStep
  BY <1>1, SenderTypeInv
<1>2. CASE NextTransfer
  <2>1. transfer' \in 1 .. Transfers
    BY <1>2 DEF NextTransfer, TypeOK
  <2>2. /\ retries' \in [Index -> 0 .. MaxRetries]
        /\ ignored' \in [Index -> 0 .. Ignores]
    BY <1>2 DEF NextTransfer
  <2>3. sendIdx' = 0 /\ sendIdx' \in 0 .. NumChunks /\ main' = "start"
    BY <1>2 DEF NextTransfer
  <2>4. /\ unacked' = {} /\ acked' = {} /\ sweep' = {}
        /\ done' = FALSE /\ listening' = TRUE
        /\ UNCHANGED <<wire, acks, broken, shared, stored>>
    BY <1>2 DEF NextTransfer
  <2>5. QED
    BY <2>1, <2>2, <2>3, <2>4 DEF TypeOK, SendsAChunk
<1>3. CASE ReceiveAck
  <2>1. Head(acks) \in Message /\ Tail(acks) \in Seq(Message)
    BY <1>3, HeadAndTail DEF ReceiveAck, TypeOK
  <2>2. Head(acks).index \in Index
    BY <2>1 DEF Message
  <2>3. QED
    BY <1>3, <2>1, <2>2 DEF ReceiveAck, TypeOK, SendsAChunk
<1>4. CASE ReceiveNothing
  BY <1>4 DEF ReceiveNothing, TypeOK, SendsAChunk, link
<1>5. CASE OtherReaderTakesAck
  <2>1. Tail(acks) \in Seq(Message)
    BY <1>5, HeadAndTail DEF OtherReaderTakesAck, TypeOK
  <2>2. QED
    BY <1>5, <2>1 DEF OtherReaderTakesAck, TypeOK, SendsAChunk, sender
<1>6. CASE SweepStep
  <2>1. CASE \E i \in Index : SweepCollects(i)
    BY <2>1 DEF SweepCollects, TypeOK, SendsAChunk, link
  <2>2. ASSUME NEW i \in Index, SweepVisits(i)
        PROVE  TypeInv'
    <3>1. CASE GivesUp(i)
      BY <2>2, <3>1 DEF SweepVisits, TypeOK, SendsAChunk
    <3>2. CASE ~GivesUp(i)
      <4>1. wire' \in Seq(Message)
        BY <2>2, <3>2, WriteTyped DEF SweepVisits
      <4>2. retries[i] + 1 \in 0 .. MaxRetries
        BY <3>2 DEF GivesUp, TypeOK
      <4>3. QED
        BY <2>2, <3>2, <4>1, <4>2 DEF SweepVisits, TypeOK, SendsAChunk
    <3>3. QED
      BY <3>1, <3>2
  <2>3. QED
    BY <1>6, <2>1, <2>2 DEF SweepStep
<1>7. CASE PeerAcks
  <2>1. Head(wire) \in Message /\ Tail(wire) \in Seq(Message)
    BY <1>7, HeadAndTail DEF PeerAcks, TypeOK
  <2>2. Append(acks, Head(wire)) \in Seq(Message)
    BY <2>1, AppendTyped DEF TypeOK
  <2>3. QED
    BY <1>7, <2>1, <2>2 DEF PeerAcks, TypeOK, SendsAChunk, sender
<1>8. CASE PeerIgnores
  <2>1. Head(wire) \in Message /\ Tail(wire) \in Seq(Message)
    BY <1>8, HeadAndTail DEF PeerIgnores, TypeOK
  <2>2. Head(wire).index \in Index
    BY <2>1 DEF Message
  <2>3. ignored' \in [Index -> 0 .. Ignores]
    BY <1>8, <2>2 DEF PeerIgnores, TypeOK
  <2>4. stored' \subseteq Message
    BY <1>8, <2>1 DEF PeerIgnores, TypeOK
  <2>5. QED
    BY <1>8, <2>1, <2>3, <2>4 DEF PeerIgnores, TypeOK, SendsAChunk, sender
<1>9. CASE Break
  BY <1>9 DEF Break, TypeOK, SendsAChunk, sender
<1>10. CASE UNCHANGED vars
  BY <1>10 DEF vars, TypeOK, SendsAChunk
<1>11. QED
  BY <1>1, <1>2, <1>3, <1>4, <1>5, <1>6, <1>7, <1>8, <1>9, <1>10
     DEF Next, ListenerStep, PeerStep

LEMMA InitTypeInv == Init => TypeInv
  BY WindowAssumption, BoundAssumption
     DEF Init, TypeInv, TypeOK, SendsAChunk, Index

(* The variables keep their types in every behaviour of the sender, its     *)
(* peer and their connection.                                               *)
THEOREM TypeCorrect == Spec => []TypeOK
<1>1. Init => TypeInv
  BY InitTypeInv
<1>2. TypeInv /\ [Next]_vars => TypeInv'
  BY NextTypeInv
<1>3. TypeInv => TypeOK
  BY DEF TypeInv
<1>4. QED
  BY <1>1, <1>2, <1>3, PTL DEF Spec

-----------------------------------------------------------------------------
(* The window *)

LEMMA IndexFinite ==
    IsFiniteSet(Index) /\ Cardinality(Index) = NumChunks
<1>1. 0 \in Int /\ NumChunks - 1 \in Int /\ ~(0 > NumChunks - 1)
  BY WindowAssumption
<1>2. QED
  BY <1>1, FS_Interval, WindowAssumption DEF Index

LEMMA WindowFinite ==
    ASSUME TypeOK
    PROVE  IsFiniteSet(unacked) /\ Cardinality(unacked) \in Nat
  BY IndexFinite, FS_Subset, FS_CardinalityType DEF TypeOK

(* A send adds one chunk where there was room for one. *)
LEMMA SendKeepsBound ==
    ASSUME TypeOK, NEW i, SendChunk(i), Cardinality(unacked) < Window
    PROVE  Cardinality(unacked') <= Window
<1>1. unacked' = unacked \cup {i}
  BY DEF SendChunk
<1>2. Cardinality(unacked \cup {i}) <= Cardinality(unacked) + 1
  BY WindowFinite, FS_AddElement
<1>3. QED
  BY <1>1, <1>2, WindowFinite, WindowAssumption,
     FS_AddElement, FS_CardinalityType

(* At most Window chunks are in flight at any time, also while other        *)
(* coroutines run inside a drain.                                           *)
EmptyBeforeStart == main = "start" => unacked = {}

BoundInv == TypeInv /\ EmptyBeforeStart /\ WindowBound

LEMMA NextBoundInv ==
    ASSUME BoundInv, [Next]_vars
    PROVE  BoundInv'
<1> USE DEF BoundInv
<1>1. TypeInv' /\ TypeOK
  BY NextTypeInv DEF TypeInv
<1>2. CASE Start
  <2>1. Cardinality(unacked) < Window
    BY <1>2, FS_EmptySet, WindowAssumption DEF Start, EmptyBeforeStart
  <2>2. QED
    BY <1>1, <1>2, <2>1, SendKeepsBound
       DEF Start, SendChunk, EmptyBeforeStart, WindowBound
<1>3. CASE Drained
  <2>1. CASE HasRoom(sendIdx + 1)
    BY <1>1, <1>3, <2>1, SendKeepsBound
       DEF Drained, SendChunk, HasRoom, EmptyBeforeStart, WindowBound
  <2>2. CASE ~HasRoom(sendIdx + 1)
    BY <1>1, <1>3, <2>2 DEF Drained, EmptyBeforeStart, WindowBound
  <2>3. QED
    BY <2>1, <2>2
<1>4. CASE ReceiveAck
  <2>1. unacked' \in SUBSET unacked
    BY <1>4 DEF ReceiveAck
  <2>2. Cardinality(unacked') <= Cardinality(unacked) /\ Cardinality(unacked') \in Nat
    BY <1>1, <2>1, WindowFinite, FS_Subset, FS_CardinalityType
  <2>3. QED
    BY <1>1, <1>4, <2>2, WindowFinite, WindowAssumption
       DEF ReceiveAck, EmptyBeforeStart, WindowBound
<1>5. CASE NextTransfer
  BY <1>1, <1>5, FS_EmptySet, WindowAssumption
     DEF NextTransfer, EmptyBeforeStart, WindowBound
<1>6. CASE UNCHANGED <<main, unacked>>
  BY <1>1, <1>6 DEF EmptyBeforeStart, WindowBound
<1>7. CASE DrainFails \/ Return
  BY <1>1, <1>7 DEF DrainFails, Return, EmptyBeforeStart, WindowBound
<1>8. QED
  BY <1>2, <1>3, <1>4, <1>5, <1>6, <1>7
     DEF Next, SenderStep, ListenerStep, ReceiveNothing, OtherReaderTakesAck,
         SweepStep, SweepCollects, SweepVisits, PeerStep, PeerAcks, PeerIgnores,
         Break, sender, vars

(* At most window_size chunks are unacknowledged in every state, however    *)
(* acknowledgments interleave with sends (lines 7 and 96).                  *)
THEOREM Bounded == Spec => []WindowBound
<1>1. Init => BoundInv
  <2>1. Init => TypeInv
    BY InitTypeInv
  <2>2. Init => EmptyBeforeStart /\ WindowBound
    BY FS_EmptySet, WindowAssumption DEF Init, EmptyBeforeStart, WindowBound
  <2>3. QED
    BY <2>1, <2>2 DEF BoundInv
<1>2. BoundInv /\ [Next]_vars => BoundInv'
  BY NextBoundInv
<1>3. BoundInv => WindowBound
  BY DEF BoundInv
<1>4. QED
  BY <1>1, <1>2, <1>3, PTL DEF Spec

-----------------------------------------------------------------------------
(* One transfer: what was sent is tracked *)

SentMessages == {m \in Message : m.index \in Sent}

(* Whatever travels, or is about to be sent again, was sent before. *)
TravelsIfSent ==
    /\ wire \in Seq(SentMessages) /\ acks \in Seq(SentMessages)
    /\ sweep \subseteq Sent

TrackInv == TypeInv /\ SentIsTracked /\ TravelsIfSent

(* While the chunks sent only grow, what was sent before stays so. *)
LEMMA SentGrows ==
    ASSUME TravelsIfSent, Sent \subseteq Sent'
    PROVE  /\ wire \in Seq(SentMessages') /\ acks \in Seq(SentMessages')
           /\ sweep \subseteq Sent'
<1>1. SentMessages \subseteq SentMessages'
  BY DEF SentMessages
<1>2. QED
  BY <1>1, SeqMonotonic DEF TravelsIfSent

LEMMA SendTravels ==
    ASSUME TypeOK, TravelsIfSent, Sent \subseteq Sent', NEW i \in Index, i \in Sent',
           Write(i), UNCHANGED acks, sweep' \subseteq Sent'
    PROVE  TravelsIfSent'
<1>1. wire \in Seq(SentMessages') /\ acks \in Seq(SentMessages')
  BY SentGrows
<1>2. [transfer |-> transfer, index |-> i] \in SentMessages'
  BY DEF TypeOK, Message, SentMessages
<1>3. wire' \in Seq(SentMessages')
  BY <1>1, <1>2, AppendTyped DEF Write
<1>4. QED
  BY <1>1, <1>3 DEF TravelsIfSent

LEMMA SenderKeepsTrack ==
    ASSUME TrackInv, SenderStep
    PROVE  SentIsTracked' /\ TravelsIfSent'
<1> USE DEF TrackInv
<1>1. TypeOK /\ SendsAChunk /\ sendIdx \in Int /\ 0 \in Index
  BY WindowAssumption DEF TypeInv, TypeOK, Index
<1>2. CASE Start
  <2>1. main = "start" /\ sendIdx = 0 /\ Sent = {} /\ Sent' = {0}
    BY <1>1, <1>2 DEF Start, SendChunk, Sent, SendsAChunk
  <2>2. unacked' = {0} /\ acked' = {}
    BY <1>2, <2>1 DEF Start, SendChunk, SentIsTracked
  <2>3. TravelsIfSent'
    BY <1>1, <1>2, <2>1, SendTravels DEF Start, SendChunk, TravelsIfSent
  <2>4. QED
    BY <2>1, <2>2, <2>3 DEF SentIsTracked
<1>3. CASE Drained
  <2>1. main = "drain" /\ sendIdx' = sendIdx + 1 /\ Sent = 0 .. sendIdx
    BY <1>3 DEF Drained, Sent
  <2>2. UNCHANGED <<acked, acks, sweep>>
    BY <1>3 DEF Drained
  <2>3. CASE HasRoom(sendIdx + 1)
    <3>0. sendIdx \in Nat /\ sendIdx + 1 < NumChunks
      BY <1>1, <2>3, WindowAssumption DEF HasRoom, TypeOK
    <3>1. SendChunk(sendIdx + 1) /\ sendIdx + 1 \in Index
      BY <1>3, <2>3, <3>0, WindowAssumption DEF Drained, Index
    <3>2. Sent' = Sent \cup {sendIdx + 1} /\ sendIdx + 1 \notin Sent
      BY <1>1, <2>1, <3>1 DEF SendChunk, Sent, TypeOK
    <3>3. unacked' = unacked \cup {sendIdx + 1}
      BY <3>1 DEF SendChunk
    <3>4. TravelsIfSent'
      BY <1>1, <2>2, <3>1, <3>2, SendTravels DEF SendChunk, TravelsIfSent
    <3>5. QED
      BY <2>2, <3>2, <3>3, <3>4 DEF SentIsTracked
  <2>4. CASE ~HasRoom(sendIdx + 1)
    <3>1. main' = "waiting" /\ UNCHANGED <<unacked, wire>>
      BY <1>3, <2>4 DEF Drained
    <3>2. Sent' = Sent
      BY <1>1, <2>1, <3>1 DEF Sent
    <3>3. TravelsIfSent'
      BY <2>2, <3>1, <3>2, SentGrows DEF TravelsIfSent
    <3>4. QED
      BY <2>2, <3>1, <3>2, <3>3 DEF SentIsTracked
  <2>5. QED
    BY <2>3, <2>4
<1>4. CASE DrainFails \/ Return
  <2>1. Sent' = Sent /\ UNCHANGED <<unacked, acked, wire, acks>> /\ sweep' = {}
    BY <1>4 DEF DrainFails, Return, Sent, link
  <2>2. QED
    BY <2>1, SentGrows DEF SentIsTracked, TravelsIfSent
<1>5. QED
  BY <1>2, <1>3, <1>4 DEF SenderStep

LEMMA ReceiveKeepsTrack ==
    ASSUME TrackInv, ReceiveAck
    PROVE  SentIsTracked' /\ TravelsIfSent'
<1> USE DEF TrackInv
<1>1. Head(acks) \in SentMessages /\ Tail(acks) \in Seq(SentMessages)
  BY HeadAndTail DEF ReceiveAck, TravelsIfSent
<1>2. Sent' = Sent /\ SentMessages' = SentMessages
  BY DEF ReceiveAck, Sent, SentMessages
<1>3. Head(acks).index \in Sent
  BY <1>1 DEF SentMessages
<1>4. SentIsTracked'
  BY <1>2, <1>3 DEF ReceiveAck, SentIsTracked
<1>5. QED
  BY <1>1, <1>2, <1>4 DEF ReceiveAck, TravelsIfSent

LEMMA PeerKeepsTrack ==
    ASSUME TrackInv, PeerStep
    PROVE  SentIsTracked' /\ TravelsIfSent'
<1> USE DEF TrackInv
<1>1. Head(wire) \in SentMessages /\ Tail(wire) \in Seq(SentMessages)
  BY HeadAndTail DEF PeerStep, PeerAcks, PeerIgnores, TravelsIfSent
<1>2. /\ Sent' = Sent /\ SentMessages' = SentMessages
      /\ UNCHANGED <<unacked, acked, sweep>> /\ wire' = Tail(wire)
  BY DEF PeerStep, PeerAcks, PeerIgnores, sender, Sent, SentMessages
<1>3. acks' = acks \/ acks' = Append(acks, Head(wire))
  BY DEF PeerStep, PeerAcks, PeerIgnores
<1>4. acks' \in Seq(SentMessages)
  BY <1>1, <1>3, AppendTyped DEF TravelsIfSent
<1>5. QED
  BY <1>1, <1>2, <1>4 DEF SentIsTracked, TravelsIfSent

LEMMA SweepKeepsTrack ==
    ASSUME TrackInv, SweepStep
    PROVE  SentIsTracked' /\ TravelsIfSent'
<1> USE DEF TrackInv
<1>1. Sent' = Sent /\ SentMessages' = SentMessages /\ UNCHANGED <<unacked, acked, acks>>
  BY DEF SweepStep, SweepCollects, SweepVisits, Sent, SentMessages, link
<1>2. CASE \E i \in Index : SweepCollects(i)
  BY <1>1, <1>2 DEF SweepCollects, SentIsTracked, TravelsIfSent, link
<1>3. ASSUME NEW i \in Index, SweepVisits(i)
      PROVE  SentIsTracked' /\ TravelsIfSent'
  <2>1. i \in Sent /\ sweep' \subseteq Sent
    BY <1>3 DEF SweepVisits, TravelsIfSent
  <2>2. UNCHANGED wire \/ Write(i)
    BY <1>3 DEF SweepVisits
  <2>3. TravelsIfSent'
    BY <1>1, <2>1, <2>2, SendTravels DEF TravelsIfSent, TypeInv
  <2>4. QED
    BY <1>1, <2>3 DEF SentIsTracked
<1>4. QED
  BY <1>2, <1>3 DEF SweepStep

LEMMA NextTrackInv ==
    ASSUME Transfers = 1, TrackInv, [Next]_vars
    PROVE  TrackInv'
<1>1. TypeInv'
  BY NextTypeInv DEF TrackInv
<1>2. ~NextTransfer
  BY DEF NextTransfer, TrackInv, TypeInv, TypeOK
<1>3. CASE ReceiveNothing \/ OtherReaderTakesAck \/ Break \/ UNCHANGED vars
  <2>1. /\ Sent' = Sent /\ SentMessages' = SentMessages
        /\ UNCHANGED <<unacked, acked, sweep, wire>>
    BY <1>3 DEF ReceiveNothing, OtherReaderTakesAck, Break, vars, sender, link,
                Sent, SentMessages
  <2>2. acks' = acks \/ (acks # <<>> /\ acks' = Tail(acks))
    BY <1>3 DEF ReceiveNothing, OtherReaderTakesAck, Break, vars, link
  <2>3. acks' \in Seq(SentMessages)
    BY <2>2, HeadAndTail DEF TrackInv, TravelsIfSent
  <2>4. QED
    BY <1>1, <2>1, <2>3 DEF TrackInv, SentIsTracked, TravelsIfSent
<1>4. QED
  BY <1>1, <1>2, <1>3, SenderKeepsTrack, ReceiveKeepsTrack, PeerKeepsTrack,
     SweepKeepsTrack DEF Next, ListenerStep, TrackInv

(* In the one transfer of a connection every chunk sent is either counted   *)
(* as acknowledged or in the window, where the sweep finds it               *)
(* (lines 139-142, 167-170).                                                *)
THEOREM Tracked ==
    ASSUME Transfers = 1
    PROVE  Spec => []SentIsTracked
<1>1. Init => TrackInv
  <2>1. Init => TypeInv
    BY InitTypeInv
  <2>2. Init => Sent = {}
    BY DEF Init, Sent
  <2>3. Init => SentIsTracked /\ TravelsIfSent
    BY <2>2, EmptySeq DEF Init, SentIsTracked, TravelsIfSent
  <2>4. QED
    BY <2>1, <2>3 DEF TrackInv
<1>2. TrackInv /\ [Next]_vars => TrackInv'
  BY NextTrackInv
<1>3. TrackInv => SentIsTracked
  BY DEF TrackInv
<1>4. QED
  BY <1>1, <1>2, <1>3, PTL DEF Spec

-----------------------------------------------------------------------------
(* One transfer: the promise is kept *)

(* The listener reads only acknowledgments of chunks the peer has.          *)
AcksStored == acks \in Seq(stored)

(* Once send_all has ended nobody touches what it counted, and it is told   *)
(* to end only by the last acknowledgment or by a read that fails.          *)
EndsRightly ==
    /\ ~Running => ~listening
    /\ done => broken \/ shared \/ acked = Index

PromiseInv == TypeInv /\ AcksStored /\ EndsRightly

LEMMA AllAckedMeansAll ==
    ASSUME TypeOK, NEW i \in Index, AllAcked({i})
    PROVE  acked \cup {i} = Index
<1>1. acked \cup {i} \in SUBSET Index
  BY DEF TypeOK
<1>2. /\ Cardinality(acked \cup {i}) <= Cardinality(Index)
      /\ Cardinality(Index) = Cardinality(acked \cup {i}) => Index = acked \cup {i}
      /\ Cardinality(acked \cup {i}) \in Nat
  BY <1>1, IndexFinite, FS_Subset, FS_CardinalityType
<1>3. Cardinality(acked \cup {i}) = NumChunks
  BY <1>2, IndexFinite, WindowAssumption DEF AllAcked
<1>4. QED
  BY <1>2, <1>3, IndexFinite

LEMMA NextPromiseInv ==
    ASSUME Transfers = 1, PromiseInv, [Next]_vars
    PROVE  PromiseInv'
<1> USE DEF PromiseInv
<1>1. TypeInv' /\ TypeOK
  BY NextTypeInv DEF TypeInv
<1>2. ~NextTransfer
  BY <1>1 DEF NextTransfer, TypeOK
<1>3. CASE SenderStep
  <2>1. UNCHANGED <<acks, stored, acked, done, broken, shared>>
    BY <1>3 DEF SenderStep, Start, Drained, DrainFails, Return, link
  <2>2. ~Running' => ~listening'
    BY <1>3 DEF SenderStep, Start, Drained, DrainFails, Return, SendChunk, Running
  <2>3. QED
    BY <1>1, <2>1, <2>2 DEF AcksStored, EndsRightly
<1>4. CASE ReceiveAck
  <2>1. Head(acks) \in stored /\ Tail(acks) \in Seq(stored)
    BY <1>4, HeadAndTail DEF ReceiveAck, AcksStored
  <2>2. Head(acks).index \in Index
    BY <1>1, <2>1 DEF TypeOK, Message
  <2>3. AllAcked({Head(acks).index}) => acked' = Index
    BY <1>1, <1>4, <2>2, AllAckedMeansAll DEF ReceiveAck
  <2>4. acked = Index => acked' = Index
    BY <1>4, <2>2 DEF ReceiveAck
  <2>5. EndsRightly'
    BY <1>4, <2>3, <2>4 DEF ReceiveAck, EndsRightly, Running
  <2>6. QED
    BY <1>1, <1>4, <2>1, <2>5 DEF ReceiveAck, AcksStored
<1>5. CASE ReceiveNothing
  BY <1>1, <1>5 DEF ReceiveNothing, AcksStored, EndsRightly, Running, link
<1>6. CASE SweepStep
  BY <1>1, <1>6 DEF SweepStep, SweepCollects, SweepVisits, AcksStored, EndsRightly,
                    Running, link
<1>7. CASE PeerStep
  <2>1. wire # <<>> /\ stored \subseteq stored'
    BY <1>7 DEF PeerStep, PeerAcks, PeerIgnores
  <2>2. acks \in Seq(stored')
    BY <2>1, SeqMonotonic DEF AcksStored
  <2>3. acks' \in Seq(stored')
    <3>1. CASE PeerAcks
      BY <2>2, <3>1, AppendTyped DEF PeerAcks
    <3>2. CASE PeerIgnores
      BY <2>2, <3>2 DEF PeerIgnores
    <3>3. QED
      BY <1>7, <3>1, <3>2 DEF PeerStep
  <2>4. EndsRightly'
    BY <1>7 DEF PeerStep, PeerAcks, PeerIgnores, sender, EndsRightly, Running
  <2>5. QED
    BY <1>1, <2>3, <2>4 DEF AcksStored
<1>8. CASE Break
  BY <1>1, <1>8 DEF Break, AcksStored, EndsRightly, Running, sender
<1>9. CASE UNCHANGED vars
  BY <1>1, <1>9 DEF vars, AcksStored, EndsRightly, Running
<1>10. CASE OtherReaderTakesAck
  <2>1. Tail(acks) \in Seq(stored)
    BY <1>10, HeadAndTail DEF OtherReaderTakesAck, AcksStored
  <2>2. QED
    BY <1>1, <1>10, <2>1 DEF OtherReaderTakesAck, AcksStored, EndsRightly, Running,
                            sender
<1>11. QED
  BY <1>2, <1>3, <1>4, <1>5, <1>6, <1>7, <1>8, <1>9, <1>10 DEF Next, ListenerStep

LEMMA InitPromiseInv == Init => PromiseInv
<1>1. Init => TypeInv
  BY InitTypeInv
<1>2. Init => AcksStored /\ EndsRightly
  BY EmptySeq DEF Init, AcksStored, EndsRightly, Running
<1>3. QED
  BY <1>1, <1>2 DEF PromiseInv

(* The end of send_all is the end the abstract transfer allows: complete    *)
(* with everything confirmed, or abandoned where the peer is not heard.     *)
LEMMA EndRefines ==
    ASSUME PromiseInv, DrainFails \/ Return
    PROVE  Transfer!Complete \/ Transfer!Abandon
<1>1. UNCHANGED <<stored, acked, broken, shared>>
  BY DEF DrainFails, Return, link
<1>2. Running /\ ~Running'
  BY DEF DrainFails, Return, Running
<1>3. CASE DrainFails
  BY <1>1, <1>2, <1>3 DEF DrainFails, Transfer!Abandon
<1>4. CASE Return /\ acked = Index
  BY <1>1, <1>2, <1>4 DEF Return, Transfer!Complete
<1>5. CASE Return /\ acked # Index
  <2>1. broken \/ shared
    BY <1>5 DEF Return, PromiseInv, EndsRightly
  <2>2. QED
    BY <1>1, <1>2, <1>5, <2>1 DEF Return, Transfer!Abandon
<1>6. QED
  BY <1>3, <1>4, <1>5

LEMMA ReceiveRefines ==
    ASSUME PromiseInv, ReceiveAck
    PROVE  \E i \in Index : Transfer!Confirm(i)
<1>1. Head(acks) \in stored
  BY HeadAndTail DEF ReceiveAck, PromiseInv, AcksStored
<1>2. Head(acks).index \in Index
  BY <1>1 DEF PromiseInv, TypeInv, TypeOK, Message
<1>3. Running /\ Running'
  BY DEF ReceiveAck, PromiseInv, EndsRightly, Running
<1>4. Transfer!Confirm(Head(acks).index)
  BY <1>1, <1>3 DEF ReceiveAck, Transfer!Confirm
<1>5. QED
  BY <1>2, <1>4

LEMMA PeerRefines ==
    ASSUME PromiseInv, PeerStep
    PROVE  (\E i \in Index : Transfer!Deliver(i)) \/ UNCHANGED Transfer!tvars
<1>1. Head(wire) \in Message
  BY HeadAndTail DEF PeerStep, PeerAcks, PeerIgnores, PromiseInv, TypeInv, TypeOK
<1>2. Head(wire).index \in Index
  BY <1>1 DEF Message
<1>3. UNCHANGED <<main, acked, broken, shared>> /\ (Running' <=> Running)
  BY DEF PeerStep, PeerAcks, PeerIgnores, sender, Running
<1>4. CASE stored' = stored
  BY <1>3, <1>4 DEF Transfer!tvars
<1>5. CASE stored' = stored \cup {Head(wire)}
  <2>1. {m.index : m \in stored'} = {m.index : m \in stored} \cup {Head(wire).index}
    BY <1>5
  <2>2. Transfer!Deliver(Head(wire).index)
    BY <1>3, <2>1 DEF Transfer!Deliver
  <2>3. \E i \in Index : Transfer!Deliver(i)
    BY <1>2, <2>2
  <2>4. QED
    BY <2>3
<1>6. QED
  BY <1>4, <1>5 DEF PeerStep, PeerAcks, PeerIgnores

LEMMA StepRefines ==
    ASSUME Transfers = 1, PromiseInv, [Next]_vars
    PROVE  [Transfer!TransferNext]_(Transfer!tvars)
<1>1. ~NextTransfer
  BY DEF NextTransfer, PromiseInv, TypeInv, TypeOK
<1>2. CASE DrainFails \/ Return
  BY <1>2, EndRefines DEF Transfer!TransferNext
<1>3. CASE ReceiveAck
  BY <1>3, ReceiveRefines DEF Transfer!TransferNext
<1>4. CASE PeerStep
  BY <1>4, PeerRefines DEF Transfer!TransferNext
<1>5. CASE Break
  BY <1>5 DEF Break, sender, Running, Transfer!Lose, Transfer!TransferNext
<1>6. CASE Start \/ Drained \/ ReceiveNothing \/ OtherReaderTakesAck \/ SweepStep
             \/ UNCHANGED vars
  <2>1. UNCHANGED <<stored, acked, broken, shared>>
    BY <1>6 DEF Start, Drained, ReceiveNothing, OtherReaderTakesAck, SweepStep,
                SweepCollects, SweepVisits, vars, link, sender
  <2>2. CASE Start \/ Drained
    BY <2>1, <2>2 DEF Start, Drained, SendChunk, Running, Transfer!tvars
  <2>3. CASE ReceiveNothing \/ OtherReaderTakesAck \/ SweepStep \/ UNCHANGED vars
    BY <2>1, <2>3 DEF ReceiveNothing, OtherReaderTakesAck, SweepStep, SweepCollects,
                      SweepVisits, vars, sender, Running, Transfer!tvars
  <2>4. QED
    BY <1>6, <2>2, <2>3
<1>7. QED
  BY <1>1, <1>2, <1>3, <1>4, <1>5, <1>6 DEF Next, SenderStep, ListenerStep

(* The sender keeps its promise to the engine, for every size of file and   *)
(* window: a chunk it counts is at the peer, and it returns only when every *)
(* chunk is counted or it cannot hear the peer (lines 101-102, 145-177).    *)
THEOREM Refinement ==
    ASSUME Transfers = 1
    PROVE  Spec => ImplementsTransfer
<1>1. Init => PromiseInv
  BY InitPromiseInv
<1>2. PromiseInv /\ [Next]_vars => PromiseInv'
  BY NextPromiseInv
<1>3. Init => Transfer!TransferInit
  BY DEF Init, Running, Transfer!TransferInit
<1>4. PromiseInv /\ [Next]_vars => [Transfer!TransferNext]_(Transfer!tvars)
  BY StepRefines
<1>5. QED
  BY <1>1, <1>2, <1>3, <1>4, PTL DEF Spec, ImplementsTransfer, Transfer!TransferSpec

=============================================================================
