--------------------------- MODULE Healing_proofs ---------------------------
(***************************************************************************)
(* What the routing table may say of a chunk, proved for any number of     *)
(* peers, chunks and uploads, any replication factor and any distances.    *)
(* The chunk files play no part in this.                                   *)
(*                                                                         *)
(* From Least on it is about these files and their quota, for any sizes,   *)
(* any quota and any other files in the directory, which come and go: the  *)
(* bytes in use are theirs and a sum over the stored chunks, and every     *)
(* step of the node is one that StorageQuota knows, or leaves the files    *)
(* alone.                                                                  *)
(***************************************************************************)
EXTENDS Healing, FiniteSetTheorems, SequenceTheorems, WellFoundedInduction, TLAPS

(* find_closest_peers returns at most k peers: the ranks of the peers it    *)
(* returns are below k, and two peers at different distances have           *)
(* different ranks.                                                         *)
LEMMA ClosestBound ==
    ASSUME NEW c \in Chunk, NEW S \in SUBSET Peer, NEW k \in Nat
    PROVE  /\ Closest(c, S, k) \subseteq S /\ IsFiniteSet(Closest(c, S, k))
           /\ Cardinality(Closest(c, S, k)) <= k
<1> DEFINE d(p) == Distance[c][p]
           Below(p) == {q \in S : d(q) < d(p)}
           C == Closest(c, S, k)
           f == [p \in C |-> Cardinality(Below(p))]
<1>1. IsFiniteSet(S)
    BY PeerAssumption, FS_Subset
<1>2. C \subseteq S
    BY DEF Closest
<1>3. \A p \in S : d(p) \in Nat
    BY DistanceAssumption
<1>4. \A p \in S : IsFiniteSet(Below(p)) /\ Cardinality(Below(p)) \in Nat
    <2> SUFFICES ASSUME NEW p \in S
                 PROVE  IsFiniteSet(Below(p)) /\ Cardinality(Below(p)) \in Nat
        OBVIOUS
    <2>1. Below(p) \in SUBSET S
        OBVIOUS
    <2>2. IsFiniteSet(Below(p))
        BY <1>1, <2>1, FS_Subset
    <2> QED
        BY <2>2, FS_CardinalityType
<1>5. f \in [C -> 0 .. k - 1]
    <2> SUFFICES ASSUME NEW p \in C PROVE Cardinality(Below(p)) \in 0 .. k - 1
        OBVIOUS
    <2>1. Cardinality(Below(p)) \in Nat
        BY <1>2, <1>4
    <2>2. Cardinality(Below(p)) < k
        BY DEF Closest
    <2> QED
        BY <2>1, <2>2
<1>6. ASSUME NEW p \in C, NEW q \in C, d(p) < d(q)
      PROVE  f[p] # f[q]
    <2>1. p \in S /\ q \in S
        BY <1>2
    <2>2. \A r \in S : d(r) < d(p) => d(r) < d(q)
        BY <1>3, <1>6, <2>1
    <2>3. Below(p) \in SUBSET Below(q)
        BY <2>2
    <2>4. p \in Below(q) /\ p \notin Below(p)
        BY <1>3, <1>6, <2>1
    <2>5. Cardinality(Below(q)) # Cardinality(Below(p))
        BY <1>4, <2>1, <2>3, <2>4, FS_Subset
    <2> QED
        BY <2>5
<1>7. \A p, q \in C : f[p] = f[q] => p = q
    <2> SUFFICES ASSUME NEW p \in C, NEW q \in C, p # q PROVE f[p] # f[q]
        OBVIOUS
    <2>1. p \in S /\ q \in S /\ p \in Peer /\ q \in Peer
        BY <1>2
    <2>2. d(p) # d(q)
        BY <2>1, DistanceAssumption DEF IsInjective
    <2>3. d(p) < d(q) \/ d(q) < d(p)
        BY <1>3, <2>1, <2>2
    <2> QED
        BY <1>6, <2>3
<1>8. f \in Injection(C, 0 .. k - 1)
    BY <1>5, <1>7 DEF Injection, IsInjective
<1>9. IsFiniteSet(0 .. k - 1) /\ Cardinality(0 .. k - 1) = k
    BY FS_Interval
<1> HIDE DEF f, C
<1>10. IsFiniteSet(C) /\ Cardinality(C) <= Cardinality(0 .. k - 1)
    BY <1>8, <1>9, FS_Injection
<1> QED
    BY <1>2, <1>9, <1>10 DEF C

LEMMA AnyChunkType == AnyChunk \in Chunk
    BY PeerAssumption DEF AnyChunk

(* A write that succeeds is noted for the peer wanted, and no other is      *)
(* forgotten.                                                               *)
LEMMA SentGrows ==
    ASSUME sent \in [Chunk -> SUBSET (Peer \X Peer)], NEW c \in Chunk, NEW p \in Peer,
           \E q \in Answering(p) : sent' = [sent EXCEPT ![c] = @ \cup {<<p, q>>}]
    PROVE  /\ sent' \in [Chunk -> SUBSET (Peer \X Peer)]
           /\ p \in SentTo(c)'
           /\ \A d \in Chunk : SentTo(d) \subseteq SentTo(d)'
<1>1. PICK q \in Answering(p) : sent' = [sent EXCEPT ![c] = @ \cup {<<p, q>>}]
    OBVIOUS
<1>2. q \in Peer
    BY <1>1 DEF Answering
<1>3. /\ sent'[c] = sent[c] \cup {<<p, q>>}
      /\ \A d \in Chunk : sent[d] \subseteq sent'[d]
    BY <1>1
<1>4. sent' \in [Chunk -> SUBSET (Peer \X Peer)]
    BY <1>1, <1>2
<1>5. p \in SentTo(c)'
    BY <1>1, <1>2, <1>3 DEF SentTo
<1>6. \A d \in Chunk : SentTo(d) \subseteq SentTo(d)'
    BY <1>3 DEF SentTo
<1> QED
    BY <1>4, <1>5, <1>6

LEMMA SentSame ==
    ASSUME UNCHANGED sent
    PROVE  \A c \in Chunk : SentTo(c)' = SentTo(c)
BY DEF SentTo

-----------------------------------------------------------------------------
(* Types of the bookkeeping. *)

LEMMA TypeInit == Init => ReplicationTypeOK
    BY AnyChunkType DEF Init, ReplicationTypeOK, Idle, Asleep, Upload, Healer, Holder

LEMMA TypeReplicate ==
    ASSUME ReplicationTypeOK, NEW u \in Request, Replicate(u)
    PROVE  ReplicationTypeOK'
<1> USE DEF ReplicationTypeOK
<1>0. Idle \in Upload
    BY AnyChunkType DEF Idle, Upload
<1>1. CASE NoPeers(u)
    BY <1>0, <1>1 DEF NoPeers
<1>2. CASE Resave(u)
    <2>1. upload' = [upload EXCEPT ![u].pc = "select"]
        BY <1>2 DEF Resave
    <2>2. upload' \in [Request -> Upload]
        BY <2>1 DEF Upload
    <2> QED
        BY <1>2, <2>2 DEF Resave
<1>3. CASE Select(u)
    <2>1. Closest(upload[u].chunk, alive, K) \in SUBSET Peer
        BY DEF Closest
    <2> DEFINE send == [upload EXCEPT ![u].pc = "send",
                                      ![u].left = Closest(upload[u].chunk, alive, K)]
    <2>2. send \in [Request -> Upload]
        BY <2>1 DEF Upload
    <2>3. [upload EXCEPT ![u] = Idle] \in [Request -> Upload]
        BY <1>0
    <2> HIDE DEF send
    <2>4. upload' \in {send, [upload EXCEPT ![u] = Idle]}
        BY <1>3 DEF Select, send
    <2> QED
        BY <1>3, <2>2, <2>3, <2>4 DEF Select
<1>4. CASE Assign(u)
    <2>1. table' \in [Chunk -> SUBSET Holder]
        BY <1>4 DEF Assign, Upload, Holder
    <2>2. upload' \in [Request -> Upload]
        BY <1>0, <1>4 DEF Assign
    <2> QED
        BY <1>4, <2>1, <2>2 DEF Assign
<1>5. ASSUME NEW p \in Peer, UploadSend(u, p)
      PROVE  ReplicationTypeOK'
    <2>1. upload' \in {[upload EXCEPT ![u].left = @ \ {p}, ![u].ok = @ \cup {p}],
                       [upload EXCEPT ![u].left = @ \ {p}]}
        BY <1>5 DEF UploadSend
    <2>2. upload' \in [Request -> Upload]
        BY <2>1 DEF Upload
    <2>3. sent' \in [Chunk -> SUBSET (Peer \X Peer)]
        BY <1>5, SentGrows DEF UploadSend, Upload
    <2> QED
        BY <1>5, <2>2, <2>3 DEF UploadSend
<1> QED
    BY <1>1, <1>2, <1>3, <1>4, <1>5 DEF Replicate

LEMMA TypeHeal ==
    ASSUME ReplicationTypeOK, Heal
    PROVE  ReplicationTypeOK'
<1> USE DEF ReplicationTypeOK
<1>1. CASE BeginRound
    <2>1. \A c \in Chunk : AliveHolders(c) \in SUBSET Holder
        BY DEF AliveHolders
    <2>2. UnderReplicated \subseteq Chunk
        BY DEF UnderReplicated
    <2>3. table' \in [Chunk -> SUBSET Holder]
        BY <1>1, <2>1 DEF BeginRound
    <2>4. healer' \in Healer
        BY <1>1, <2>1, <2>2 DEF BeginRound, Healer
    <2> QED
        BY <1>1, <2>3, <2>4 DEF BeginRound
<1>2. CASE Reassign
    <2>1. table' \in [Chunk -> SUBSET Holder]
        BY <1>2 DEF Reassign, Healer
    <2>2. healer' \in Healer
        BY <1>2, AnyChunkType DEF Reassign, Healer
    <2> QED
        BY <1>2, <2>1, <2>2 DEF Reassign
<1>3. CASE EndRound
    <2>1. Asleep \in Healer
        BY AnyChunkType DEF Asleep, Healer
    <2> QED
        BY <1>3, <2>1 DEF EndRound
<1>4. ASSUME NEW c \in Chunk, PassOver(c)
      PROVE  ReplicationTypeOK'
    <2>1. healer' \in Healer
        BY <1>4 DEF PassOver, Healer
    <2> QED
        BY <1>4, <2>1 DEF PassOver
<1>5. ASSUME NEW c \in Chunk, PickTargets(c)
      PROVE  ReplicationTypeOK'
    <2>1. Closest(c, Candidates(c), Needed(c)) \in SUBSET Peer
        BY DEF Closest, Candidates, Healer
    <2>2. healer' \in Healer
        BY <1>5, <2>1 DEF PickTargets, Healer
    <2> QED
        BY <1>5, <2>2 DEF PickTargets
<1>6. ASSUME NEW p \in Peer, HealSend(p)
      PROVE  ReplicationTypeOK'
    <2> DEFINE noted == [healer.holders EXCEPT ![healer.chunk] = @ \cup {p}]
    <2>0. noted \in [Chunk -> SUBSET Holder] /\ healer.left \ {p} \in SUBSET Peer
        BY DEF Healer, Holder
    <2>1. \/ healer' = [healer EXCEPT !.left = @ \ {p}, !.holders = noted]
          \/ healer' = [healer EXCEPT !.left = @ \ {p}]
        BY <1>6 DEF HealSend, Healer
    <2> HIDE DEF noted
    <2>2. healer' \in Healer
        BY <2>0, <2>1 DEF Healer
    <2>3. sent' \in [Chunk -> SUBSET (Peer \X Peer)]
        BY <1>6, SentGrows DEF HealSend, Healer
    <2> QED
        BY <1>6, <2>2, <2>3 DEF HealSend
<1>7. ASSUME NEW c \in Chunk, RoundFails(c)
      PROVE  ReplicationTypeOK'
    <2>1. Asleep \in Healer
        BY AnyChunkType DEF Asleep, Healer
    <2> QED
        BY <1>7, <2>1 DEF RoundFails
<1> QED
    BY <1>1, <1>2, <1>3, <1>4, <1>5, <1>6, <1>7 DEF Heal

(* A step that is not one of an upload or of a round leaves the table, the  *)
(* uploads and the round alone, or begins an upload.                        *)
Quiet == UNCHANGED <<table, upload, healer, sent>> /\ alive' \in SUBSET Peer
Begins(u, c) ==
    /\ upload' = [upload EXCEPT ![u] = [pc |-> "saved", chunk |-> c, left |-> {}, ok |-> {}]]
    /\ UNCHANGED <<table, alive, healer, sent>>

LEMMA Steps ==
    ASSUME ReplicationTypeOK, [Next]_vars
    PROVE  \/ Quiet \/ Heal
           \/ \E u \in Request : Replicate(u) \/ \E c \in Chunk : Begins(u, c)
<1>1. ASSUME NEW p \in Peer, Appear(p) \/ Lapse(p)
      PROVE  Quiet
    BY <1>1 DEF Appear, Lapse, Quiet, ReplicationTypeOK
<1>2. ASSUME UNCHANGED replication
      PROVE  Quiet
    BY <1>2 DEF Quiet, replication, ReplicationTypeOK
<1>3. ASSUME NEW c \in Chunk, RouteSaves(c) \/ RouteLoads(c)
      PROVE  UNCHANGED replication
    BY <1>3 DEF RouteSaves, RouteLoads
<1>4. CollectGarbage \/ OtherFiles => UNCHANGED replication
    BY DEF CollectGarbage, OtherFiles
<1>5. ASSUME NEW u \in Request, NEW c \in Chunk, StartUpload(u, c)
      PROVE  Begins(u, c)
    BY <1>5 DEF StartUpload, Begins
<1>6. UNCHANGED vars => UNCHANGED replication
    BY DEF vars
<1> QED
    BY <1>1, <1>2, <1>3, <1>4, <1>5, <1>6 DEF Next

(* Requests, rounds and the table hold peers and this node only, whatever   *)
(* comes, goes, refuses or is evicted.                                      *)
THEOREM TypeCorrect == Spec => []ReplicationTypeOK
<1>1. ReplicationTypeOK /\ [Next]_vars => ReplicationTypeOK'
    <2> SUFFICES ASSUME ReplicationTypeOK, [Next]_vars PROVE ReplicationTypeOK'
        OBVIOUS
    <2>1. CASE Quiet
        BY <2>1 DEF Quiet, ReplicationTypeOK
    <2>2. ASSUME NEW u \in Request, NEW c \in Chunk, Begins(u, c)
          PROVE  ReplicationTypeOK'
        <3>1. [pc |-> "saved", chunk |-> c, left |-> {}, ok |-> {}] \in Upload
            BY DEF Upload
        <3> QED
            BY <2>2, <3>1 DEF Begins, ReplicationTypeOK
    <2> QED
        BY <2>1, <2>2, Steps, TypeReplicate, TypeHeal
<1> QED
    BY <1>1, TypeInit, PTL DEF Spec

-----------------------------------------------------------------------------
(* Only those to whose address a chunk was written are noted and recorded. *)

LEMMA SentReplicate ==
    ASSUME ReplicationTypeOK, SentInv, NEW u \in Request, Replicate(u)
    PROVE  SentInv'
<1> USE DEF SentInv, RecordedWasSent, NotedWasSent, ReplicationTypeOK
<1>0. Idle.ok = {}
    BY DEF Idle
<1>1. CASE NoPeers(u)
    BY <1>0, <1>1, SentSame DEF NoPeers, Upload
<1>2. CASE Resave(u)
    BY <1>2, SentSame DEF Resave, Upload
<1>3. CASE Select(u)
    <2>1. \A v \in Request : \/ upload'[v].ok = {}
                             \/ upload'[v].ok = upload[v].ok /\ upload'[v].chunk = upload[v].chunk
        <3>1. CASE alive = {}
            <4>1. upload' = [upload EXCEPT ![u] = Idle]
                BY <1>3, <3>1 DEF Select
            <4>2. \A v \in Request : upload'[v] = Idle \/ upload'[v] = upload[v]
                BY <4>1
            <4> QED
                BY <1>0, <4>2
        <3>2. CASE alive # {}
            BY <1>3, <3>2 DEF Select, Upload
        <3> QED
            BY <3>1, <3>2
    <2> QED
        BY <1>3, <2>1, SentSame DEF Select, Upload
<1>4. CASE Assign(u)
    <2>1. \A c \in Chunk : table'[c] \subseteq SentTo(c) \cup {Self}
        BY <1>4 DEF Assign, Upload
    <2>2. \A v \in Request : \/ upload'[v].ok = {} \/ upload'[v] = upload[v]
        BY <1>0, <1>4 DEF Assign
    <2> QED
        BY <1>4, <2>1, <2>2, SentSame DEF Assign, Upload
<1>5. ASSUME NEW p \in Peer, UploadSend(u, p)
      PROVE  SentInv'
    <2>0. upload[u].chunk \in Chunk
        BY DEF Upload
    <2>1. \A c \in Chunk : SentTo(c) \subseteq SentTo(c)'
        BY <1>5, <2>0, SentGrows, SentSame DEF UploadSend
    <2>2. \A v \in Request : upload'[v].chunk = upload[v].chunk /\ upload[v].chunk \in Chunk
        BY <1>5 DEF UploadSend, Upload
    <2>3. \A v \in Request : \/ upload'[v].ok = upload[v].ok
                             \/ /\ upload'[v].ok = upload[v].ok \cup {p}
                                /\ p \in SentTo(upload[v].chunk)'
        <3>1. CASE /\ upload' = [upload EXCEPT ![u].left = @ \ {p}, ![u].ok = @ \cup {p}]
                   /\ \E q \in Answering(p) :
                         sent' = [sent EXCEPT ![upload[u].chunk] = @ \cup {<<p, q>>}]
            <4>1. ASSUME NEW c \in Chunk, c = upload[u].chunk
                  PROVE  p \in SentTo(c)'
                BY <3>1, <4>1, SentGrows
            <4>2. p \in SentTo(upload[u].chunk)'
                BY <2>0, <2>2, <4>1
            <4> QED
                BY <3>1, <4>2 DEF Upload
        <3>2. CASE upload' = [upload EXCEPT ![u].left = @ \ {p}]
            BY <3>2 DEF Upload
        <3> QED
            BY <1>5, <3>1, <3>2 DEF UploadSend
    <2>4. UNCHANGED <<table, healer>>
        BY <1>5 DEF UploadSend
    <2> QED
        BY <2>1, <2>2, <2>3, <2>4
<1> QED
    BY <1>1, <1>2, <1>3, <1>4, <1>5 DEF Replicate

(* What a send of a round does to the round. *)
LEMMA HealSendStep ==
    ASSUME ReplicationTypeOK, NEW p \in Peer, HealSend(p)
    PROVE  /\ healer.chunk \in Chunk
           /\ healer'.left = healer.left \ {p} /\ p \in healer.left
           /\ healer'.pc = healer.pc /\ healer'.chunk = healer.chunk
           /\ healer'.work = healer.work
           /\ \A c \in Chunk : \/ healer'.holders[c] = healer.holders[c]
                               \/ /\ c = healer.chunk
                                  /\ healer'.holders[c] = healer.holders[c] \cup {p}
                                  /\ p \in SentTo(c)'
<1> DEFINE h == healer.chunk
           noted == [healer.holders EXCEPT ![h] = @ \cup {p}]
<1>0. h \in Chunk /\ healer.holders \in [Chunk -> SUBSET Holder] /\ healer \in Healer
      /\ sent \in [Chunk -> SUBSET (Peer \X Peer)]
    BY DEF ReplicationTypeOK, Healer
<1>1. p \in healer.left
    BY DEF HealSend, Closest
<1>2. CASE /\ healer' = [healer EXCEPT !.left = @ \ {p}, !.holders = noted]
           /\ \E q \in Answering(p) : sent' = [sent EXCEPT ![h] = @ \cup {<<p, q>>}]
    <2>1. /\ healer'.left = healer.left \ {p} /\ healer'.holders = noted
          /\ healer'.pc = healer.pc /\ healer'.chunk = h /\ healer'.work = healer.work
        BY <1>0, <1>2 DEF Healer
    <2>2. \A c \in Chunk : c # h => noted[c] = healer.holders[c]
        BY <1>0
    <2>3. noted[h] = healer.holders[h] \cup {p}
        BY <1>0
    <2>4. ASSUME NEW c \in Chunk, c = h
          PROVE  p \in SentTo(c)'
        BY <1>0, <1>2, <2>4, SentGrows
    <2> QED
        BY <1>0, <1>1, <2>1, <2>2, <2>3, <2>4
<1>3. CASE healer' = [healer EXCEPT !.left = @ \ {p}]
    BY <1>0, <1>1, <1>3 DEF Healer
<1>4. \/ /\ healer' = [healer EXCEPT !.left = @ \ {p}, !.holders = noted]
         /\ \E q \in Answering(p) : sent' = [sent EXCEPT ![h] = @ \cup {<<p, q>>}]
      \/ healer' = [healer EXCEPT !.left = @ \ {p}]
    BY <1>0 DEF HealSend, Healer
<1> QED
    BY <1>2, <1>3, <1>4

LEMMA SentHeal ==
    ASSUME ReplicationTypeOK, SentInv, Heal
    PROVE  SentInv'
<1> USE DEF SentInv, RecordedWasSent, NotedWasSent, ReplicationTypeOK
<1>1. CASE BeginRound
    <2>1. \A c \in Chunk : AliveHolders(c) \subseteq SentTo(c) \cup {Self}
        BY DEF AliveHolders
    <2>2. \A c \in Chunk : table'[c] \subseteq SentTo(c) \cup {Self}
        BY <1>1, <2>1 DEF BeginRound
    <2>3. \A c \in Chunk : healer'.holders[c] \subseteq SentTo(c) \cup {Self}
        BY <1>1, <2>1 DEF BeginRound, Healer
    <2> QED
        BY <1>1, <2>2, <2>3, SentSame DEF BeginRound, Upload
<1>2. CASE Reassign
    <2>1. \A c \in Chunk : table'[c] \subseteq SentTo(c) \cup {Self}
        BY <1>2 DEF Reassign, Healer
    <2>2. \A c \in Chunk : healer'.holders[c] = {} \/ healer'.holders[c] = healer.holders[c]
        BY <1>2 DEF Reassign, Healer
    <2> QED
        BY <1>2, <2>1, <2>2, SentSame DEF Reassign, Upload
<1>3. CASE EndRound
    <2>1. \A c \in Chunk : healer'.holders[c] = {}
        BY <1>3 DEF EndRound, Asleep
    <2> QED
        BY <1>3, <2>1, SentSame DEF EndRound, Upload
<1>4. ASSUME NEW c \in Chunk, PassOver(c) \/ PickTargets(c)
      PROVE  SentInv'
    <2>1. healer'.holders = healer.holders
        BY <1>4 DEF PassOver, PickTargets, Healer
    <2>2. UNCHANGED <<table, upload, sent>>
        BY <1>4 DEF PassOver, PickTargets
    <2> QED
        BY <2>1, <2>2, SentSame DEF Upload
<1>5. ASSUME NEW p \in Peer, HealSend(p)
      PROVE  SentInv'
    <2>1. \A c \in Chunk : SentTo(c) \subseteq SentTo(c)'
        <3>1. healer.chunk \in Chunk
            BY DEF Healer
        <3> QED
            BY <1>5, <3>1, SentGrows, SentSame DEF HealSend
    <2>2. \A c \in Chunk : \/ healer'.holders[c] = healer.holders[c]
                           \/ /\ healer'.holders[c] = healer.holders[c] \cup {p}
                              /\ p \in SentTo(c)'
        BY <1>5, HealSendStep
    <2>3. \A v \in Request : upload[v].chunk \in Chunk
        BY DEF Upload
    <2>4. UNCHANGED <<table, upload>>
        BY <1>5 DEF HealSend
    <2> QED
        BY <2>1, <2>2, <2>3, <2>4
<1>6. ASSUME NEW c \in Chunk, RoundFails(c)
      PROVE  SentInv'
    <2>1. \A d \in Chunk : healer'.holders[d] = {}
        BY <1>6 DEF RoundFails, Asleep
    <2> QED
        BY <1>6, <2>1, SentSame DEF RoundFails, Upload
<1> QED
    BY <1>1, <1>2, <1>3, <1>4, <1>5, <1>6 DEF Heal

(* For whoever the routing table names, other than this node, the chunk was *)
(* written to the node answering at its address, which is the peer itself   *)
(* unless its node runs under another id by now: uploads and rounds that    *)
(* overwrite each other's entries with lists made before their awaits never *)
(* invent a holder.                                                         *)
THEOREM HoldersWereSent == Spec => []RecordedWasSent
<1>1. Init => SentInv
    BY DEF Init, SentInv, RecordedWasSent, NotedWasSent, Idle, Asleep
<1>2. ReplicationTypeOK /\ SentInv /\ [Next]_vars => SentInv'
    <2> SUFFICES ASSUME ReplicationTypeOK, SentInv, [Next]_vars PROVE SentInv'
        OBVIOUS
    <2>1. CASE Quiet
        BY <2>1, SentSame DEF Quiet, SentInv, RecordedWasSent, NotedWasSent, ReplicationTypeOK,
                              Upload
    <2>2. ASSUME NEW u \in Request, NEW c \in Chunk, Begins(u, c)
          PROVE  SentInv'
        <3>1. \A v \in Request : upload'[v].ok = {} \/ upload'[v] = upload[v]
            BY <2>2 DEF Begins, ReplicationTypeOK
        <3> QED
            BY <2>2, <3>1, SentSame
               DEF Begins, SentInv, RecordedWasSent, NotedWasSent, ReplicationTypeOK, Upload
    <2> QED
        BY <2>1, <2>2, Steps, SentReplicate, SentHeal
<1>3. SentInv => RecordedWasSent
    BY DEF SentInv
<1> QED
    BY <1>1, <1>2, <1>3, TypeCorrect, PTL DEF Spec

-----------------------------------------------------------------------------
(* The number of copies. *)

(* Sets of holders are finite, and smaller ones have fewer members. *)
LEMMA Holders ==
    ASSUME NEW T \in SUBSET Holder
    PROVE  /\ IsFiniteSet(T) /\ Cardinality(T) \in Nat
           /\ \A S \in SUBSET T : Cardinality(S) \in Nat /\ Cardinality(S) <= Cardinality(T)
<1>1. IsFiniteSet(Holder)
    BY PeerAssumption, FS_AddElement DEF Holder
<1>2. IsFiniteSet(T)
    BY <1>1, FS_Subset
<1>3. \A S \in SUBSET T : IsFiniteSet(S) /\ Cardinality(S) <= Cardinality(T)
    BY <1>2, FS_Subset
<1> QED
    BY <1>2, <1>3, FS_CardinalityType

(* A repair whose holders are fewer than K and that adds the missing number *)
(* of peers comes to K at most.                                             *)
LEMMA RepairFits ==
    ASSUME NEW S \in SUBSET Holder, NEW T \in SUBSET Holder,
           Cardinality(T) <= K - Cardinality(S)
    PROVE  Cardinality(S \cup T) <= K
<1>1. IsFiniteSet(S) /\ IsFiniteSet(T)
    BY Holders
<1>2. Cardinality(S \cup T) = Cardinality(S) + Cardinality(T) - Cardinality(S \cap T)
    BY <1>1, FS_Union
<1>3. S \cap T \in SUBSET Holder
    OBVIOUS
<1>4. Cardinality(S) \in Nat /\ Cardinality(T) \in Nat /\ Cardinality(S \cap T) \in Nat
    BY <1>3, Holders
<1> QED
    BY <1>2, <1>4, FactorAssumption

(* The parts of the invariant about uploads and about the round. *)
TableFits == \A c \in Chunk : Recorded(c) => Self \in table[c] /\ Cardinality(table[c]) <= K + 1
UploadsFit == \A u \in Request :
    IF upload[u].pc = "send" THEN Cardinality(upload[u].ok \cup upload[u].left) <= K
                             ELSE upload[u].ok = {}
RoundFits ==
    /\ healer.pc = "send" =>
          /\ healer.chunk \in healer.work
          /\ Cardinality(healer.holders[healer.chunk] \cup healer.left) <= K
    /\ \A c \in healer.work :
          /\ Self \in healer.holders[c]
          /\ healer.pc = "pick" \/ c # healer.chunk => Cardinality(healer.holders[c]) < K

LEMMA CopiesParts == CopiesInv <=> TableFits /\ UploadsFit /\ RoundFits
    BY DEF CopiesInv, NoMoreThanNeeded, TargetsFit, TableFits, UploadsFit, RoundFits

(* Same in the next state. *)
LEMMA CopiesPartsNext == CopiesInv' <=> (TableFits /\ UploadsFit /\ RoundFits)'
    BY DEF CopiesInv, NoMoreThanNeeded, TargetsFit, TableFits, UploadsFit, RoundFits


(* An upload that is not in its sends has noted nobody; one that is has at  *)
(* most K peers noted or left.                                              *)
LEMMA CopiesReplicate ==
    ASSUME ReplicationTypeOK, TableFits, UploadsFit, NEW u \in Request, Replicate(u)
    PROVE  TableFits' /\ UploadsFit'
<1> USE DEF ReplicationTypeOK
<1>0. Idle.ok = {} /\ Idle.pc # "send"
    BY DEF Idle
<1>1. CASE NoPeers(u)
    <2>1. \A v \in Request : upload'[v] = Idle \/ upload'[v] = upload[v]
        BY <1>1 DEF NoPeers
    <2>2. UploadsFit'
        BY <1>0, <2>1 DEF UploadsFit
    <2> QED
        BY <1>1, <2>2 DEF NoPeers, TableFits, Recorded
<1>2. CASE Resave(u)
    <2>1. upload[u].pc = "saved" /\ upload' = [upload EXCEPT ![u].pc = "select"]
        BY <1>2 DEF Resave
    <2>2. \A v \in Request : \/ upload'[v] = upload[v]
                             \/ /\ upload'[v].ok = upload[v].ok
                                /\ upload[v].pc # "send" /\ upload'[v].pc # "send"
        BY <2>1 DEF Upload
    <2>3. UploadsFit'
        BY <2>2 DEF UploadsFit
    <2> QED
        BY <1>2, <2>3 DEF Resave, TableFits, Recorded
<1>3. CASE Select(u)
    <2> DEFINE C == Closest(upload[u].chunk, alive, K)
    <2>0. upload[u].ok = {}
        BY <1>3 DEF Select, UploadsFit
    <2>1. Cardinality(C) <= K
        <3>1. upload[u].chunk \in Chunk /\ alive \in SUBSET Peer /\ K \in Nat
            BY FactorAssumption DEF Upload
        <3> QED
            BY <3>1, ClosestBound
    <2> HIDE DEF C
    <2>2. UploadsFit'
        <3>1. CASE alive = {}
            <4>1. upload' = [upload EXCEPT ![u] = Idle]
                BY <1>3, <3>1 DEF Select
            <4>2. \A v \in Request : upload'[v] = Idle \/ upload'[v] = upload[v]
                BY <4>1
            <4> QED
                BY <1>0, <4>2 DEF UploadsFit
        <3>2. CASE alive # {}
            <4>1. upload' = [upload EXCEPT ![u].pc = "send", ![u].left = C]
                BY <1>3, <3>2 DEF Select, C
            <4>2. upload'[u].pc = "send" /\ upload'[u].left = C /\ upload'[u].ok = {}
                BY <2>0, <4>1 DEF Upload
            <4>3. \A v \in Request : v = u \/ upload'[v] = upload[v]
                BY <4>1
            <4>4. upload'[u].ok \cup upload'[u].left = C
                BY <4>2
            <4> QED
                BY <2>1, <4>2, <4>3, <4>4 DEF UploadsFit
        <3> QED
            BY <3>1, <3>2
    <2> QED
        BY <1>3, <2>2 DEF Select, TableFits, Recorded
<1>4. CASE Assign(u)
    <2> DEFINE ok == upload[u].ok
    <2>1. \A v \in Request : upload'[v] = Idle \/ upload'[v] = upload[v]
        BY <1>4 DEF Assign
    <2>2. UploadsFit'
        BY <1>0, <2>1 DEF UploadsFit
    <2>3. Cardinality(ok) <= K /\ ok \in SUBSET Peer
        <3>1. ok \cup upload[u].left = ok
            BY <1>4 DEF Assign
        <3> QED
            BY <1>4, <3>1 DEF Assign, UploadsFit, Upload
    <2>4. Cardinality(ok \cup {Self}) <= K + 1
        <3>1. IsFiniteSet(ok) /\ Cardinality(ok) \in Nat
            BY <2>3, Holders DEF Holder
        <3>2. Cardinality(ok \cup {Self}) = Cardinality(ok) + 1
            BY <2>3, <3>1, FS_AddElement, SelfAssumption
        <3> QED
            BY <2>3, <3>1, <3>2, FactorAssumption
    <2> HIDE DEF ok
    <2>5. \A c \in Chunk : table'[c] = ok \cup {Self} \/ table'[c] = table[c]
        BY <1>4 DEF Assign, ok
    <2>6. TableFits'
        BY <2>4, <2>5 DEF TableFits, Recorded
    <2> QED
        BY <2>2, <2>6
<1>5. ASSUME NEW p \in Peer, UploadSend(u, p)
      PROVE  TableFits' /\ UploadsFit'
    <2> DEFINE S == upload[u].ok \cup upload[u].left
    <2>1. upload[u].pc = "send" /\ p \in upload[u].left
        BY <1>5 DEF UploadSend, Closest
    <2>2. upload' \in {[upload EXCEPT ![u].left = @ \ {p}, ![u].ok = @ \cup {p}],
                       [upload EXCEPT ![u].left = @ \ {p}]}
        BY <1>5 DEF UploadSend
    <2>3. /\ upload'[u].pc = "send" /\ upload'[u].left = upload[u].left \ {p}
          /\ upload'[u].ok \in {upload[u].ok, upload[u].ok \cup {p}}
        BY <2>1, <2>2 DEF Upload
    <2>4. upload'[u].ok \cup upload'[u].left \in SUBSET S
        BY <2>1, <2>3
    <2>5. Cardinality(S) <= K /\ S \in SUBSET Holder
        BY <2>1 DEF UploadsFit, Upload, Holder
    <2> HIDE DEF S
    <2>6. Cardinality(upload'[u].ok \cup upload'[u].left) <= K
        <3>1. Cardinality(upload'[u].ok \cup upload'[u].left) \in Nat
              /\ Cardinality(upload'[u].ok \cup upload'[u].left) <= Cardinality(S)
              /\ Cardinality(S) \in Nat
            BY <2>4, <2>5, Holders
        <3> QED
            BY <2>5, <3>1, FactorAssumption
    <2>7. \A v \in Request : v = u \/ upload'[v] = upload[v]
        BY <2>2
    <2>8. UploadsFit'
        BY <2>3, <2>6, <2>7 DEF UploadsFit
    <2> QED
        BY <1>5, <2>8 DEF UploadSend, TableFits, Recorded
<1> QED
    BY <1>1, <1>2, <1>3, <1>4, <1>5 DEF Replicate


(* A round notes fewer than K holders, this node among them, for every      *)
(* chunk it has not come to, and K at most for the one at hand.             *)
LEMMA CopiesHeal ==
    ASSUME ReplicationTypeOK, TableFits, RoundFits, Heal
    PROVE  TableFits' /\ RoundFits'
<1> USE DEF ReplicationTypeOK
<1>0. \A c \in Chunk : healer.holders[c] \in SUBSET Holder
    BY DEF Healer
<1>1. CASE BeginRound
    <2>1. \A c \in UnderReplicated : Self \in AliveHolders(c) /\ Cardinality(AliveHolders(c)) < K
        BY DEF UnderReplicated, AliveHolders, TableFits
    <2>2. \A c \in Chunk : \/ table'[c] = AliveHolders(c) /\ c \in UnderReplicated
                           \/ table'[c] = table[c]
        BY <1>1 DEF BeginRound
    <2>3. \A c \in Chunk : Cardinality(AliveHolders(c)) \in Nat
        <3>1. \A c \in Chunk : AliveHolders(c) \in SUBSET Holder
            BY DEF AliveHolders
        <3> QED
            BY <3>1, Holders
    <2>4. \A c \in UnderReplicated : Cardinality(AliveHolders(c)) <= K + 1
        BY <2>1, <2>3, FactorAssumption DEF UnderReplicated
    <2>5. TableFits'
        BY <2>1, <2>2, <2>4 DEF TableFits, Recorded
    <2>6. /\ healer'.pc = "pick" /\ healer'.work = UnderReplicated
          /\ \A c \in UnderReplicated : healer'.holders[c] = AliveHolders(c)
        BY <1>1 DEF BeginRound, Healer, UnderReplicated
    <2>7. RoundFits'
        BY <2>1, <2>6 DEF RoundFits
    <2> QED
        BY <2>5, <2>7
<1>2. CASE Reassign
    <2> DEFINE h == healer.chunk
    <2>1. healer.pc = "send" /\ healer.left = {} /\ h \in healer.work /\ h \in Chunk
        BY <1>2 DEF Reassign, RoundFits, Healer
    <2>2. Self \in healer.holders[h] /\ Cardinality(healer.holders[h]) <= K
        <3>1. healer.holders[h] \cup healer.left = healer.holders[h]
            BY <2>1
        <3> QED
            BY <2>1, <3>1 DEF RoundFits
    <2>3. Cardinality(healer.holders[h]) <= K + 1
        <3>1. Cardinality(healer.holders[h]) \in Nat
            BY <1>0, <2>1, Holders
        <3> QED
            BY <2>2, <3>1, FactorAssumption
    <2>4. \A c \in Chunk : table'[c] = healer.holders[h] \/ table'[c] = table[c]
        BY <1>2 DEF Reassign
    <2>5. TableFits'
        BY <2>2, <2>3, <2>4 DEF TableFits, Recorded
    <2>6. /\ healer'.pc = "pick" /\ healer'.work = healer.work \ {h}
          /\ \A c \in Chunk : c # h => healer'.holders[c] = healer.holders[c]
        BY <1>2 DEF Reassign, Healer
    <2>7. \A c \in healer.work : c \in Chunk
        BY DEF Healer
    <2>8. RoundFits'
        BY <2>1, <2>6, <2>7 DEF RoundFits
    <2> QED
        BY <2>5, <2>8
<1>3. CASE EndRound
    <2>1. healer'.pc = "sleep" /\ healer'.work = {}
        BY <1>3 DEF EndRound, Asleep
    <2> QED
        BY <1>3, <2>1 DEF EndRound, TableFits, Recorded, RoundFits
<1>4. ASSUME NEW c \in Chunk, PassOver(c)
      PROVE  TableFits' /\ RoundFits'
    <2>1. /\ healer.pc = "pick" /\ healer'.pc = "pick" /\ healer'.work = healer.work \ {c}
          /\ healer'.holders = healer.holders /\ healer'.chunk = healer.chunk
        BY <1>4 DEF PassOver, Healer
    <2>2. RoundFits'
        BY <2>1 DEF RoundFits
    <2> QED
        BY <1>4, <2>2 DEF PassOver, TableFits, Recorded
<1>5. ASSUME NEW c \in Chunk, PickTargets(c)
      PROVE  TableFits' /\ RoundFits'
    <2> DEFINE T == Closest(c, Candidates(c), Needed(c))
    <2>1. healer.pc = "pick" /\ c \in healer.work
        BY <1>5 DEF PickTargets
    <2>2. Cardinality(healer.holders[c]) < K /\ Cardinality(healer.holders[c]) \in Nat
        <3>1. Cardinality(healer.holders[c]) \in Nat
            BY <1>0, Holders
        <3> QED
            BY <2>1, <3>1 DEF RoundFits
    <2>3. Needed(c) \in Nat /\ Candidates(c) \in SUBSET Peer
        BY <2>2, FactorAssumption DEF Needed, Candidates, Healer
    <2>4. T \in SUBSET Peer /\ Cardinality(T) <= Needed(c)
        BY <2>3, ClosestBound
    <2> HIDE DEF T
    <2>5. Cardinality(healer.holders[c] \cup T) <= K
        <3>1. T \in SUBSET Holder /\ Cardinality(T) <= K - Cardinality(healer.holders[c])
            BY <2>4 DEF Holder, Needed
        <3> QED
            BY <1>0, <3>1, RepairFits
    <2>6. healer' = [healer EXCEPT !.pc = "send", !.chunk = c, !.left = T]
        BY <1>5 DEF PickTargets, T
    <2>7. /\ healer'.pc = "send" /\ healer'.chunk = c /\ healer'.left = T
          /\ healer'.holders = healer.holders /\ healer'.work = healer.work
        BY <2>6 DEF Healer
    <2>8. RoundFits'
        BY <2>1, <2>5, <2>7 DEF RoundFits
    <2> QED
        BY <1>5, <2>8 DEF PickTargets, TableFits, Recorded
<1>6. ASSUME NEW p \in Peer, HealSend(p)
      PROVE  TableFits' /\ RoundFits'
    <2> DEFINE h == healer.chunk
               S == healer.holders[h] \cup healer.left
    <2>1. /\ h \in Chunk /\ healer'.left = healer.left \ {p} /\ p \in healer.left
          /\ healer'.pc = healer.pc /\ healer'.chunk = h /\ healer'.work = healer.work
          /\ \A c \in Chunk : \/ healer'.holders[c] = healer.holders[c]
                              \/ c = h /\ healer'.holders[c] = healer.holders[c] \cup {p}
        BY <1>6, HealSendStep
    <2>2. healer.pc = "send"
        BY <1>6 DEF HealSend
    <2>3. healer'.holders[h] \cup healer'.left \in SUBSET S
        BY <2>1
    <2>4. Cardinality(S) <= K /\ S \in SUBSET Holder
        BY <1>0, <2>1, <2>2 DEF RoundFits, Healer, Holder
    <2> HIDE DEF S
    <2>5. Cardinality(healer'.holders[h] \cup healer'.left) <= K
        <3>1. Cardinality(healer'.holders[h] \cup healer'.left) \in Nat
              /\ Cardinality(healer'.holders[h] \cup healer'.left) <= Cardinality(S)
              /\ Cardinality(S) \in Nat
            BY <2>3, <2>4, Holders
        <3> QED
            BY <2>4, <3>1, FactorAssumption
    <2>6. \A c \in healer.work : c \in Chunk
        BY DEF Healer
    <2>7. RoundFits'
        BY <2>1, <2>2, <2>5, <2>6 DEF RoundFits
    <2> QED
        BY <1>6, <2>7 DEF HealSend, TableFits, Recorded
<1>7. ASSUME NEW c \in Chunk, RoundFails(c)
      PROVE  TableFits' /\ RoundFits'
    <2>1. healer'.pc = "sleep" /\ healer'.work = {}
        BY <1>7 DEF RoundFails, Asleep
    <2> QED
        BY <1>7, <2>1 DEF RoundFails, TableFits, Recorded, RoundFits
<1> QED
    BY <1>1, <1>2, <1>3, <1>4, <1>5, <1>6, <1>7 DEF Heal

(* The table names this node and at most K peers for a chunk, and a repair  *)
(* comes to K copies at most, whatever uploads and lapses did to the entry  *)
(* since the round began.                                                   *)
THEOREM CopiesBounded == Spec => []NoMoreThanNeeded
<1>1. Init => CopiesInv
    <2>1. Init => TableFits /\ UploadsFit /\ RoundFits
        BY DEF Init, TableFits, UploadsFit, RoundFits, Recorded, Idle, Asleep
    <2> QED
        BY <2>1, CopiesParts
<1>2. ReplicationTypeOK /\ CopiesInv /\ [Next]_vars => CopiesInv'
    <2> SUFFICES ASSUME ReplicationTypeOK, TableFits, UploadsFit, RoundFits, [Next]_vars
                 PROVE  (TableFits /\ UploadsFit /\ RoundFits)'
        BY CopiesParts, CopiesPartsNext
    <2>1. CASE Quiet
        BY <2>1 DEF Quiet, TableFits, UploadsFit, RoundFits, Recorded
    <2>2. CASE Heal
        <3>1. UNCHANGED upload
            BY <2>2 DEF Heal, BeginRound, Reassign, EndRound, PassOver, PickTargets, RoundFails,
                        HealSend
        <3>2. UploadsFit'
            BY <3>1 DEF UploadsFit
        <3> QED
            BY <2>2, <3>2, CopiesHeal
    <2>3. ASSUME NEW u \in Request, Replicate(u)
          PROVE  (TableFits /\ UploadsFit /\ RoundFits)'
        <3>1. UNCHANGED healer
            BY <2>3 DEF Replicate, NoPeers, Resave, Select, Assign, UploadSend
        <3>2. RoundFits'
            BY <3>1 DEF RoundFits
        <3> QED
            BY <2>3, <3>2, CopiesReplicate
    <2>4. ASSUME NEW u \in Request, NEW c \in Chunk, Begins(u, c)
          PROVE  (TableFits /\ UploadsFit /\ RoundFits)'
        <3>1. \A v \in Request : \/ upload'[v].pc = "saved" /\ upload'[v].ok = {}
                                 \/ upload'[v] = upload[v]
            BY <2>4 DEF Begins, ReplicationTypeOK
        <3>2. UploadsFit'
            BY <3>1 DEF UploadsFit
        <3> QED
            BY <2>4, <3>2 DEF Begins, TableFits, RoundFits, Recorded
    <2> QED
        BY <2>1, <2>2, <2>3, <2>4, Steps
<1>3. CopiesInv => NoMoreThanNeeded
    BY DEF CopiesInv
<1> QED
    BY <1>1, <1>2, <1>3, TypeCorrect, PTL DEF Spec

-----------------------------------------------------------------------------
(* Induction, stated with sets: to show P(n) for every n, a lemma is used   *)
(* with {n \in Nat : P(n)}.                                                 *)

(* A set of naturals has a least element. *)
LEMMA Least ==
    ASSUME NEW T \in SUBSET Nat, T # {}
    PROVE  \E x \in T : \A y \in T : x <= y
<1>1. \E x \in T : \A y \in T : ~ (<<y, x>> \in OpToRel(<, Nat))
  BY NatLessThanWellFounded, WFMin, Zenon
<1>2. ASSUME NEW x \in Nat, NEW y \in Nat, ~ (<<y, x>> \in OpToRel(<, Nat))
      PROVE  x <= y
  BY <1>2 DEF OpToRel
<1> QED BY <1>1, <1>2

(* A set of naturals that holds zero and is closed under successor holds    *)
(* all of them: what is missing would have a least element.                 *)
LEMMA Induct ==
    ASSUME NEW T \in SUBSET Nat, 0 \in T, \A n \in T : n + 1 \in T
    PROVE  T = Nat
<1> SUFFICES ASSUME T # Nat PROVE FALSE
  OBVIOUS
<1>1. PICK x \in Nat \ T : \A y \in Nat \ T : x <= y
  BY Least
<1>2. x # 0 /\ x - 1 \in Nat
  BY <1>1
<1>3. x - 1 \in T
  BY <1>1, <1>2
<1>4. (x - 1) + 1 = x
  BY <1>1
<1> QED BY <1>1, <1>3, <1>4

(* What holds of a finite set of chunks when it holds of those with one     *)
(* chunk less, holds of every finite set of chunks.                         *)
LEMMA InductOnChunks ==
    ASSUME NEW F,
           \A S \in SUBSET Chunk : IsFiniteSet(S) /\ (\A c \in S : S \ {c} \in F) => S \in F
    PROVE  \A S \in SUBSET Chunk : IsFiniteSet(S) => S \in F
<1> DEFINE T == {n \in Nat : \A S \in SUBSET Chunk :
                                IsFiniteSet(S) /\ Cardinality(S) = n => S \in F}
<1>1. 0 \in T
  <2> SUFFICES ASSUME NEW S \in SUBSET Chunk, IsFiniteSet(S), Cardinality(S) = 0
               PROVE  S \in F
    OBVIOUS
  <2>1. S = {}
    BY FS_EmptySet
  <2> QED BY <2>1
<1>2. ASSUME NEW n \in T PROVE n + 1 \in T
  <2> SUFFICES ASSUME NEW S \in SUBSET Chunk, IsFiniteSet(S), Cardinality(S) = n + 1
               PROVE  S \in F
    OBVIOUS
  <2>1. ASSUME NEW c \in S PROVE S \ {c} \in F
    <3>1. IsFiniteSet(S \ {c}) /\ Cardinality(S \ {c}) = Cardinality(S) - 1
      BY FS_RemoveElement
    <3>2. Cardinality(S \ {c}) = n
      BY <3>1
    <3> QED BY <3>1, <3>2
  <2> QED BY <2>1
<1>3. T = Nat
  <2> HIDE DEF T
  <2>1. T \in SUBSET Nat
    BY DEF T
  <2> QED BY <1>1, <1>2, <2>1, Induct
<1> SUFFICES ASSUME NEW S \in SUBSET Chunk, IsFiniteSet(S) PROVE S \in F
  OBVIOUS
<1>4. Cardinality(S) \in T
  BY <1>3, FS_CardinalityType
<1> QED BY <1>4

-----------------------------------------------------------------------------
(* Sums of sizes. *)

Total(S) == SumFunctionOnSet(Size, S)

Choice(s) == CHOOSE x \in s : TRUE

(* The function the sum is defined by, which takes an element off a set as  *)
(* long as there is one; first what it makes of one set.                    *)
AddOne(g, s) == IF s = {} THEN 0 ELSE Size[Choice(s)] + g[s \ {Choice(s)}]

IsSum(g, S) == g = [s \in SUBSET S |-> AddOne(g, s)]

LEMMA TotalIsSum ==
    ASSUME NEW S
    PROVE  Total(S) = (CHOOSE g : IsSum(g, S))[S]
BY DEF Total, SumFunctionOnSet, FoldFunctionOnSet, MapThenFoldSet, IsSum, AddOne, Choice

(* There is such a function: there is one for the sets of up to n chunks,   *)
(* for every n.                                                             *)
LEMMA SumExists ==
    ASSUME NEW S \in SUBSET Chunk, IsFiniteSet(S)
    PROVE  \E g : IsSum(g, S)
<1> DEFINE Upto(n) == {s \in SUBSET S : Cardinality(s) <= n}
           T == {n \in Nat : \E g : \A s \in Upto(n) : g[s] = AddOne(g, s)}
<1>0. \A s \in SUBSET S : /\ IsFiniteSet(s) /\ Cardinality(s) \in Nat
                          /\ Cardinality(s) <= Cardinality(S)
  BY FS_Subset, FS_CardinalityType
<1>1. 0 \in T
  <2> DEFINE g == [s \in Upto(0) |-> 0]
  <2>1. ASSUME NEW s \in Upto(0) PROVE g[s] = AddOne(g, s)
    <3>1. Cardinality(s) = 0
      BY <1>0
    <3>2. s = {}
      BY <1>0, <3>1, FS_EmptySet
    <3> QED BY <3>2 DEF AddOne
  <2> HIDE DEF g, Upto
  <2> QED BY <2>1
<1>2. ASSUME NEW n \in T PROVE n + 1 \in T
  <2>1. PICK g : \A s \in Upto(n) : g[s] = AddOne(g, s)
    OBVIOUS
  <2> DEFINE h == [s \in Upto(n + 1) |-> AddOne(g, s)]
  <2>2. ASSUME NEW s \in Upto(n + 1) PROVE h[s] = AddOne(h, s)
    <3>1. CASE s = {}
      BY <3>1 DEF AddOne
    <3>2. CASE s # {}
      <4> DEFINE t == s \ {Choice(s)}
      <4>1. Choice(s) \in s
        BY <3>2 DEF Choice
      <4>2. Cardinality(t) = Cardinality(s) - 1
        BY <1>0, <4>1, FS_RemoveElement
      <4>3. t \in Upto(n) /\ t \in Upto(n + 1)
        BY <1>0, <4>2
      <4> HIDE DEF t, Upto
      <4>4. h[t] = g[t]
        BY <2>1, <4>3
      <4>5. AddOne(h, s) = AddOne(g, s)
        BY <4>4 DEF AddOne, t
      <4> QED BY <4>5
    <3> QED BY <3>1, <3>2
  <2> HIDE DEF h, Upto
  <2> QED BY <2>2
<1>3. T = Nat
  <2> HIDE DEF T
  <2>1. T \in SUBSET Nat
    BY DEF T
  <2> QED BY <1>1, <1>2, <2>1, Induct
<1>4. Cardinality(S) \in T
  BY <1>0, <1>3
<1>5. PICK g : \A s \in Upto(Cardinality(S)) : g[s] = AddOne(g, s)
  BY <1>4
<1>6. Upto(Cardinality(S)) = SUBSET S
  BY <1>0
<1> DEFINE h == [s \in SUBSET S |-> g[s]]
<1> HIDE DEF Upto
<1>7. ASSUME NEW s \in SUBSET S PROVE h[s] = AddOne(h, s)
  <2>1. h[s] = AddOne(g, s)
    BY <1>5, <1>6
  <2>2. s \ {Choice(s)} \in SUBSET S
    OBVIOUS
  <2>3. AddOne(h, s) = AddOne(g, s)
    BY <2>2 DEF AddOne
  <2> QED BY <2>1, <2>3
<1>8. IsSum(h, S)
  <2>1. h = [s \in SUBSET S |-> h[s]]
    OBVIOUS
  <2> HIDE DEF h
  <2> QED BY <1>7, <2>1 DEF IsSum
<1> QED BY <1>8

(* Two such functions agree where both are defined. *)
LEMMA SumUnique ==
    ASSUME NEW S \in SUBSET Chunk, NEW R \in SUBSET Chunk, NEW g, NEW h,
           IsSum(g, S), IsSum(h, R)
    PROVE  \A s \in SUBSET (S \cap R) : IsFiniteSet(s) => g[s] = h[s]
<1> DEFINE F == {s \in SUBSET Chunk : s \in SUBSET (S \cap R) => g[s] = h[s]}
<1>1. ASSUME NEW s \in SUBSET Chunk, IsFiniteSet(s), \A c \in s : s \ {c} \in F
      PROVE  s \in F
  <2> SUFFICES ASSUME s \in SUBSET (S \cap R) PROVE g[s] = h[s]
    OBVIOUS
  <2>1. g[s] = AddOne(g, s) /\ h[s] = AddOne(h, s)
    <3>1. s \in SUBSET S /\ s \in SUBSET R
      OBVIOUS
    <3> QED BY <3>1 DEF IsSum
  <2>2. CASE s = {}
    BY <2>1, <2>2 DEF AddOne
  <2>3. CASE s # {}
    <3>1. Choice(s) \in s
      BY <2>3 DEF Choice
    <3>2. s \ {Choice(s)} \in F /\ s \ {Choice(s)} \in SUBSET (S \cap R)
      BY <1>1, <3>1
    <3> QED BY <2>1, <3>2 DEF AddOne
  <2> QED BY <2>2, <2>3
<1> HIDE DEF F
<1>2. \A s \in SUBSET Chunk : IsFiniteSet(s) => s \in F
  BY <1>1, InductOnChunks
<1> QED BY <1>2 DEF F

(* The sum over a set is that over the set without the element chosen, and  *)
(* the size of this element.                                                *)
LEMMA TotalStep ==
    ASSUME NEW S \in SUBSET Chunk, IsFiniteSet(S)
    PROVE  /\ S = {} => Total(S) = 0
           /\ S # {} => Total(S) = Size[Choice(S)] + Total(S \ {Choice(S)})
<1> DEFINE g == CHOOSE g : IsSum(g, S)
<1>1. IsSum(g, S) /\ Total(S) = g[S]
  BY SumExists, TotalIsSum
<1> HIDE DEF g
<1>2. g[S] = AddOne(g, S)
  BY <1>1 DEF IsSum
<1>3. S = {} => Total(S) = 0
  BY <1>1, <1>2 DEF AddOne
<1>4. ASSUME S # {} PROVE Total(S) = Size[Choice(S)] + Total(S \ {Choice(S)})
  <2> DEFINE R == S \ {Choice(S)}
             h == CHOOSE h : IsSum(h, R)
  <2>1. R \in SUBSET Chunk /\ IsFiniteSet(R)
    BY FS_Subset
  <2>2. IsSum(h, R) /\ Total(R) = h[R]
    BY <2>1, SumExists, TotalIsSum
  <2> HIDE DEF h
  <2>3. g[R] = h[R]
    BY <1>1, <2>1, <2>2, SumUnique
  <2> QED BY <1>1, <1>2, <1>4, <2>2, <2>3 DEF AddOne
<1> QED BY <1>3, <1>4

LEMMA TotalType ==
    ASSUME NEW S \in SUBSET Chunk, IsFiniteSet(S)
    PROVE  Total(S) \in Nat
<1> DEFINE F == {s \in SUBSET Chunk : Total(s) \in Nat}
<1>1. ASSUME NEW s \in SUBSET Chunk, IsFiniteSet(s), \A c \in s : s \ {c} \in F
      PROVE  s \in F
  <2>1. CASE s = {}
    <3>1. Total(s) = 0
      BY <1>1, <2>1, TotalStep, Zenon
    <3> QED BY <3>1
  <2>2. CASE s # {}
    <3>1. Choice(s) \in s
      BY <2>2 DEF Choice
    <3>2. Total(s) = Size[Choice(s)] + Total(s \ {Choice(s)})
      BY <1>1, <2>2, TotalStep
    <3>3. Total(s \ {Choice(s)}) \in Nat /\ Size[Choice(s)] \in Nat
      BY <1>1, <3>1, SizeAssumption
    <3> QED BY <3>2, <3>3
  <2> QED BY <2>1, <2>2
<1> HIDE DEF F
<1>2. \A s \in SUBSET Chunk : IsFiniteSet(s) => s \in F
  BY <1>1, InductOnChunks
<1> QED BY <1>2 DEF F

(* The sum does not depend on the order: any chunk can be taken off it.     *)
LEMMA TotalWithout ==
    ASSUME NEW S \in SUBSET Chunk, IsFiniteSet(S), NEW c \in S
    PROVE  Total(S) = Size[c] + Total(S \ {c})
<1> DEFINE F == {s \in SUBSET Chunk : \A d \in s : Total(s) = Size[d] + Total(s \ {d})}
<1>1. ASSUME NEW s \in SUBSET Chunk, IsFiniteSet(s), \A d \in s : s \ {d} \in F
      PROVE  s \in F
  <2> SUFFICES ASSUME NEW d \in s PROVE Total(s) = Size[d] + Total(s \ {d})
    OBVIOUS
  <2> DEFINE x == Choice(s)
  <2>1. x \in s
    BY DEF Choice
  <2>2. Total(s) = Size[x] + Total(s \ {x})
    BY <1>1, TotalStep
  <2> HIDE DEF x
  <2>3. CASE d = x
    BY <2>2, <2>3
  <2>4. CASE d # x
    <3>1. Total(s \ {x}) = Size[d] + Total((s \ {x}) \ {d})
      BY <1>1, <2>1, <2>4
    <3>2. Total(s \ {d}) = Size[x] + Total((s \ {d}) \ {x})
      BY <1>1, <2>1, <2>4
    <3>3. (s \ {x}) \ {d} = (s \ {d}) \ {x}
      OBVIOUS
    <3>4. Total((s \ {d}) \ {x}) \in Nat /\ Size[x] \in Nat /\ Size[d] \in Nat
      <4>1. (s \ {d}) \ {x} \in SUBSET Chunk /\ IsFiniteSet((s \ {d}) \ {x})
        BY <1>1, FS_Subset
      <4>2. Total((s \ {d}) \ {x}) \in Nat
        BY <4>1, TotalType
      <4>3. x \in Chunk /\ d \in Chunk
        BY <2>1
      <4> QED BY <4>2, <4>3, SizeAssumption
    <3> DEFINE r == Total((s \ {d}) \ {x})
    <3>5. r \in Nat /\ Total(s \ {x}) = Size[d] + r /\ Total(s \ {d}) = Size[x] + r
      BY <3>1, <3>2, <3>3, <3>4
    <3> HIDE DEF r
    <3>6. Total(s) = Size[x] + (Size[d] + r)
      BY <2>2, <3>5
    <3> QED BY <3>4, <3>5, <3>6
  <2> QED BY <2>3, <2>4
<1> HIDE DEF F
<1>2. \A s \in SUBSET Chunk : IsFiniteSet(s) => s \in F
  BY <1>1, InductOnChunks
<1> QED BY <1>2 DEF F

-----------------------------------------------------------------------------
(* The files, a list that names each of them once. *)

LEMMA FilesSet ==
    ASSUME NEW s \in Seq(Chunk)
    PROVE  /\ ToSet(s) \in SUBSET Chunk /\ IsFiniteSet(ToSet(s))
           /\ ToSet(s) = {s[i] : i \in 1 .. Len(s)}
           /\ DOMAIN s = 1 .. Len(s) /\ Len(s) \in Nat
<1>1. DOMAIN s = 1 .. Len(s) /\ Len(s) \in Nat /\ \A i \in 1 .. Len(s) : s[i] \in Chunk
  OBVIOUS
<1>2. ToSet(s) = {s[i] : i \in 1 .. Len(s)}
  BY <1>1 DEF ToSet
<1>3. IsFiniteSet(1 .. Len(s))
  BY <1>1, FS_Interval
<1>4. IsFiniteSet({s[i] : i \in 1 .. Len(s)})
  <2> DEFINE f == [i \in 1 .. Len(s) |-> s[i]]
  <2>1. f \in Surjection(1 .. Len(s), {s[i] : i \in 1 .. Len(s)})
    BY DEF Surjection
  <2> HIDE DEF f
  <2> QED BY <1>3, <2>1, FS_Surjection
<1> QED BY <1>1, <1>2, <1>4

(* os.remove: the file is gone, the others keep their order. *)
LEMMA RemoveProperties ==
    ASSUME NEW s \in Seq(Chunk), IsInjective(s), NEW c \in Chunk
    PROVE  /\ RemoveFirst(s, c) \in Seq(Chunk) /\ IsInjective(RemoveFirst(s, c))
           /\ ToSet(RemoveFirst(s, c)) = ToSet(s) \ {c}
<1>0. DOMAIN s = 1 .. Len(s) /\ Len(s) \in Nat /\ \A i \in 1 .. Len(s) : s[i] \in Chunk
  OBVIOUS
<1>1. CASE \E i \in 1 .. Len(s) : s[i] = c
  <2> DEFINE I == {i \in 1 .. Len(s) : s[i] = c}
             k == Min(I)
  <2>1. k \in I
    <3>1. PICK x \in I : \A y \in I : x <= y
      <4>1. I \in SUBSET Nat /\ I # {}
        BY <1>1
      <4> HIDE DEF I
      <4> QED BY <4>1, Least
    <3> QED BY <3>1 DEF Min
  <2>2. RemoveFirst(s, c) = SubSeq(s, 1, k - 1) \o SubSeq(s, k + 1, Len(s))
    BY <1>1 DEF RemoveFirst, RemoveAt, SelectInSeq
  <2>3. k \in 1 .. Len(s) /\ s[k] = c
    BY <2>1
  <2> HIDE DEF k, I
  <2> DEFINE a == SubSeq(s, 1, k - 1)
             b == SubSeq(s, k + 1, Len(s))
             t == RemoveFirst(s, c)
  <2>4. /\ a \in Seq(Chunk) /\ Len(a) = k - 1
        /\ \A i \in 1 .. k - 1 : a[i] = s[i]
    BY <1>0, <2>3
  <2>5. /\ b \in Seq(Chunk) /\ Len(b) = Len(s) - k
        /\ \A i \in 1 .. Len(s) - k : b[i] = s[k + i]
    <3>1. /\ k + 1 \in 1 .. Len(s) + 1 /\ Len(s) \in (k + 1) - 1 .. Len(s)
          /\ Len(s) - (k + 1) + 1 = Len(s) - k
      BY <1>0, <2>3
    <3>2. /\ b \in Seq(Chunk) /\ Len(b) = Len(s) - (k + 1) + 1
          /\ \A i \in 1 .. Len(s) - (k + 1) + 1 : b[i] = s[(k + 1) + i - 1]
      BY <3>1, SubSeqProperties
    <3>3. \A i \in 1 .. Len(s) - k : (k + 1) + i - 1 = k + i
      BY <1>0, <2>3
    <3> QED BY <3>1, <3>2, <3>3
  <2> HIDE DEF a, b
  <2>6. /\ t \in Seq(Chunk) /\ Len(t) = Len(s) - 1
        /\ \A i \in 1 .. Len(s) - 1 : t[i] = IF i < k THEN s[i] ELSE s[i + 1]
    <3>1. t = a \o b
      BY <2>2 DEF a, b
    <3>2. t \in Seq(Chunk) /\ Len(t) = Len(s) - 1
      <4>1. a \o b \in Seq(Chunk) /\ Len(a \o b) = Len(a) + Len(b)
        BY <2>4, <2>5, ConcatProperties
      <4>2. (k - 1) + (Len(s) - k) = Len(s) - 1
        BY <1>0, <2>3
      <4> QED BY <2>4, <2>5, <3>1, <4>1, <4>2
    <3>3. ASSUME NEW i \in 1 .. Len(s) - 1
          PROVE  t[i] = IF i < k THEN s[i] ELSE s[i + 1]
      <4>1. CASE i < k
        <5>1. i \in 1 .. k - 1
          BY <1>0, <2>3, <4>1
        <5>2. t[i] = a[i]
          BY <2>4, <2>5, <3>1, <5>1
        <5> QED BY <2>4, <4>1, <5>1, <5>2
      <4>2. CASE ~ (i < k)
        <5>1. i - (k - 1) \in 1 .. Len(s) - k /\ k + (i - (k - 1)) = i + 1
          BY <1>0, <2>3, <4>2
        <5>2. t[i] = b[i - (k - 1)]
          BY <1>0, <2>3, <2>4, <2>5, <3>1, <4>2
        <5> QED BY <2>5, <4>2, <5>1, <5>2
      <4> QED BY <4>1, <4>2
    <3> QED BY <3>2, <3>3
  <2> HIDE DEF t
  <2> DEFINE at(i) == IF i < k THEN i ELSE i + 1
  <2>7. \A i \in 1 .. Len(t) : at(i) \in 1 .. Len(s) /\ at(i) # k /\ t[i] = s[at(i)]
    BY <1>0, <2>3, <2>6
  <2>8. \A i, j \in 1 .. Len(t) : at(i) = at(j) => i = j
    BY <1>0, <2>3, <2>6
  <2>9. \A n \in 1 .. Len(s) : n # k => \E i \in 1 .. Len(t) : at(i) = n
    <3> SUFFICES ASSUME NEW n \in 1 .. Len(s), n # k PROVE \E i \in 1 .. Len(t) : at(i) = n
      OBVIOUS
    <3>1. CASE n < k
      <4>1. n \in 1 .. Len(t) /\ at(n) = n
        BY <1>0, <2>3, <2>6, <3>1
      <4> QED BY <4>1
    <3>2. CASE ~ (n < k)
      <4>1. n - 1 \in 1 .. Len(t) /\ at(n - 1) = n
        BY <1>0, <2>3, <2>6, <3>2
      <4> QED BY <4>1
    <3> QED BY <3>1, <3>2
  <2> HIDE DEF at
  <2>10. \A n \in 1 .. Len(s) : s[n] = c => n = k
    BY <1>0, <2>3 DEF IsInjective
  <2>11. ToSet(t) = {t[i] : i \in 1 .. Len(t)} /\ ToSet(s) = {s[i] : i \in 1 .. Len(s)}
    BY <2>6, FilesSet
  <2>12. ToSet(t) = ToSet(s) \ {c}
    <3>1. ASSUME NEW i \in 1 .. Len(t) PROVE t[i] \in ToSet(s) \ {c}
      <4>1. at(i) \in 1 .. Len(s) /\ t[i] = s[at(i)] /\ s[at(i)] # c
        BY <2>7, <2>10
      <4> QED BY <2>11, <4>1
    <3>2. ASSUME NEW n \in 1 .. Len(s), s[n] # c PROVE s[n] \in ToSet(t)
      <4>1. PICK i \in 1 .. Len(t) : at(i) = n
        BY <2>3, <2>9, <3>2
      <4>2. t[i] = s[n]
        BY <2>7, <4>1
      <4> QED BY <2>11, <4>2
    <3> QED BY <2>11, <3>1, <3>2
  <2>13. IsInjective(t)
    <3>1. DOMAIN t = 1 .. Len(t)
      BY <2>6
    <3> QED BY <1>0, <2>7, <2>8, <3>1 DEF IsInjective
  <2> QED BY <2>6, <2>12, <2>13 DEF t
<1>2. CASE ~ \E i \in 1 .. Len(s) : s[i] = c
  <2>1. RemoveFirst(s, c) = s
    BY <1>2 DEF RemoveFirst
  <2>2. c \notin ToSet(s)
    BY <1>2, FilesSet
  <2> QED BY <2>1, <2>2
<1> QED BY <1>1, <1>2

LEMMA AppendNew ==
    ASSUME NEW s \in Seq(Chunk), IsInjective(s), NEW c \in Chunk, c \notin ToSet(s)
    PROVE  /\ Append(s, c) \in Seq(Chunk) /\ IsInjective(Append(s, c))
           /\ ToSet(Append(s, c)) = ToSet(s) \cup {c}
<1> DEFINE t == Append(s, c)
<1>1. DOMAIN s = 1 .. Len(s) /\ Len(s) \in Nat
  OBVIOUS
<1>2. /\ t \in Seq(Chunk) /\ Len(t) = Len(s) + 1 /\ DOMAIN t = 1 .. Len(s) + 1
      /\ \A i \in 1 .. Len(s) : t[i] = s[i]
      /\ t[Len(s) + 1] = c
  OBVIOUS
<1>3. \A i \in 1 .. Len(s) + 1 : i \in 1 .. Len(s) \/ i = Len(s) + 1
  BY <1>1
<1>4. \A i \in 1 .. Len(s) : s[i] # c
  BY <1>1 DEF ToSet
<1> HIDE DEF t
<1>5. IsInjective(t)
  BY <1>1, <1>2, <1>3, <1>4 DEF IsInjective
<1>6. ToSet(t) = ToSet(s) \cup {c}
  BY <1>1, <1>2, <1>3 DEF ToSet
<1> QED BY <1>2, <1>5, <1>6 DEF t

(* save_chunk adds the chunk to those stored, once. *)
LEMMA SavedProperties ==
    ASSUME files \in Seq(Chunk), FilesOnce, NEW c \in Chunk
    PROVE  /\ Saved(c) \in Seq(Chunk) /\ IsInjective(Saved(c))
           /\ ToSet(Saved(c)) = Stored \cup {c}
<1>1. CASE c \in Stored
  BY <1>1 DEF Saved, FilesOnce, Stored
<1>2. CASE c \notin Stored
  BY <1>2, AppendNew DEF Saved, FilesOnce, Stored
<1> QED BY <1>1, <1>2

(* load_chunk keeps what is stored. *)
LEMMA LoadedProperties ==
    ASSUME files \in Seq(Chunk), FilesOnce, NEW c \in Chunk, Load(c)
    PROVE  files' \in Seq(Chunk) /\ IsInjective(files') /\ ToSet(files') = Stored
<1> DEFINE t == RemoveFirst(files, c)
<1>1. CASE files' = files
  BY <1>1 DEF FilesOnce, Stored
<1>2. CASE files' = Append(t, c)
  <2>1. t \in Seq(Chunk) /\ IsInjective(t) /\ ToSet(t) = Stored \ {c}
    BY RemoveProperties DEF FilesOnce, Stored
  <2> HIDE DEF t
  <2>2. /\ Append(t, c) \in Seq(Chunk) /\ IsInjective(Append(t, c))
        /\ ToSet(Append(t, c)) = (Stored \ {c}) \cup {c}
    BY <2>1, AppendNew
  <2>3. c \in Stored
    BY DEF Load
  <2> QED BY <1>2, <2>2, <2>3
<1> QED BY <1>1, <1>2 DEF Load

(* A list without its head. *)
LEMMA TailSet ==
    ASSUME NEW s \in Seq(Chunk), s # <<>>
    PROVE  /\ Head(s) \in Chunk /\ Tail(s) \in Seq(Chunk)
           /\ Head(s) \in ToSet(s) /\ ToSet(s) = {Head(s)} \cup ToSet(Tail(s))
           /\ IsInjective(s) => IsInjective(Tail(s)) /\ Head(s) \notin ToSet(Tail(s))
<1>1. /\ Head(s) = s[1] /\ Head(s) \in Chunk
      /\ Tail(s) \in Seq(Chunk) /\ Len(Tail(s)) = Len(s) - 1
      /\ \A i \in 1 .. Len(s) - 1 : Tail(s)[i] = s[i + 1]
  BY HeadTailProperties
<1>2. /\ ToSet(s) = {s[i] : i \in 1 .. Len(s)} /\ Len(s) \in Nat
      /\ ToSet(Tail(s)) = {Tail(s)[i] : i \in 1 .. Len(Tail(s))}
  BY <1>1, FilesSet
<1>3. ASSUME NEW i \in 1 .. Len(s) PROVE s[i] \in {Head(s)} \cup ToSet(Tail(s))
  <2>1. CASE i = 1
    BY <1>1, <2>1
  <2>2. CASE i # 1
    <3>1. i - 1 \in 1 .. Len(Tail(s)) /\ (i - 1) + 1 = i
      BY <1>1, <1>2, <2>2
    <3>2. Tail(s)[i - 1] = s[i]
      BY <1>1, <3>1
    <3> QED BY <1>2, <3>1, <3>2
  <2> QED BY <2>1, <2>2
<1>4. ASSUME NEW i \in 1 .. Len(Tail(s)) PROVE i + 1 \in 1 .. Len(s) /\ Tail(s)[i] = s[i + 1]
  BY <1>1, <1>2
<1>5. 1 \in 1 .. Len(s)
  <2>1. Len(s) # 0
    OBVIOUS
  <2> QED BY <1>2, <2>1
<1>6. ASSUME IsInjective(s) PROVE IsInjective(Tail(s)) /\ Head(s) \notin ToSet(Tail(s))
  <2>1. DOMAIN s = 1 .. Len(s) /\ DOMAIN Tail(s) = 1 .. Len(Tail(s))
    BY <1>1, FilesSet
  <2>2. \A i, j \in 1 .. Len(s) : s[i] = s[j] => i = j
    BY <1>6, <2>1 DEF IsInjective
  <2>3. ASSUME NEW i \in 1 .. Len(Tail(s)), NEW j \in 1 .. Len(Tail(s)), Tail(s)[i] = Tail(s)[j]
        PROVE  i = j
    <3>1. i + 1 = j + 1
      BY <1>4, <2>2, <2>3
    <3> QED BY <3>1
  <2>4. ASSUME NEW i \in 1 .. Len(Tail(s)) PROVE Tail(s)[i] # Head(s)
    <3>1. i + 1 # 1
      OBVIOUS
    <3> QED BY <1>1, <1>4, <1>5, <2>2, <3>1
  <2> QED BY <1>2, <2>1, <2>3, <2>4 DEF IsInjective
<1> QED BY <1>1, <1>2, <1>3, <1>4, <1>5, <1>6

-----------------------------------------------------------------------------
(* The bytes in use. *)

LEMMA UsedType ==
    ASSUME QuotaTypeOK
    PROVE  /\ Stored \in SUBSET Chunk /\ IsFiniteSet(Stored)
           /\ Used = other + Total(Stored)
           /\ other \in Nat /\ Total(Stored) \in Nat /\ Used \in Nat
<1>1. Stored \in SUBSET Chunk /\ IsFiniteSet(Stored)
  BY FilesSet DEF Stored, QuotaTypeOK
<1>2. Used = other + Total(Stored)
  BY DEF Used, Total
<1>3. other \in Nat
  BY SizeAssumption DEF QuotaTypeOK
<1>4. Total(Stored) \in Nat
  BY <1>1, TotalType
<1> QED BY <1>1, <1>2, <1>3, <1>4

(* A chunk more is its size more, unless it was there. *)
LEMMA UsedMore ==
    ASSUME QuotaTypeOK, NEW c \in Chunk
    PROVE  Total(Stored \cup {c}) \in Nat /\ Total(Stored \cup {c}) >= Total(Stored)
<1>1. CASE c \in Stored
  <2>1. Stored \cup {c} = Stored
    BY <1>1
  <2>2. Total(Stored) \in Nat
    BY UsedType
  <2>3. Total(Stored) >= Total(Stored)
    BY <2>2
  <2> QED BY <2>1, <2>2, <2>3, Zenon
<1>2. CASE c \notin Stored
  <2> DEFINE S == Stored \cup {c}
  <2>1. S \in SUBSET Chunk /\ IsFiniteSet(S) /\ c \in S /\ S \ {c} = Stored
    BY <1>2, UsedType, FS_AddElement
  <2> HIDE DEF S
  <2>2. Total(S) = Size[c] + Total(Stored)
    BY <2>1, TotalWithout
  <2>3. Size[c] \in Nat /\ Total(Stored) \in Nat
    BY UsedType, SizeAssumption
  <2> QED BY <2>2, <2>3 DEF S
<1> QED BY <1>1, <1>2

(* A chunk less is its size less. *)
LEMMA UsedLess ==
    ASSUME QuotaTypeOK, NEW c \in Chunk
    PROVE  /\ Total(Stored \ {c}) \in Nat /\ Size[c] \in Nat
           /\ c \in Stored => Total(Stored) = Size[c] + Total(Stored \ {c})
           /\ c \notin Stored => Total(Stored \ {c}) = Total(Stored)
<1>1. Stored \ {c} \in SUBSET Chunk /\ IsFiniteSet(Stored \ {c})
  BY UsedType, FS_Subset
<1>2. Total(Stored \ {c}) \in Nat
  BY <1>1, TotalType
<1>3. Size[c] \in Nat
  BY SizeAssumption
<1>4. c \in Stored => Total(Stored) = Size[c] + Total(Stored \ {c})
  BY UsedType, TotalWithout
<1>5. c \notin Stored => Stored \ {c} = Stored
  OBVIOUS
<1> QED BY <1>2, <1>3, <1>4, <1>5

LEMMA Tenths ==
    ASSUME NEW x \in Nat
    PROVE  /\ x \div 10 \in Nat
           /\ 10 * (x \div 10) <= x /\ x < 10 * (x \div 10) + 10
<1>1. x \div 10 \in Nat
  OBVIOUS
<1>2. 10 * (x \div 10) <= x
  OBVIOUS
<1>3. x < 10 * (x \div 10) + 10
  OBVIOUS
<1> QED BY <1>1, <1>2, <1>3

-----------------------------------------------------------------------------
(* The steps.  For each, the types and the invariant are kept, no chunk is  *)
(* deleted that need not be and an eviction ends as it should.              *)

QuotaIInv == QuotaTypeOK /\ QuotaInv

Spared ==
    \A c \in Stored : c \notin ToSet(files') => 10 * (Used + since.gone) > 9 * MaxBytes

Restored ==
    evictor.pc = "evicting" /\ evictor'.pc = "off" /\ since.saved = {}
        => 10 * Used < 9 * MaxBytes + 10 + 10 * since.grown \/ files = <<>>

QuotaStep == QuotaIInv' /\ Spared /\ Restored

LEMMA Numbers ==
    ASSUME QuotaTypeOK
    PROVE  /\ Used \in Nat /\ other \in Nat /\ MaxBytes \in Nat
           /\ evictor.target \in Nat /\ evictor.freed \in Nat /\ evictor.seen \in Nat
           /\ since.grown \in Nat /\ since.gone \in Nat /\ since.saved \in SUBSET Chunk
<1>1. Used \in Nat /\ other \in Nat
  BY UsedType
<1>2. evictor.target \in Nat /\ evictor.freed \in Nat /\ evictor.seen \in Nat
  BY DEF QuotaTypeOK, Evictor
<1>3. since.grown \in Nat /\ since.gone \in Nat /\ since.saved \in SUBSET Chunk
  BY DEF QuotaTypeOK, Since
<1> QED BY <1>1, <1>2, <1>3, QuotaAssumption

LEMMA QuotaStart ==
    ASSUME QuotaInit
    PROVE  QuotaIInv
<1>1. QuotaTypeOK
  BY QuotaAssumption DEF QuotaInit, QuotaTypeOK, Off, Evictor, Nothing, Since
<1>2. FilesOnce
  BY DEF QuotaInit, FilesOnce, IsInjective
<1>3. evictor.pc = "off"
  BY DEF QuotaInit, Off
<1> QED
  BY <1>1, <1>2, <1>3
     DEF QuotaIInv, QuotaInv, FreedIsGone, FreedIsAll, ListIsStored, SeenFits, Evicting

(* What one number exceeds another by, and the other way round.            *)
LEMMA OverBoth ==
    ASSUME NEW m \in Nat, NEW n \in Nat
    PROVE  Over(m, n) \in Nat /\ Over(n, m) \in Nat /\ m + Over(n, m) = n + Over(m, n)
<1>1. CASE m > n
  BY <1>1 DEF Over
<1>2. CASE m <= n
  BY <1>2 DEF Over
<1> QED BY <1>1, <1>2

(* With the target reached, what is in use is bounded.                      *)
LEMMA EnoughFreed ==
    ASSUME NEW used \in Nat, NEW freed \in Nat, NEW target \in Nat, NEW quo \in Nat,
           NEW grown \in Nat, freed >= target,
           10 * (used + freed) < 10 * target + 9 * quo + 10 + 10 * grown
    PROVE  10 * used < 9 * quo + 10 + 10 * grown
OBVIOUS

(* The other files: by what they grow or shrink, the bytes in use do.       *)
LEMMA OthersStep ==
    ASSUME QuotaIInv, OthersChange
    PROVE  QuotaStep
<1>0. QuotaTypeOK /\ QuotaInv
  BY DEF QuotaIInv
<1>1. UNCHANGED <<files, evictor, saves>> /\ other' \in OtherSizes
  BY DEF OthersChange
<1>2. other \in Nat /\ other' \in Nat /\ Used \in Nat
  BY <1>0, <1>1, Numbers, SizeAssumption
<1>3. /\ Over(other', other) \in Nat /\ Over(other, other') \in Nat
      /\ other' + Over(other, other') = other + Over(other', other)
  BY <1>2, OverBoth
<1>4. PICK a \in Nat, b \in Nat :
         /\ other' + b = other + a
         /\ since' = IF Evicting THEN [since EXCEPT !.grown = @ + a, !.gone = @ + b] ELSE since
  BY <1>3, Zenon DEF OthersChange
<1>5. /\ since' \in Since /\ since'.saved = since.saved
      /\ Evicting => since'.grown = since.grown + a /\ since'.gone = since.gone + b
  <2>1. since \in Since /\ since.grown \in Nat /\ since.gone \in Nat
    BY <1>0, Numbers DEF QuotaTypeOK
  <2>2. since.grown + a \in Nat /\ since.gone + b \in Nat
    BY <2>1
  <2> QED BY <1>4, <2>1, <2>2 DEF Since
<1>6. QuotaTypeOK'
  BY <1>0, <1>1, <1>5 DEF QuotaTypeOK
<1>7. Stored' = Stored /\ Used' \in Nat /\ Used' + b = Used + a
  <2>1. Stored' = Stored
    BY <1>1 DEF Stored
  <2>2. Used' = other' + Total(Stored) /\ Used = other + Total(Stored) /\ Total(Stored) \in Nat
    BY <1>0, <2>1, UsedType DEF Used, Total
  <2> QED BY <1>2, <1>4, <2>1, <2>2
<1>8. FreedIsGone'
  <2> SUFFICES ASSUME Evicting
               PROVE  10 * (Used' + evictor.freed + since'.gone)
                          >= 10 * evictor.target + 9 * MaxBytes
    BY <1>1 DEF FreedIsGone, Evicting
  <2>1. 10 * (Used + evictor.freed + since.gone) >= 10 * evictor.target + 9 * MaxBytes
    BY <1>0 DEF FreedIsGone, QuotaInv
  <2>2. since'.gone = since.gone + b
    BY <1>5
  <2>3. /\ evictor.freed \in Nat /\ evictor.target \in Nat /\ since.gone \in Nat
        /\ MaxBytes \in Nat
    BY <1>0, Numbers
  <2>4. Used' + evictor.freed + since'.gone = Used + evictor.freed + since.gone + a
    BY <1>2, <1>4, <1>7, <2>2, <2>3
  <2> QED BY <1>2, <1>4, <2>1, <2>3, <2>4
<1>9. FreedIsAll'
  <2> SUFFICES ASSUME Evicting, since.saved = {}
               PROVE  10 * (Used' + evictor.freed)
                          < 10 * evictor.target + 9 * MaxBytes + 10 + 10 * since'.grown
    BY <1>1, <1>5 DEF FreedIsAll, Evicting
  <2>1. 10 * (Used + evictor.freed)
            < 10 * evictor.target + 9 * MaxBytes + 10 + 10 * since.grown
    BY <1>0 DEF FreedIsAll, QuotaInv
  <2>2. since'.grown = since.grown + a
    BY <1>5
  <2>3. /\ evictor.freed \in Nat /\ evictor.target \in Nat /\ since.grown \in Nat
        /\ MaxBytes \in Nat
    BY <1>0, Numbers
  <2>4. Used' <= Used + a
    BY <1>2, <1>4, <1>7
  <2> QED BY <1>2, <1>4, <1>7, <2>1, <2>2, <2>3, <2>4
<1>10. FilesOnce' /\ ListIsStored' /\ SeenFits'
  BY <1>0, <1>1, <1>5, <1>7 DEF QuotaInv, FilesOnce, ListIsStored, SeenFits, Enough
<1>11. Spared /\ Restored
  BY <1>1 DEF Spared, Restored, Stored
<1> QED BY <1>6, <1>8, <1>9, <1>10, <1>11 DEF QuotaStep, QuotaIInv, QuotaInv

(* Whatever saves a chunk: save_chunk in a route or, once more, in          *)
(* replicate_chunks.                                                        *)
LEMMA SaveStep ==
    ASSUME QuotaIInv, NEW c \in Chunk, Write(c), saves' \in 0 .. MaxSaves
    PROVE  QuotaStep
<1>0. QuotaTypeOK /\ QuotaInv /\ FilesOnce
  BY DEF QuotaIInv, QuotaInv
<1>1. UNCHANGED <<other, evictor>> /\ files' = Saved(c)
  BY DEF Write
<1>2. files' \in Seq(Chunk) /\ IsInjective(files') /\ Stored' = Stored \cup {c}
  BY <1>0, <1>1, SavedProperties DEF QuotaTypeOK, Stored
<1>3. /\ since' \in Since /\ since'.gone = since.gone
      /\ Evicting => since'.saved # {}
  <2>1. since \in Since
    BY <1>0 DEF QuotaTypeOK
  <2> QED BY <2>1 DEF Write, Since
<1>4. QuotaTypeOK'
  BY <1>0, <1>1, <1>2, <1>3 DEF QuotaTypeOK
<1>5. FilesOnce'
  BY <1>2 DEF FilesOnce
<1>6. Used \in Nat /\ Used' \in Nat /\ Used' >= Used
  <2>1. Used' = other + Total(Stored \cup {c})
    BY <1>1, <1>2 DEF Used, Total
  <2>2. /\ Total(Stored \cup {c}) \in Nat /\ Total(Stored \cup {c}) >= Total(Stored)
        /\ Used = other + Total(Stored) /\ other \in Nat /\ Total(Stored) \in Nat
    BY <1>0, UsedType, UsedMore
  <2> QED BY <2>1, <2>2
<1>7. FreedIsGone'
  <2> SUFFICES ASSUME Evicting
               PROVE  10 * (Used' + evictor.freed + since.gone)
                          >= 10 * evictor.target + 9 * MaxBytes
    BY <1>1, <1>3 DEF FreedIsGone, Evicting
  <2>1. 10 * (Used + evictor.freed + since.gone) >= 10 * evictor.target + 9 * MaxBytes
    BY <1>0 DEF FreedIsGone, QuotaInv
  <2>2. /\ evictor.freed \in Nat /\ evictor.target \in Nat /\ since.gone \in Nat
        /\ MaxBytes \in Nat
    BY <1>0, Numbers
  <2> QED BY <1>6, <2>1, <2>2
<1>8. FreedIsAll'
  BY <1>1, <1>3 DEF FreedIsAll, Evicting
<1>9. ListIsStored' /\ SeenFits'
  BY <1>0, <1>1, <1>2, <1>3
     DEF QuotaInv, ListIsStored, SeenFits, Enough, Evicting
<1>10. Spared
  BY <1>2 DEF Spared, Stored
<1>11. Restored
  BY <1>1 DEF Restored
<1> QED BY <1>4, <1>5, <1>7, <1>8, <1>9, <1>10, <1>11 DEF QuotaStep, QuotaIInv, QuotaInv

LEMMA LoadStep ==
    ASSUME QuotaIInv, NEW c \in Chunk, Load(c)
    PROVE  QuotaStep
<1>0. QuotaTypeOK /\ QuotaInv /\ FilesOnce
  BY DEF QuotaIInv, QuotaInv
<1>1. files' \in Seq(Chunk) /\ IsInjective(files') /\ Stored' = Stored
  BY <1>0, LoadedProperties DEF QuotaTypeOK, Stored
<1>2. UNCHANGED <<other, evictor, saves, since>>
  BY DEF Load
<1>3. QuotaTypeOK' /\ FilesOnce'
  BY <1>0, <1>1, <1>2 DEF QuotaTypeOK, FilesOnce
<1>4. Used' = Used
  BY <1>1, <1>2 DEF Used
<1>5. FreedIsGone' /\ FreedIsAll' /\ ListIsStored' /\ SeenFits'
  BY <1>0, <1>1, <1>2, <1>4
     DEF QuotaInv, FreedIsGone, FreedIsAll, ListIsStored, SeenFits, Enough, Evicting
<1>6. Spared /\ Restored
  BY <1>1, <1>2 DEF Spared, Restored, Stored
<1> QED BY <1>3, <1>5, <1>6 DEF QuotaStep, QuotaIInv, QuotaInv

LEMMA StutterStep ==
    ASSUME QuotaIInv, UNCHANGED quota
    PROVE  QuotaStep
<1>1. UNCHANGED <<files, other, evictor, saves, since>>
  BY DEF quota
<1>2. Stored' = Stored /\ Used' = Used
  BY <1>1 DEF Stored, Used
<1>3. QuotaIInv'
  BY <1>1, <1>2 DEF QuotaIInv, QuotaTypeOK, QuotaInv, FilesOnce, FreedIsGone, FreedIsAll,
                    ListIsStored, SeenFits, Enough, Evicting
<1>4. Spared /\ Restored
  BY <1>1 DEF Spared, Restored, Stored
<1> QED BY <1>3, <1>4 DEF QuotaStep

(* The monitor finds the quota exceeded: what is in use is the target and   *)
(* nine tenths of the quota, up to a byte.                                  *)
LEMMA CheckStep ==
    ASSUME QuotaIInv, CheckQuota
    PROVE  QuotaStep
<1>0. QuotaTypeOK /\ QuotaInv /\ FilesOnce
  BY DEF QuotaIInv, QuotaInv
<1>1. UNCHANGED <<files, other, saves, since>> /\ Used > MaxBytes
  BY DEF CheckQuota
<1>2. Used \in Nat /\ MaxBytes \in Nat /\ since.grown \in Nat /\ since.gone \in Nat
  BY <1>0, Numbers
<1>3. 10 * Used - 9 * MaxBytes \in Nat
  BY <1>1, <1>2
<1>4. /\ Target \in Nat
      /\ 10 * Target <= 10 * Used - 9 * MaxBytes
      /\ 10 * Used - 9 * MaxBytes < 10 * Target + 10
  BY <1>3, Tenths DEF Target
<1>5. evictor' = [pc |-> "started", list |-> <<>>, target |-> Target, freed |-> 0, seen |-> 0]
  BY DEF CheckQuota, Off
<1>6. QuotaTypeOK'
  <2>1. evictor' \in Evictor
    BY <1>4, <1>5 DEF Evictor
  <2> QED BY <1>0, <1>1, <2>1 DEF QuotaTypeOK
<1>7. Stored' = Stored /\ Used' = Used /\ FilesOnce'
  BY <1>0, <1>1 DEF Stored, Used, FilesOnce
<1>8. /\ 10 * (Used' + evictor'.freed + since'.gone) >= 10 * evictor'.target + 9 * MaxBytes
      /\ 10 * (Used' + evictor'.freed)
             < 10 * evictor'.target + 9 * MaxBytes + 10 + 10 * since'.grown
  <2>1. evictor'.freed = 0 /\ evictor'.target = Target /\ since' = since
    BY <1>1, <1>5
  <2>2. /\ 10 * (Used + 0 + since.gone) >= 10 * Target + 9 * MaxBytes
        /\ 10 * (Used + 0) < 10 * Target + 9 * MaxBytes + 10 + 10 * since.grown
    BY <1>2, <1>4
  <2> QED BY <1>7, <2>1, <2>2
<1>9. FreedIsGone' /\ FreedIsAll'
  BY <1>8 DEF FreedIsGone, FreedIsAll
<1>10. ListIsStored' /\ SeenFits' /\ Restored
  BY <1>5 DEF ListIsStored, SeenFits, Restored
<1>11. Spared
  BY <1>1 DEF Spared, Stored
<1> QED
  BY <1>6, <1>7, <1>9, <1>10, <1>11 DEF QuotaStep, QuotaIInv, QuotaInv

LEMMA ListStep ==
    ASSUME QuotaIInv, ListChunks
    PROVE  QuotaStep
<1>0. QuotaTypeOK /\ QuotaInv
  BY DEF QuotaIInv
<1>1. UNCHANGED <<files, other, saves, since>> /\ evictor.pc = "started"
  BY DEF ListChunks
<1>2. /\ evictor' \in Evictor /\ evictor'.pc = "evicting" /\ evictor'.list = files
      /\ evictor'.target = evictor.target /\ evictor'.freed = evictor.freed
  BY <1>0 DEF ListChunks, QuotaTypeOK, Evictor
<1>3. QuotaTypeOK'
  BY <1>0, <1>1, <1>2 DEF QuotaTypeOK
<1>4. Stored' = Stored /\ Used' = Used
  BY <1>1 DEF Stored, Used
<1>5. FilesOnce' /\ FreedIsGone' /\ FreedIsAll'
  BY <1>0, <1>1, <1>2, <1>4 DEF QuotaInv, FilesOnce, FreedIsGone, FreedIsAll, Evicting
<1>6. ListIsStored' /\ SeenFits'
  BY <1>0, <1>2, <1>4 DEF QuotaInv, FilesOnce, ListIsStored, SeenFits, Stored
<1>7. Spared /\ Restored
  BY <1>1, <1>2 DEF Spared, Restored, Stored
<1> QED BY <1>3, <1>5, <1>6, <1>7 DEF QuotaStep, QuotaIInv, QuotaInv

(* The thread reads the size of the next chunk of its list, or a part of it *)
(* when the chunk was saved meanwhile.                                      *)
LEMMA StatStep ==
    ASSUME QuotaIInv, StatNext
    PROVE  QuotaStep
<1> DEFINE c == Head(evictor.list)
<1>0. QuotaTypeOK /\ QuotaInv /\ evictor.pc = "evicting"
  BY DEF QuotaIInv, StatNext
<1>1. /\ UNCHANGED <<files, other, saves, since>> /\ evictor.list # <<>> /\ ~Enough
  BY DEF StatNext
<1>2. PICK n \in SizesSeen(c) : evictor' = [evictor EXCEPT !.pc = "unlinking", !.seen = n]
  BY DEF StatNext
<1>3. c \in Chunk /\ Size[c] \in Nat
  BY <1>0, <1>1, TailSet, SizeAssumption DEF QuotaTypeOK, Evictor
<1>4. n \in Nat /\ n <= Size[c]
  BY <1>2, <1>3 DEF SizesSeen
<1>5. /\ evictor' \in Evictor /\ evictor'.pc = "unlinking" /\ evictor'.seen = n
      /\ evictor'.list = evictor.list
      /\ evictor'.target = evictor.target /\ evictor'.freed = evictor.freed
  BY <1>0, <1>2, <1>4 DEF QuotaTypeOK, Evictor
<1>6. QuotaTypeOK'
  BY <1>0, <1>1, <1>5 DEF QuotaTypeOK
<1>7. Stored' = Stored /\ Used' = Used
  BY <1>1 DEF Stored, Used
<1>8. FilesOnce' /\ FreedIsGone' /\ FreedIsAll' /\ ListIsStored'
  BY <1>0, <1>1, <1>5, <1>7
     DEF QuotaInv, FilesOnce, FreedIsGone, FreedIsAll, ListIsStored, Evicting
<1>9. SeenFits'
  BY <1>1, <1>4, <1>5 DEF SeenFits, Enough
<1>10. Spared /\ Restored
  BY <1>1, <1>5 DEF Spared, Restored, Stored
<1> QED BY <1>6, <1>8, <1>9, <1>10 DEF QuotaStep, QuotaIInv, QuotaInv

(* The thread deletes that chunk, before the target is reached.  What it    *)
(* counts as freed, and what it did not see, is no longer in use.           *)
LEMMA UnlinkStep ==
    ASSUME QuotaIInv, UnlinkNext
    PROVE  QuotaStep
<1> DEFINE c == Head(evictor.list)
<1>0. QuotaTypeOK /\ QuotaInv /\ FilesOnce /\ evictor.pc = "unlinking"
  BY DEF QuotaIInv, QuotaInv, UnlinkNext
<1>1. /\ evictor.list \in Seq(Chunk) /\ evictor.list # <<>> /\ evictor.seen <= Size[c]
      /\ evictor.freed < evictor.target
  BY <1>0, Numbers DEF QuotaInv, SeenFits, QuotaTypeOK, Evictor, Enough
<1>2. /\ c \in Chunk /\ c \in ToSet(evictor.list)
      /\ Tail(evictor.list) \in Seq(Chunk)
      /\ ToSet(evictor.list) = {c} \cup ToSet(Tail(evictor.list))
      /\ IsInjective(evictor.list)
             => IsInjective(Tail(evictor.list)) /\ c \notin ToSet(Tail(evictor.list))
  BY <1>1, TailSet
<1>3. /\ UNCHANGED <<other, saves>> /\ files' = RemoveFirst(files, c)
      /\ evictor' = [evictor EXCEPT !.pc = "evicting", !.list = Tail(@),
                                    !.freed = @ + evictor.seen, !.seen = 0]
      /\ since' = [since EXCEPT !.gone = @ + (Size[c] - evictor.seen)]
  BY DEF UnlinkNext
<1> HIDE DEF c
<1>4. /\ IsInjective(evictor.list) /\ ToSet(evictor.list) \subseteq Stored
      /\ since.saved = {} => Stored \subseteq ToSet(evictor.list)
  BY <1>0 DEF QuotaInv, ListIsStored
<1>5. files' \in Seq(Chunk) /\ IsInjective(files') /\ Stored' = Stored \ {c}
  BY <1>0, <1>2, <1>3, RemoveProperties DEF QuotaTypeOK, FilesOnce, Stored
<1> DEFINE r == Total(Stored \ {c})
           missed == Size[c] - evictor.seen
<1>6. r \in Nat /\ Size[c] \in Nat /\ Total(Stored) = Size[c] + r
  BY <1>0, <1>2, <1>4, UsedLess
<1>7. /\ Used \in Nat /\ other \in Nat /\ MaxBytes \in Nat
      /\ evictor.target \in Nat /\ evictor.freed \in Nat /\ evictor.seen \in Nat
      /\ since.grown \in Nat /\ since.gone \in Nat
  BY <1>0, Numbers
<1>8. Used = other + (Size[c] + r) /\ Used' = other + r
  <2>1. Used = other + Total(Stored)
    BY <1>0, UsedType
  <2>2. Used' = other + Total(Stored \ {c})
    BY <1>3, <1>5 DEF Used, Total
  <2> QED BY <1>6, <2>1, <2>2
<1> HIDE DEF r
<1>9. missed \in Nat /\ Size[c] = evictor.seen + missed
  BY <1>1, <1>6, <1>7
<1>10. since' = [since EXCEPT !.gone = @ + missed]
  BY <1>3
<1> HIDE DEF missed
<1>11. /\ evictor' \in Evictor /\ evictor'.pc = "evicting"
       /\ evictor'.list = Tail(evictor.list) /\ evictor'.target = evictor.target
       /\ evictor'.freed = evictor.freed + evictor.seen
  <2>1. evictor \in Evictor /\ evictor.freed + evictor.seen \in Nat
    BY <1>0, <1>7 DEF QuotaTypeOK
  <2> QED BY <1>2, <1>3, <2>1 DEF Evictor
<1>12. /\ since' \in Since /\ since'.saved = since.saved /\ since'.grown = since.grown
       /\ since'.gone = since.gone + missed
  <2>1. since \in Since /\ since.gone + missed \in Nat
    BY <1>0, <1>7, <1>9 DEF QuotaTypeOK
  <2> QED BY <1>10, <2>1 DEF Since
<1>13. QuotaTypeOK' /\ FilesOnce'
  BY <1>0, <1>3, <1>5, <1>11, <1>12 DEF QuotaTypeOK, FilesOnce
<1>14. FreedIsGone'
  <2>1. 10 * (Used + evictor.freed + since.gone) >= 10 * evictor.target + 9 * MaxBytes
    BY <1>0 DEF QuotaInv, FreedIsGone, Evicting
  <2>2. Used' + evictor'.freed + since'.gone = Used + evictor.freed + since.gone
    BY <1>6, <1>7, <1>8, <1>9, <1>11, <1>12
  <2> QED BY <1>11, <2>1, <2>2 DEF FreedIsGone
<1>15. FreedIsAll'
  <2> SUFFICES ASSUME since.saved = {}
               PROVE  10 * (Used' + evictor'.freed)
                          < 10 * evictor'.target + 9 * MaxBytes + 10 + 10 * since'.grown
    BY <1>12 DEF FreedIsAll
  <2>1. 10 * (Used + evictor.freed)
            < 10 * evictor.target + 9 * MaxBytes + 10 + 10 * since.grown
    BY <1>0 DEF QuotaInv, FreedIsAll, Evicting
  <2>2. (Used' + evictor'.freed) + missed = Used + evictor.freed
    BY <1>6, <1>7, <1>8, <1>9, <1>11
  <2>3. Used' + evictor'.freed \in Nat
    BY <1>6, <1>7, <1>8, <1>11
  <2> DEFINE m == Used' + evictor'.freed
             n == Used + evictor.freed
  <2>4. m \in Nat /\ n \in Nat /\ m + missed = n
    BY <1>7, <2>2, <2>3
  <2>5. 10 * n < 10 * evictor.target + 9 * MaxBytes + 10 + 10 * since.grown
    BY <2>1
  <2> HIDE DEF m, n
  <2>6. 10 * m < 10 * evictor.target + 9 * MaxBytes + 10 + 10 * since.grown
    BY <1>7, <1>9, <2>4, <2>5
  <2> QED BY <1>11, <1>12, <2>6 DEF m
<1>16. ListIsStored'
  <2>1. IsInjective(evictor'.list) /\ ToSet(evictor'.list) \subseteq Stored'
    BY <1>2, <1>4, <1>5, <1>11
  <2>2. since'.saved = {} => Stored' \subseteq ToSet(evictor'.list)
    BY <1>2, <1>4, <1>5, <1>11, <1>12
  <2> QED BY <2>1, <2>2 DEF ListIsStored
<1>17. SeenFits' /\ Restored
  BY <1>0, <1>11 DEF SeenFits, Restored
<1>18. Spared
  <2>1. 10 * (Used + evictor.freed + since.gone) >= 10 * evictor.target + 9 * MaxBytes
    BY <1>0 DEF QuotaInv, FreedIsGone, Evicting
  <2>2. 10 * (Used + since.gone) > 9 * MaxBytes
    BY <1>1, <1>7, <2>1
  <2> QED BY <2>2 DEF Spared
<1> QED
  BY <1>13, <1>14, <1>15, <1>16, <1>17, <1>18 DEF QuotaStep, QuotaIInv, QuotaInv

(* The thread is done: it freed enough, or its list is empty.               *)
LEMMA EndStep ==
    ASSUME QuotaIInv, EvictEnd
    PROVE  QuotaStep
<1>0. QuotaTypeOK /\ QuotaInv
  BY DEF QuotaIInv
<1>1. /\ UNCHANGED <<files, other, saves>> /\ evictor.pc = "evicting" /\ evictor' = Off
      /\ since' = Nothing
  BY DEF EvictEnd
<1>2. QuotaTypeOK'
  <2>1. Off \in Evictor /\ Nothing \in Since
    BY DEF Off, Evictor, Nothing, Since
  <2> QED BY <1>0, <1>1, <2>1 DEF QuotaTypeOK
<1>3. evictor'.pc = "off"
  BY <1>1 DEF Off
<1>4. QuotaInv'
  BY <1>0, <1>1, <1>3
     DEF QuotaInv, FilesOnce, FreedIsGone, FreedIsAll, ListIsStored, SeenFits, Evicting
<1>5. Spared
  BY <1>1 DEF Spared, Stored
<1>6. Restored
  <2> SUFFICES ASSUME since.saved = {}
               PROVE  10 * Used < 9 * MaxBytes + 10 + 10 * since.grown \/ files = <<>>
    BY DEF Restored
  <2>1. CASE Enough
    <3>1. 10 * (Used + evictor.freed)
              < 10 * evictor.target + 9 * MaxBytes + 10 + 10 * since.grown
      BY <1>0, <1>1 DEF QuotaInv, FreedIsAll, Evicting
    <3>2. /\ Used \in Nat /\ MaxBytes \in Nat /\ evictor.freed \in Nat /\ evictor.target \in Nat
          /\ since.grown \in Nat
      BY <1>0, Numbers
    <3>3. evictor.freed >= evictor.target
      BY <2>1 DEF Enough
    <3>4. 10 * Used < 9 * MaxBytes + 10 + 10 * since.grown
      BY <3>1, <3>2, <3>3, EnoughFreed
    <3> QED BY <3>4
  <2>2. CASE evictor.list = <<>>
    <3>1. Stored \subseteq ToSet(evictor.list)
      BY <1>0, <1>1 DEF QuotaInv, ListIsStored
    <3>2. ToSet(evictor.list) = {}
      BY <2>2 DEF ToSet
    <3>3. Stored = {}
      BY <3>1, <3>2
    <3>4. files \in Seq(Chunk)
      BY <1>0 DEF QuotaTypeOK
    <3>5. files # <<>> => Head(files) \in Stored
      BY <3>4 DEF Stored, ToSet
    <3> QED BY <3>3, <3>5
  <2> QED BY <2>1, <2>2 DEF EvictEnd
<1> QED BY <1>2, <1>4, <1>5, <1>6 DEF QuotaStep, QuotaIInv

-----------------------------------------------------------------------------
(* The chunk files of the node. *)

(* A step of an upload writes its chunk over or again, or leaves the files. *)
LEMMA FilesReplicate ==
    ASSUME QuotaIInv, ReplicationTypeOK, NEW u \in Request, Replicate(u)
    PROVE  QuotaStep
<1>1. CASE Resave(u)
    <2>1. upload[u].chunk \in Chunk
        BY DEF ReplicationTypeOK, Upload
    <2>2. Write(upload[u].chunk) /\ UNCHANGED saves
        BY <1>1 DEF Resave
    <2>3. saves' \in 0 .. MaxSaves
        BY <2>2 DEF QuotaIInv, QuotaTypeOK
    <2> QED
        BY <2>1, <2>2, <2>3, SaveStep
<1>2. CASE ~ Resave(u)
    <2>1. UNCHANGED quota
        BY <1>2 DEF Replicate, NoPeers, Select, Assign, UploadSend
    <2> QED
        BY <2>1, StutterStep
<1> QED
    BY <1>1, <1>2

(* A round of the healer reads chunks that are there, or fails when one is  *)
(* deleted under it.                                                        *)
LEMMA FilesHeal ==
    ASSUME QuotaIInv, Heal
    PROVE  QuotaStep
<1>1. UNCHANGED quota \/ UnlinkNext \/ \E c \in Chunk : Load(c)
    BY DEF Heal, BeginRound, Reassign, EndRound, PassOver, PickTargets, RoundFails, HealSend
<1> QED
    BY <1>1, StutterStep, LoadStep, UnlinkStep

LEMMA FilesStep ==
    ASSUME QuotaIInv, ReplicationTypeOK, [Next]_vars
    PROVE  QuotaStep
<1>1. ASSUME NEW c \in Chunk, Save(c)
      PROVE  QuotaStep
    <2>1. saves < MaxSaves /\ saves' = saves + 1 /\ Write(c)
        BY <1>1 DEF Save
    <2>2. saves' \in 0 .. MaxSaves
        BY <2>1, QuotaAssumption DEF QuotaIInv, QuotaTypeOK
    <2> QED
        BY <2>1, <2>2, SaveStep
<1>2. CASE Collect
    BY <1>2, CheckStep, ListStep, StatStep, UnlinkStep, EndStep DEF Collect
<1>3. ASSUME NEW p \in Peer, Appear(p) \/ Lapse(p)
      PROVE  UNCHANGED quota
    BY <1>3 DEF Appear, Lapse
<1>4. ASSUME NEW c \in Chunk, RouteSaves(c)
      PROVE  Save(c)
    BY <1>4 DEF RouteSaves
<1>5. ASSUME NEW c \in Chunk, RouteLoads(c)
      PROVE  Load(c)
    BY <1>5 DEF RouteLoads
<1>6. ASSUME NEW u \in Request, NEW c \in Chunk, StartUpload(u, c)
      PROVE  Save(c)
    BY <1>6 DEF StartUpload
<1>7. (CollectGarbage => Collect) /\ (OtherFiles => OthersChange)
    BY DEF CollectGarbage, OtherFiles
<1>8. UNCHANGED vars => UNCHANGED quota
    BY DEF vars
<1>9. \/ UNCHANGED quota \/ Collect \/ OthersChange \/ Heal
      \/ \E c \in Chunk : Save(c) \/ Load(c)
      \/ \E u \in Request : Replicate(u)
    BY <1>3, <1>4, <1>5, <1>6, <1>7, <1>8 DEF Next
<1> QED
    BY <1>1, <1>2, <1>9, FilesReplicate, FilesHeal, StutterStep, LoadStep, OthersStep

LEMMA FilesAlways == Spec => []QuotaIInv
<1>1. Init => QuotaIInv
    BY QuotaStart DEF Init
<1>2. QuotaIInv /\ ReplicationTypeOK /\ [Next]_vars => QuotaIInv'
    BY FilesStep DEF QuotaStep
<1> QED
    BY <1>1, <1>2, TypeCorrect, PTL DEF Spec

(* The files, the eviction and the bookkeeping of replicas keep their types *)
(* together; the bytes an eviction has to free are never negative.          *)
THEOREM WellTyped == Spec => []TypeOK
<1>1. QuotaIInv /\ ReplicationTypeOK => TypeOK
    BY DEF QuotaIInv, TypeOK
<1> QED
    BY <1>1, FilesAlways, TypeCorrect, PTL

(* While a chunk file is deleted, more than nine tenths of the quota are in *)
(* use, or would be if nothing had gone uncounted since the check, whatever *)
(* uploads, routes and rounds save and load and whatever other files come   *)
(* and go meanwhile.                                                        *)
THEOREM NoNeedlessEviction == Spec => EvictsNoMore
<1>1. QuotaIInv /\ ReplicationTypeOK /\ [Next]_vars
          => [\A c \in Stored : c \notin ToSet(files')
                  => 10 * (Used + since.gone) > 9 * MaxBytes]_quota
    BY FilesStep DEF QuotaStep, Spared
<1> QED
    BY <1>1, FilesAlways, TypeCorrect, PTL DEF Spec, EvictsNoMore

(* An eviction during which no chunk was saved ends below nine tenths of    *)
(* the quota, up to a byte and to what the other files grew by meanwhile,   *)
(* or with no chunk left.                                                   *)
THEOREM EvictionsSuffice == Spec => QuotaRestored
<1>1. QuotaIInv /\ ReplicationTypeOK /\ [Next]_vars
          => [evictor.pc = "evicting" /\ evictor'.pc = "off" /\ since.saved = {}
                 => 10 * Used < 9 * MaxBytes + 10 + 10 * since.grown \/ files = <<>>]_quota
    BY FilesStep DEF QuotaStep, Restored
<1> QED
    BY <1>1, FilesAlways, TypeCorrect, PTL DEF Spec, QuotaRestored
=============================================================================
