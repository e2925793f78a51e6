------------------------------- MODULE Healing -------------------------------
(***************************************************************************)
(* Which nodes are recorded as holders of a chunk: the RoutingTable of     *)
(* backend/dht/routing.py, written by the replicate_chunks of an upload    *)
(* (backend/strategies/replication.py) and repaired in rounds by the       *)
(* SelfHealingManager (backend/advanced/self_healing.py), on one node      *)
(* whose chunk files are those of StorageQuota.                            *)
(*                                                                         *)
(* A file is one chunk here: chunks of one file are handled one after the  *)
(* other and share nothing.  Distances between ids and chunks are given.   *)
(***************************************************************************)
EXTENDS StorageQuota

CONSTANTS
    Peer,
    Self,
    K,         \* replication_factor
    Distance,  \* XOR distance of a peer's id to a chunk's hash
    Steady,    \* peers that, once there, stay and take what is sent to them
    Renamed,   \* peers whose node may have started again under another id
    Request,   \* uploads that may be under way at once
    Uploaded   \* chunks of the files uploaded here; others are fetched

ASSUME SelfAssumption == Self \notin Peer /\ Steady \subseteq Peer
ASSUME RenamedAssumption == Renamed \subseteq Peer \ Steady
ASSUME FactorAssumption == K \in Nat \ {0}
ASSUME PeerAssumption == IsFiniteSet(Peer) /\ Chunk # {}
ASSUME DistanceAssumption ==
    /\ Distance \in [Chunk -> [Peer -> Nat]]
    /\ \A c \in Chunk : IsInjective(Distance[c])

VARIABLES
    table,   \* RoutingTable._table, lists of holders as sets; {} for no entry
    alive,   \* what get_alive_peers would return
    upload,  \* the uploads under way
    healer,  \* the round of the SelfHealingManager
    sent     \* history: <<wanted, reached>> for each successful write of a chunk

replication == <<table, alive, upload, healer, sent>>
vars == <<quota, replication>>

Holder == Peer \cup {Self}

AnyChunk == CHOOSE c \in Chunk : TRUE

(* An upload: before its look at the peers, before the selection of         *)
(* targets, or with targets left to send to.                                *)
Upload == [pc : {"idle", "saved", "select", "send"}, chunk : Chunk,
           left : SUBSET Peer, ok : SUBSET Peer]

(* A round: the peers alive when it began, the chunks left to repair with   *)
(* the holders noted for them, and the targets left for the present one.    *)
Healer == [pc : {"sleep", "pick", "send"}, alive : SUBSET Peer, work : SUBSET Chunk,
           holders : [Chunk -> SUBSET Holder], chunk : Chunk, left : SUBSET Peer]

Idle == [pc |-> "idle", chunk |-> AnyChunk, left |-> {}, ok |-> {}]

Asleep == [pc |-> "sleep", alive |-> {}, work |-> {}, holders |-> [c \in Chunk |-> {}],
           chunk |-> AnyChunk, left |-> {}]

ReplicationTypeOK ==
    /\ table \in [Chunk -> SUBSET Holder]
    /\ alive \subseteq Peer
    /\ upload \in [Request -> Upload]
    /\ healer \in Healer
    /\ sent \in [Chunk -> SUBSET (Peer \X Peer)]

(* The files, the thread and the bookkeeping of replicas have their types;  *)
(* the bytes to free are never negative, since the monitor only frees above *)
(* the quota.                                                               *)
TypeOK == QuotaTypeOK /\ ReplicationTypeOK

Init ==
    /\ QuotaInit
    /\ table = [c \in Chunk |-> {}]
    /\ alive = {}
    /\ upload = [u \in Request |-> Idle] /\ healer = Asleep
    /\ sent = [c \in Chunk |-> {}]

(* An entry always names this node. *)
Recorded(c) == table[c] # {}

(* find_closest_peers: the k peers of S with the smallest distance. *)
Closest(c, S, k) ==
    {p \in S : Cardinality({q \in S : Distance[c][q] < Distance[c][p]}) < k}

(* connect_to_peer takes any id in the ACK of the node at p's address.  If  *)
(* that node was started again with a new id, p stays listed for a while.   *)
Answering(p) == IF p \in Renamed THEN Peer ELSE {p}

-----------------------------------------------------------------------------
(* The environment: HELLOs come and stop coming. *)

Appear(p) ==
    /\ p \notin alive
    /\ alive' = alive \cup {p}
    /\ UNCHANGED <<quota, table, upload, healer, sent>>

Lapse(p) ==
    /\ p \in alive \ Steady
    /\ alive' = alive \ {p}
    /\ UNCHANGED <<quota, table, upload, healer, sent>>

(* Other routes save chunks they fetched and serve those that are there. *)
RouteSaves(c) == Save(c) /\ UNCHANGED replication

RouteLoads(c) == Load(c) /\ UNCHANGED replication

OtherFiles == OthersChange /\ UNCHANGED replication

CollectGarbage == Collect /\ UNCHANGED replication

-----------------------------------------------------------------------------
(* upload_file and replicate_chunks, in the coroutine of a request u. *)

StartUpload(u, c) ==
    /\ upload[u].pc = "idle" /\ c \in Uploaded
    /\ Save(c)
    /\ upload' = [upload EXCEPT ![u] = [pc |-> "saved", chunk |-> c, left |-> {}, ok |-> {}]]
    /\ UNCHANGED <<table, alive, healer, sent>>

(* Without peers the upload route does not replicate. *)
NoPeers(u) ==
    /\ upload[u].pc = "saved" /\ alive = {}
    /\ upload' = [upload EXCEPT ![u] = Idle]
    /\ UNCHANGED <<quota, table, alive, healer, sent>>

(* replicate_chunks saves the chunk again, over the file or anew. *)
Resave(u) ==
    /\ upload[u].pc = "saved" /\ alive # {}
    /\ upload' = [upload EXCEPT ![u].pc = "select"]
    /\ Write(upload[u].chunk)
    /\ UNCHANGED <<saves, table, alive, healer, sent>>

(* _select_targets: the closest come first and there are K of them unless   *)
(* there are fewer peers, so that nothing is left for the heuristic to      *)
(* fill.  Without targets the chunk gets no entry.                          *)
Select(u) ==
    /\ upload[u].pc = "select"
    /\ upload' = IF alive = {} THEN [upload EXCEPT ![u] = Idle]
                 ELSE [upload EXCEPT ![u].pc = "send",
                                     ![u].left = Closest(upload[u].chunk, alive, K)]
    /\ UNCHANGED <<quota, table, alive, healer, sent>>

(* _send_chunk_to_peer: a write that returns counts for the peer that was   *)
(* wanted, whoever was reached.  The first form counts every target.        *)
UploadSendBlind(u, p) ==
    /\ upload[u].pc = "send" /\ p \in Closest(upload[u].chunk, upload[u].left, 1)
    /\ upload' = [upload EXCEPT ![u].left = @ \ {p}, ![u].ok = @ \cup {p}]
    /\ \/ \E q \in Answering(p) : sent' = [sent EXCEPT ![upload[u].chunk] = @ \cup {<<p, q>>}]
       \/ p \notin Steady /\ UNCHANGED sent
    /\ UNCHANGED <<quota, table, alive, healer>>

UploadSend(u, p) ==
    /\ upload[u].pc = "send" /\ p \in Closest(upload[u].chunk, upload[u].left, 1)
    /\ \/ /\ upload' = [upload EXCEPT ![u].left = @ \ {p}, ![u].ok = @ \cup {p}]
          /\ \E q \in Answering(p) : sent' = [sent EXCEPT ![upload[u].chunk] = @ \cup {<<p, q>>}]
       \/ /\ p \notin Steady
          /\ upload' = [upload EXCEPT ![u].left = @ \ {p}]
          /\ UNCHANGED sent
    /\ UNCHANGED <<quota, table, alive, healer>>

Assign(u) ==
    /\ upload[u].pc = "send" /\ upload[u].left = {}
    /\ table' = [table EXCEPT ![upload[u].chunk] = {Self} \cup upload[u].ok]
    /\ upload' = [upload EXCEPT ![u] = Idle]
    /\ UNCHANGED <<quota, alive, healer, sent>>

-----------------------------------------------------------------------------
(* _check_and_heal. *)

AliveHolders(c) == table[c] \cap (alive \cup {Self})

(* The first form is off by one. *)
LowOnCopies == {c \in Chunk : Recorded(c) /\ Cardinality(AliveHolders(c)) < K - 1}

UnderReplicated == {c \in Chunk : Recorded(c) /\ Cardinality(AliveHolders(c)) < K}

(* The look at the peers and the table, which loses the holders that are    *)
(* gone.  (The code goes on to the first send without an await; other       *)
(* coroutines have more room here.)                                         *)
BeginRound ==
    /\ healer.pc = "sleep" /\ UnderReplicated # {}
    /\ table' = [c \in Chunk |-> IF c \in UnderReplicated THEN AliveHolders(c) ELSE table[c]]
    /\ healer' = [healer EXCEPT !.pc = "pick", !.alive = alive, !.work = UnderReplicated,
                    !.holders = [c \in Chunk |->
                        IF c \in UnderReplicated THEN AliveHolders(c) ELSE {}]]
    /\ UNCHANGED <<quota, alive, upload, sent>>

Candidates(c) == healer.alive \ healer.holders[c]

(* The first form counts from nothing. *)
NeededAnew(c) == K

Needed(c) == K - Cardinality(healer.holders[c])

(* The chunk is not here any more, or it is read and nobody is left to take *)
(* it.                                                                      *)
PassOver(c) ==
    /\ healer.pc = "pick" /\ c \in healer.work
    /\ \/ c \notin Stored /\ UNCHANGED quota
       \/ Candidates(c) = {} /\ Load(c)
    /\ healer' = [healer EXCEPT !.work = @ \ {c}]
    /\ UNCHANGED <<table, alive, upload, sent>>

PickTargets(c) ==
    /\ healer.pc = "pick" /\ c \in healer.work /\ Candidates(c) # {}
    /\ Load(c)
    /\ healer' = [healer EXCEPT !.pc = "send", !.chunk = c,
                                !.left = Closest(c, Candidates(c), Needed(c))]
    /\ UNCHANGED <<table, alive, upload, sent>>

(* The eviction deletes the chunk after load_chunk found it and before it   *)
(* reads it.  The exception ends the round.                                 *)
RoundFails(c) ==
    /\ healer.pc = "pick" /\ c \in healer.work
    /\ UnlinkNext /\ Head(evictor.list) = c
    /\ healer' = Asleep
    /\ UNCHANGED <<table, alive, upload, sent>>

HealSend(p) ==
    /\ healer.pc = "send" /\ p \in Closest(healer.chunk, healer.left, 1)
    /\ \/ /\ healer' = [healer EXCEPT !.left = @ \ {p}, !.holders[healer.chunk] = @ \cup {p}]
          /\ \E q \in Answering(p) : sent' = [sent EXCEPT ![healer.chunk] = @ \cup {<<p, q>>}]
       \/ /\ p \notin Steady
          /\ healer' = [healer EXCEPT !.left = @ \ {p}]
          /\ UNCHANGED sent
    /\ UNCHANGED <<quota, table, alive, upload>>

(* The holders noted replace what the table says by now. *)
Reassign ==
    /\ healer.pc = "send" /\ healer.left = {}
    /\ table' = [table EXCEPT ![healer.chunk] = healer.holders[healer.chunk]]
    /\ healer' = [healer EXCEPT !.pc = "pick", !.work = @ \ {healer.chunk},
                                !.holders[healer.chunk] = {}, !.chunk = AnyChunk]
    /\ UNCHANGED <<quota, alive, upload, sent>>

EndRound ==
    /\ healer.pc = "pick" /\ healer.work = {}
    /\ healer' = Asleep
    /\ UNCHANGED <<quota, table, alive, upload, sent>>

-----------------------------------------------------------------------------
Replicate(u) ==
    \/ NoPeers(u) \/ Resave(u) \/ Select(u) \/ Assign(u)
    \/ \E p \in Peer : UploadSend(u, p)

Heal ==
    \/ BeginRound \/ Reassign \/ EndRound
    \/ \E c \in Chunk : PassOver(c) \/ PickTargets(c) \/ RoundFails(c)
    \/ \E p \in Peer : HealSend(p)

Next ==
    \/ \E p \in Peer : Appear(p) \/ Lapse(p)
    \/ \E c \in Chunk : RouteSaves(c) \/ RouteLoads(c)
    \/ \E u \in Request : Replicate(u) \/ \E c \in Chunk : StartUpload(u, c)
    \/ OtherFiles \/ CollectGarbage \/ Heal

Spec == Init /\ [][Next]_vars

(* Uploads, rounds and evictions go on; the monitor looks again and again.  *)
(* For uploads and rounds this assumes that dials and writes return, which  *)
(* nothing in the code limits.                                              *)
FairSpec ==
    /\ Spec
    /\ \A u \in Request : WF_vars(Replicate(u))
    /\ WF_vars(Heal) /\ WF_vars(CollectGarbage)

-----------------------------------------------------------------------------
(* Those to whose address the chunk was written, to a node answering there: *)
(* the peer itself unless its node has another id now.                      *)
SentTo(c) == {p \in Peer : \E q \in Answering(p) : <<p, q>> \in sent[c]}

(* For whoever is recorded as a holder the chunk was written to the node at *)
(* its address, though uploads and rounds overwrite each other's entries    *)
(* with lists made earlier.                                                 *)
RecordedWasSent == \A c \in Chunk : table[c] \subseteq SentTo(c) \cup {Self}

(* A chunk gets at most K copies beside the one here, and a repair brings   *)
(* it to K in all and no further, whatever was recorded since it began.     *)
NoMoreThanNeeded ==
    /\ \A c \in Chunk : Recorded(c) =>
          /\ Self \in table[c]
          /\ Cardinality(table[c]) <= K + 1
    /\ healer.pc = "send" =>
          Cardinality(healer.holders[healer.chunk] \cup healer.left) <= K

(* What makes the two invariants above inductive: what uploads and rounds   *)
(* have noted was sent, too, and their targets do not exceed the factor.    *)
NotedWasSent ==
    /\ \A u \in Request : upload[u].ok \subseteq SentTo(upload[u].chunk)
    /\ \A c \in Chunk : healer.holders[c] \subseteq SentTo(c) \cup {Self}

TargetsFit ==
    /\ \A u \in Request :
          IF upload[u].pc = "send" THEN Cardinality(upload[u].ok \cup upload[u].left) <= K
                                   ELSE upload[u].ok = {}
    /\ healer.pc = "send" => healer.chunk \in healer.work
    /\ \A c \in healer.work :
          /\ Self \in healer.holders[c]
          /\ healer.pc = "pick" \/ c # healer.chunk => Cardinality(healer.holders[c]) < K

SentInv == RecordedWasSent /\ NotedWasSent
CopiesInv == NoMoreThanNeeded /\ TargetsFit

(* A recorded chunk that stays here gets its K live holders back, however   *)
(* uploads, lapses and rounds with old lists overwrite its entry, once      *)
(* there are enough peers that take it: where a nearer one refuses, every   *)
(* round asks that one again.                                               *)
Reliable(c) == Closest(c, Peer, K - 1) \subseteq Steady /\ Cardinality(Steady) >= K - 1

HealedEventually ==
    \A c \in Chunk : Reliable(c) =>
        (Recorded(c) /\ Steady \subseteq alive ~>
            (c \notin Stored \/ Cardinality(AliveHolders(c)) >= K))
=============================================================================
