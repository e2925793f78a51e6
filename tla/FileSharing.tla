----------------------------- MODULE FileSharing -----------------------------
(***************************************************************************)
(* One file in a swarm: the upload, download and preview routes of         *)
(* backend/api/routes.py on every node, with the local stores they read    *)
(* and fill, the second writing of the chunks by the replication, the      *)
(* eviction of chunks and crashes.                                         *)
(*                                                                         *)
(* A request is a coroutine of its node.  The stretches in which it does   *)
(* not suspend are still several steps: the process may die inside one,    *)
(* and the eviction thread asks nobody.  A chunk file holds the chunk or,  *)
(* when its write was cut short, by the death of the process or for want   *)
(* of space, only a part of it (it is torn): no route looks at what is in  *)
(* it before the merge does.  Writes of manifests succeed here.            *)
(***************************************************************************)
EXTENDS Naturals, FiniteSets

CONSTANTS
    Node,
    NumChunks,   \* chunks of the file
    Req,         \* identities of requests alive at once
    Uploader,    \* nodes the file is uploaded to
    Full,        \* nodes over their quota, whose chunks are evicted
    MayCrash,    \* nodes whose process may die
    NoSpace,     \* nodes on whose disk a write may fail
    Steady       \* nodes every registry calls alive and that answer every call

Chunks == 0 .. NumChunks - 1

ASSUME SizeAssumption == NumChunks \in Nat \ {0}
ASSUME NodeAssumption ==
    /\ Uploader \cup Full \cup MayCrash \cup NoSpace \cup Steady \subseteq Node
    /\ Steady \cap (Full \cup MayCrash \cup NoSpace) = {}

VARIABLES
    manifest,  \* nodes whose database has the manifest
    store,     \* chunks with a file in the storage directory, by node
    torn,      \* ... whose file holds a part of the chunk
    req        \* the requests

vars == <<manifest, store, torn, req>>

(* "save": an upload storing its chunks; "resave": one about to store the   *)
(* next chunk again to replicate it; "send": one that sends it to peers;    *)
(* "find": looking for the manifest at home; "query": asking peers for it;  *)
(* "load": gathering the chunks; "ask": asking peers for one.  A request    *)
(* ends answered with success or an error, or lost with its node.           *)
Busy == {"save", "resave", "send", "find", "query", "load", "ask"}
Ended == {"served", "failed", "lost"}
Fetch == {"download", "preview"}
Content == {"whole", "torn"}

Request == [node : Node, kind : {"upload"} \cup Fetch, pc : Busy \cup Ended,
            next : 0 .. NumChunks,            \* chunks dealt with
            left : SUBSET Node,               \* peers left to ask
            answer : Content \cup {"none"},   \* chunk received from a peer
            whole : BOOLEAN]                  \* nothing torn was gathered

New(n, kind, pc) ==
    [node |-> n, kind |-> kind, pc |-> pc, next |-> 0, left |-> {},
     answer |-> "none", whole |-> TRUE]

Done(r) == req[r].pc \in Ended
At(r) == req[r].node
End(r, how) == [req EXCEPT ![r] = New(At(r), req[r].kind, how)]

(* No request yet is as good as one that has ended. *)
Init ==
    /\ manifest = {}
    /\ store = [n \in Node |-> {}] /\ torn = [n \in Node |-> {}]
    /\ \E n \in Node : req = [r \in Req |-> New(n, "upload", "failed")]

Held(n, i) == IF i \in torn[n] THEN "torn" ELSE "whole"

(* LocalStore.save_chunk. *)
SaveChunk(n, i, content) ==
    /\ store' = [store EXCEPT ![n] = @ \cup {i}]
    /\ torn' = [torn EXCEPT ![n] = IF content = "torn" THEN @ \cup {i} ELSE @ \ {i}]

(* write_bytes raises: it opens the file, which empties it, and writes a    *)
(* part, or does not come that far.                                         *)
SaveFails(n, i) ==
    /\ n \in NoSpace
    /\ SaveChunk(n, i, "torn") \/ UNCHANGED <<store, torn>>

Begin(r, n, kind, pc) ==
    /\ Done(r)
    /\ req' = [req EXCEPT ![r] = New(n, kind, pc)]
    /\ UNCHANGED <<manifest, store, torn>>

-----------------------------------------------------------------------------
(* upload_file *)

StartUpload(r, n) == n \in Uploader /\ Begin(r, n, "upload", "save")

SaveUploaded(r) ==
    LET i == req[r].next
    IN  /\ req[r].pc = "save" /\ i < NumChunks
        /\ SaveChunk(At(r), i, "whole")
        /\ req' = [req EXCEPT ![r].next = i + 1]
        /\ UNCHANGED manifest

(* All chunks are saved; the first form would not wait for all of them. *)
SavedAny(r) == req[r].next > 0
SavedAll(r) == req[r].next = NumChunks

(* The manifest is saved after the chunks; then, if any peer is alive, the  *)
(* chunks are replicated.                                                   *)
SaveManifest(r) ==
    /\ req[r].pc = "save" /\ SavedAll(r)
    /\ manifest' = manifest \cup {At(r)}
    /\ \/ req' = End(r, "served")
       \/ req' = [req EXCEPT ![r].pc = "resave", ![r].next = 0]
    /\ UNCHANGED <<store, torn>>

(* The replication goes on to the next chunk, or ends after the last. *)
ReplicateOn(r) ==
    IF req[r].next + 1 = NumChunks THEN End(r, "served")
    ELSE [req EXCEPT ![r].pc = "resave", ![r].next = @ + 1]

(* replicate_chunks saves a chunk once more, then sends it, unless no peer  *)
(* is alive any more.                                                       *)
Resave(r) ==
    /\ req[r].pc = "resave"
    /\ SaveChunk(At(r), req[r].next, "whole")
    /\ req' = ReplicateOn(r) \/ req' = [req EXCEPT ![r].pc = "send"]
    /\ UNCHANGED manifest

(* The sends to peers have returned.  A node that receives a chunk only     *)
(* logs it, and no failure to send ends the loop.  But a peer that does not *)
(* read, or does not answer a dial, may keep a send from returning: nothing *)
(* limits it.                                                               *)
SendsReturn(r) ==
    /\ req[r].pc = "send"
    /\ req' = ReplicateOn(r)
    /\ UNCHANGED <<manifest, store, torn>>

(* A chunk of an upload cannot be written, the first or the second time:    *)
(* the exception leaves the route.                                          *)
UploadFails(r) ==
    /\ req[r].pc \in {"save", "resave"} /\ req[r].next < NumChunks
    /\ SaveFails(At(r), req[r].next)
    /\ req' = End(r, "failed")
    /\ UNCHANGED manifest

-----------------------------------------------------------------------------
(* download_file and preview_file *)

StartFetch(r, n, kind) == Begin(r, n, kind, "find")

FindHere(r) ==
    /\ req[r].pc = "find" /\ At(r) \in manifest
    /\ req' = [req EXCEPT ![r].pc = "load"]
    /\ UNCHANGED <<manifest, store, torn>>

(* The peers that get_alive_peers returns are asked one after another.  A   *)
(* node that it leaves out is asked too here, and does not answer.          *)
ListForManifest(r) ==
    /\ req[r].pc = "find" /\ At(r) \notin manifest
    /\ req' = [req EXCEPT ![r].pc = "query", ![r].left = Node \ {At(r)}]
    /\ UNCHANGED <<manifest, store, torn>>

FetchManifest(r, p) ==
    /\ req[r].pc = "query" /\ p \in req[r].left /\ p \in manifest
    /\ manifest' = manifest \cup {At(r)}
    /\ req' = [req EXCEPT ![r].pc = "load", ![r].left = {}]
    /\ UNCHANGED <<store, torn>>

(* r waits for the answer of p. *)
Asks(r, p) == req[r].pc \in {"query", "ask"} /\ req[r].answer = "none" /\ p \in req[r].left

(* p has not what it is asked for, is not listed or cannot be reached. *)
Refuses(r, p) ==
    \/ p \notin Steady
    \/ req[r].pc = "query" /\ p \notin manifest
    \/ req[r].pc = "ask" /\ req[r].next \notin store[p]

(* A peer that refuses is passed over (`continue').  The first form would   *)
(* ask everybody again after the last, the second would let the exception   *)
(* through.                                                                 *)
SkipRestarting(r, p) ==
    /\ Asks(r, p) /\ Refuses(r, p)
    /\ req' = [req EXCEPT ![r].left = IF @ = {p} THEN Node \ {At(r)} ELSE @ \ {p}]
    /\ UNCHANGED <<manifest, store, torn>>

SkipRaising(r, p) ==
    /\ Asks(r, p) /\ Refuses(r, p)
    /\ req' = End(r, "failed")
    /\ UNCHANGED <<manifest, store, torn>>

Skip(r, p) ==
    /\ Asks(r, p) /\ Refuses(r, p)
    /\ req' = [req EXCEPT ![r].left = @ \ {p}]
    /\ UNCHANGED <<manifest, store, torn>>

NotFound(r) ==
    /\ req[r].pc \in {"query", "ask"} /\ req[r].left = {} /\ req[r].answer = "none"
    /\ req' = End(r, "failed")
    /\ UNCHANGED <<manifest, store, torn>>

(* A download gathers what it loaded and looks at it in the end; a preview  *)
(* decompresses a chunk before it goes on to the next.                      *)
Take(r, content) ==
    IF req[r].kind = "preview" /\ content = "torn" THEN End(r, "failed")
    ELSE [req EXCEPT ![r].pc = "load", ![r].next = @ + 1, ![r].left = {},
                     ![r].answer = "none", ![r].whole = @ /\ content = "whole"]

LoadHere(r) ==
    /\ req[r].pc = "load" /\ req[r].next \in store[At(r)]
    /\ req' = Take(r, Held(At(r), req[r].next))
    /\ UNCHANGED <<manifest, store, torn>>

(* The eviction thread deletes the file between exists and read_bytes. *)
EvictedUnderRead(r) ==
    LET i == req[r].next
    IN  /\ req[r].pc = "load" /\ At(r) \in Full /\ i \in store[At(r)]
        /\ store' = [store EXCEPT ![At(r)] = @ \ {i}]
        /\ torn' = [torn EXCEPT ![At(r)] = @ \ {i}]
        /\ req' = End(r, "failed")
        /\ UNCHANGED manifest

ListForChunk(r) ==
    /\ req[r].pc = "load" /\ req[r].next < NumChunks /\ req[r].next \notin store[At(r)]
    /\ req' = [req EXCEPT ![r].pc = "ask", ![r].left = Node \ {At(r)}]
    /\ UNCHANGED <<manifest, store, torn>>

(* get_chunk of p answers with what is in its file; r goes on when the      *)
(* answer has arrived, and saves it unseen.                                 *)
GetChunk(r, p) ==
    /\ req[r].pc = "ask" /\ Asks(r, p) /\ req[r].next \in store[p]
    /\ req' = [req EXCEPT ![r].answer = Held(p, req[r].next), ![r].left = @ \ {p}]
    /\ UNCHANGED <<manifest, store, torn>>

CacheChunk(r) ==
    /\ req[r].answer # "none"
    /\ SaveChunk(At(r), req[r].next, req[r].answer)
    /\ req' = Take(r, req[r].answer)
    /\ UNCHANGED manifest

(* The answer cannot be written: this is taken for a failure of the peer,   *)
(* and the next one is asked.                                               *)
CacheFails(r) ==
    /\ req[r].answer # "none"
    /\ SaveFails(At(r), req[r].next)
    /\ req' = [req EXCEPT ![r].answer = "none"]
    /\ UNCHANGED manifest

(* merge_chunks_to_disk compares the hash of the result with the file's,   *)
(* which it writes to the disk of the node; a preview writes nothing.       *)
Finish(r) ==
    /\ req[r].pc = "load" /\ req[r].next = NumChunks
    /\ \/ req[r].whole /\ req' = End(r, "served")
       \/ ~req[r].whole /\ req' = End(r, "failed")
       \/ req[r].kind = "download" /\ At(r) \in NoSpace /\ req' = End(r, "failed")
    /\ UNCHANGED <<manifest, store, torn>>

-----------------------------------------------------------------------------
(* The eviction thread and crashes *)

Evict(n, i) ==
    /\ n \in Full /\ i \in store[n]
    /\ store' = [store EXCEPT ![n] = @ \ {i}]
    /\ torn' = [torn EXCEPT ![n] = @ \ {i}]
    /\ UNCHANGED <<manifest, req>>

(* The chunks whose file a request of n writes next. *)
Writing(n) ==
    {i \in Chunks : \E r \in Req : /\ At(r) = n /\ req[r].next = i
                                   /\ req[r].pc \in {"save", "resave"}
                                         \/ req[r].answer # "none"}

(* The requests of n are lost; at most one chunk file was being written. *)
Crash(n) ==
    /\ n \in MayCrash
    /\ req' = [r \in Req |-> IF At(r) = n /\ ~Done(r) THEN New(n, req[r].kind, "lost")
                             ELSE req[r]]
    /\ \/ UNCHANGED <<store, torn>>
       \/ \E i \in Writing(n) : SaveChunk(n, i, "torn")
    /\ UNCHANGED manifest

-----------------------------------------------------------------------------

Step(r) ==
    \/ SaveUploaded(r) \/ SaveManifest(r) \/ Resave(r) \/ UploadFails(r)
    \/ FindHere(r) \/ NotFound(r) \/ LoadHere(r) \/ Finish(r)
    \/ CacheChunk(r) \/ CacheFails(r) \/ EvictedUnderRead(r) \/ ListForManifest(r) \/ ListForChunk(r)
    \/ \E p \in Node : FetchManifest(r, p) \/ Skip(r, p) \/ GetChunk(r, p)

Next ==
    \/ \E r \in Req : Step(r) \/ SendsReturn(r)
    \/ \E r \in Req, n \in Node : StartUpload(r, n)
    \/ \E r \in Req, n \in Node, kind \in Fetch : StartFetch(r, n, kind)
    \/ \E n \in Node, i \in Chunks : Evict(n, i)
    \/ \E n \in Node : Crash(n)

Spec == Init /\ [][Next]_vars

(* A request that can go on does: the calls of the API of a peer have       *)
(* time-outs.  The sends of an upload's chunks have none, and no fairness.  *)
FairSpec == Spec /\ \A r \in Req : WF_vars(Step(r))

-----------------------------------------------------------------------------

(* The request loops stay inside the file, only stored chunks are torn, and *)
(* a request gathers peers and answers only while it asks.                  *)
TypeOK ==
    /\ manifest \subseteq Node
    /\ store \in [Node -> SUBSET Chunks]
    /\ torn \in [Node -> SUBSET Chunks] /\ \A n \in Node : torn[n] \subseteq store[n]
    /\ req \in [Req -> Request]

(* A chunk is asked for, received and saved again for a chunk of the file. *)
Inside(r) ==
    /\ req[r].answer # "none" => req[r].pc = "ask"
    /\ req[r].pc \in {"ask", "resave", "send"} => req[r].next < NumChunks

TypeInv == TypeOK /\ \A r \in Req : Inside(r)

WholeSomewhere(i) == \E n \in Node : i \in store[n] \ torn[n]

(* Where a write of a chunk may be cut short. *)
MayTear == MayCrash \cup NoSpace

(* As soon as any node shows the file, every chunk of it is whole on some   *)
(* node, or its last whole copy was damaged by an upload of it again that   *)
(* died, or failed to write, on a node where that may happen: neither       *)
(* downloads that cache torn chunks, nor the eviction, nor an upload that   *)
(* ended half-way lose one.  (Uploads to nodes over their quota are         *)
(* excluded: what those evict is gone.)                                     *)
LossNeedsATornWrite ==
    Uploader \cap Full = {} /\ manifest # {} =>
        \A i \in Chunks : \/ WholeSomewhere(i)
                          \/ \E n \in Uploader \cap MayTear : i \in torn[n]

(* Why: the chunks of the upload that shows the file first stay where they  *)
(* are, since their node never asks for a chunk again.                      *)
Keeper(u) ==
    /\ u \in Uploader /\ store[u] = Chunks
    /\ torn[u] # {} => u \in MayTear
    /\ \A r \in Req : At(r) = u => req[r].pc # "ask"

(* Until then no chunk travels, and an upload has stored what it has saved. *)
NothingTravels ==
    /\ \A r \in Req : req[r].pc \notin {"load", "ask"}
    /\ \A n \in Node : torn[n] # {} => n \in MayTear

UploadStored(r) ==
    req[r].pc = "save" =>
        At(r) \in Uploader /\ \A i \in Chunks : i < req[r].next => i \in store[At(r)]

KeeperInv ==
    /\ \A r \in Req : UploadStored(r)
    /\ IF manifest = {} THEN NothingTravels ELSE \E u \in Uploader : Keeper(u)

(* A steady node that holds the whole file. *)
Provided == \E p \in Steady : p \in manifest /\ store[p] = Chunks

(* A download or preview that starts while a steady node has the file is    *)
(* served, whichever other nodes are listed, asked first, fail, or have     *)
(* evicted it; unless its own node dies, evicts under it or has no space,   *)
(* or some copy is torn: a torn copy is taken as readily as a whole one.    *)
ProvidedIsServed ==
    \A r \in Req :
        req[r].pc = "find" /\ At(r) \notin Full \cup NoSpace /\ Provided
            ~> req[r].pc \in {"served", "lost"} \/ \E n \in Node : torn[n] # {}

(* Every request is answered or lost with its node, no peer is asked twice; *)
(* or it is an upload that comes to wait for a send of its replication, and *)
(* its file is shown by then.                                               *)
RequestEnds ==
    \A r \in Req : ~Done(r) ~> Done(r) \/ (req[r].pc = "send" /\ At(r) \in manifest)
=============================================================================
