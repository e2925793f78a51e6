--------------------------- MODULE DownloadManager ---------------------------
(***************************************************************************)
(* The resumable downloads of backend/api/download_manager.py, for one     *)
(* file hash: the entry of that file in _downloads, _tasks and             *)
(* _cancel_events, the coroutines that work on it and what survives on the *)
(* disk (the .resume record, the chunk files, the manifest).               *)
(*                                                                         *)
(* asyncio runs one coroutine at a time.  `loop' names the worker that     *)
(* holds the event loop between two awaits, Idle when any ready coroutine  *)
(* may be resumed.  A request handler that never suspends is one action.   *)
(* A worker's stretch between two awaits is several actions, because the   *)
(* process may die in the middle of it and the garbage collector's thread  *)
(* deletes chunk files without asking the loop.                            *)
(*                                                                         *)
(* DownloadState objects and tasks have identities: a paused request keeps *)
(* the object and the task it looked up while others replace the entries.  *)
(* An identity nothing refers to any more is used again.                   *)
(***************************************************************************)
EXTENDS Integers, FiniteSets

CONSTANTS
    NumChunks,      \* chunks of the file, len(manifest.chunks)
    FlushInterval,  \* FLUSH_INTERVAL
    Obj,            \* identities of DownloadState objects alive at once
    Task,           \* identities of worker tasks alive at once
    Pauser,         \* pause requests suspended at once
    Evictable,      \* chunks the garbage collector may delete
    FaultyDisk,     \* whether a write to the storage directory may fail
    NoObj, NoTask, NoRecord, Idle

Chunks == 0 .. NumChunks - 1

ASSUME SizeAssumption == NumChunks \in Nat \ {0} /\ FlushInterval \in Nat \ {0}
ASSUME NullAssumption == NoObj \notin Obj /\ NoTask \notin Task /\ Idle \notin Task
ASSUME DiskAssumption == Evictable \subseteq Chunks /\ FaultyDisk \in BOOLEAN

VARIABLES
    registered,  \* _downloads.get(file_hash)
    current,     \* _tasks / _cancel_events .get(file_hash)
    state,       \* the DownloadState objects
    worker,      \* the _download_worker coroutines
    pauser,      \* the pause_download coroutines
    loop,        \* who holds the event loop
    resume,      \* the .resume file
    store,       \* chunks with a file in the storage directory
    torn,        \* ... whose file holds only part of the chunk
    manifest     \* whether the manifest is in the local database

memory == <<registered, current, state, worker, pauser, loop>>
disk == <<resume, store, torn, manifest>>
vars == <<registered, current, state, worker, pauser, loop,
          resume, store, torn, manifest>>

Status == {"downloading", "paused", "completed", "error"}

Record == [status : Status, missing : SUBSET Chunks, completed : SUBSET Chunks]

ASSUME RecordAssumption == NoRecord \notin Record

(* What a worker is doing.  "ready": created, not yet run; "loop": at the   *)
(* head of the chunk loop; "fetch": awaiting a peer; "got": chunk bytes in  *)
(* hand; "merge": in _final_merge; "spoilt": merging bytes that will not    *)
(* decrypt; "unlink": between the last save and _delete_resume.             *)
Pc == {"none", "ready", "loop", "fetch", "got", "merge", "spoilt", "unlink", "done"}

Worker == [obj : Obj \cup {NoObj}, pc : Pc,
           todo : SUBSET Chunks,     \* missing_set, what is left of it
           since : 0 .. FlushInterval - 1,   \* chunks_since_flush
           loaded : 0 .. NumChunks,  \* chunks the merge has loaded
           stop : BOOLEAN,           \* its cancel_event is set
           cancelled : BOOLEAN]      \* task.cancel() was called

(* A pause_download that has suspended: "wait" in wait_for(shield(task)),   *)
(* "join" in the await after task.cancel().                                 *)
Pausing == [pc : {"idle", "wait", "join"}, obj : Obj \cup {NoObj},
            task : Task \cup {NoTask}]

NewWorker(o, pc) == [obj |-> o, pc |-> pc, todo |-> {}, since |-> 0,
                     loaded |-> 0, stop |-> FALSE, cancelled |-> FALSE]

IdlePauser == [pc |-> "idle", obj |-> NoObj, task |-> NoTask]

Fresh == [status |-> "downloading", missing |-> Chunks, completed |-> {}]

-----------------------------------------------------------------------------

Live(t) == worker[t].pc \notin {"none", "done"}

FreeTask(t) == ~Live(t) /\ t # current /\ \A p \in Pauser : pauser[p].task # t

FreeObj(o) == /\ o # registered
              /\ \A t \in Task : Live(t) => worker[t].obj # o
              /\ \A p \in Pauser : pauser[p].obj # o

(* _downloads.get(file_hash) or _load_resume(file_hash) *)
Existing == IF registered # NoObj THEN state[registered] ELSE resume

(* The object that lookup yields: the registered one, or a new one built    *)
(* from the file.                                                           *)
IsExisting(o) == IF registered # NoObj THEN o = registered ELSE FreeObj(o)

(* _save_resume writes a temporary file and renames it, and swallows every  *)
(* exception: the record is replaced whole or not at all.                   *)
Save(rec) == resume' = rec \/ (FaultyDisk /\ resume' = resume)

(* start_download and resume_download return a record with this status as   *)
(* it is: the download is already active.                                   *)
Active(rec) == rec.status = "downloading"

SetStatus(o, s) == [state EXCEPT ![o].status = s]

Finished(t) == [worker EXCEPT ![t] = NewWorker(worker[t].obj, "done")]

(* The value of an identity not used yet. *)
Blank == [Fresh EXCEPT !.status = "paused"]

Init ==
    /\ registered = NoObj /\ current = NoTask
    /\ state = [o \in Obj |-> Blank]
    /\ worker = [t \in Task |-> NewWorker(NoObj, "none")]
    /\ pauser = [p \in Pauser |-> IdlePauser]
    /\ loop = Idle
    /\ resume = NoRecord
    /\ store \in SUBSET Chunks /\ torn = {}
    /\ manifest \in BOOLEAN

-----------------------------------------------------------------------------
(* The request handlers *)

(* The start route fetches a manifest it does not have before it calls the  *)
(* manager; the awaits of that fetch touch nothing of the manager.          *)
FetchManifest ==
    /\ loop = Idle /\ ~manifest /\ manifest' = TRUE
    /\ UNCHANGED <<memory, resume, store, torn>>

(* start_download and resume_download both end by registering the state and *)
(* creating the task with a new cancel event.                               *)
Launch(o, t) ==
    /\ FreeTask(t)
    /\ registered' = o /\ current' = t
    /\ worker' = [worker EXCEPT ![t] = NewWorker(o, "ready")]
    /\ UNCHANGED <<pauser, loop, store, torn, manifest>>

(* start_download on a record with chunks left to fetch.  An active one is  *)
(* returned as it is: no step.                                              *)
StartAgain(o, t) ==
    /\ loop = Idle /\ manifest
    /\ Existing # NoRecord
    /\ ~Active(Existing) /\ Existing.missing # {}
    /\ IsExisting(o)
    /\ state' = [state EXCEPT ![o] = [Existing EXCEPT !.status = "downloading"]]
    /\ Save([Existing EXCEPT !.status = "downloading"])
    /\ Launch(o, t)

(* start_download with no record, or with one that misses nothing: a new    *)
(* object replaces whatever is registered.                                  *)
StartFresh(o, t) ==
    /\ loop = Idle /\ manifest
    /\ Existing # NoRecord => ~Active(Existing) /\ Existing.missing = {}
    /\ FreeObj(o)
    /\ state' = [state EXCEPT ![o] = Fresh]
    /\ Save(Fresh)
    /\ Launch(o, t)

(* resume_download: the record on disk keeps its old status. *)
Resume(o, t) ==
    /\ loop = Idle /\ manifest
    /\ Existing # NoRecord /\ ~Active(Existing)
    /\ IsExisting(o)
    /\ state' = [state EXCEPT ![o] = [Existing EXCEPT !.status = "downloading"]]
    /\ Launch(o, t)
    /\ UNCHANGED resume

PauseApplies ==
    loop = Idle /\ registered # NoObj /\ state[registered].status = "downloading"

(* pause_download when no task is registered or it has ended: no await. *)
PauseAtOnce ==
    /\ PauseApplies
    /\ current # NoTask => ~Live(current)
    /\ state' = SetStatus(registered, "paused")
    /\ Save([state[registered] EXCEPT !.status = "paused"])
    /\ current' = NoTask
    /\ UNCHANGED <<registered, worker, pauser, loop, store, torn, manifest>>

(* pause_download up to wait_for(shield(task), 3.0). *)
PauseWait(p) ==
    /\ PauseApplies
    /\ current # NoTask /\ Live(current)
    /\ pauser[p].pc = "idle"
    /\ worker' = [worker EXCEPT ![current].stop = TRUE]
    /\ pauser' = [pauser EXCEPT ![p] =
                    [pc |-> "wait", obj |-> registered, task |-> current]]
    /\ UNCHANGED <<registered, current, state, loop, disk>>

CancelForgotten(t) == worker
CancelTask(t) == [worker EXCEPT ![t].cancelled = TRUE]

(* Three seconds have passed: cancel the task and await it. *)
PauseTimeout(p) ==
    /\ loop = Idle
    /\ pauser[p].pc = "wait" /\ Live(pauser[p].task)
    /\ worker' = CancelTask(pauser[p].task)
    /\ pauser' = [pauser EXCEPT ![p].pc = "join"]
    /\ UNCHANGED <<registered, current, state, loop, disk>>

(* The awaited task has ended.  The entries popped are those registered     *)
(* under the file hash now, not those looked up before the wait.            *)
PauseFinish(p) ==
    /\ loop = Idle
    /\ pauser[p].pc # "idle" /\ ~Live(pauser[p].task)
    /\ state' = SetStatus(pauser[p].obj, "paused")
    /\ Save([state[pauser[p].obj] EXCEPT !.status = "paused"])
    /\ current' = NoTask
    /\ pauser' = [pauser EXCEPT ![p] = IdlePauser]
    /\ UNCHANGED <<registered, worker, loop, store, torn, manifest>>

ClearsAll == Status
Clearable == {"completed", "error"}

(* clear_completed: the .resume file stays. *)
ClearCompleted ==
    /\ loop = Idle
    /\ registered # NoObj /\ state[registered].status \in Clearable
    /\ registered' = NoObj /\ current' = NoTask
    /\ UNCHANGED <<state, worker, pauser, loop, disk>>

-----------------------------------------------------------------------------
(* The download worker *)

IsNext(t, i) == i \in worker[t].todo /\ \A j \in worker[t].todo : i <= j

(* The event loop resumes a suspended worker that nobody has cancelled. *)
Resumed(t) == loop = Idle /\ ~worker[t].cancelled

Keep(t) == loop' = t
Yield == loop' = Idle

Begin(t) ==
    /\ worker[t].pc = "ready" /\ Resumed(t)
    /\ worker' = [worker EXCEPT ![t].pc = "loop",
                                ![t].todo = state[worker[t].obj].missing]
    /\ Keep(t)
    /\ UNCHANGED <<registered, current, state, pauser, disk>>

(* cancel_event is set: return, leaving the status to the pause request. *)
StopAtChunk(t) ==
    /\ loop = t /\ worker[t].pc = "loop"
    /\ worker[t].todo # {} /\ worker[t].stop
    /\ worker' = Finished(t) /\ Yield
    /\ UNCHANGED <<registered, current, state, pauser, disk>>

(* load_chunk_fn: a chunk in the store is read without suspending, any      *)
(* other one is asked of the peers.                                         *)
TakeChunk(t, i) ==
    /\ loop = t /\ worker[t].pc = "loop"
    /\ IsNext(t, i) /\ ~worker[t].stop
    /\ \/ /\ i \in store
          /\ worker' = [worker EXCEPT ![t].pc = "got"] /\ Keep(t)
       \/ /\ i \notin store
          /\ worker' = [worker EXCEPT ![t].pc = "fetch"] /\ Yield
    /\ UNCHANGED <<registered, current, state, pauser, disk>>

(* A peer answered; the loader saves the chunk before it returns it. *)
FetchOk(t, i) ==
    /\ worker[t].pc = "fetch" /\ IsNext(t, i) /\ Resumed(t)
    /\ store' = store \cup {i} /\ torn' = torn \ {i}
    /\ worker' = [worker EXCEPT ![t].pc = "got"]
    /\ Keep(t)
    /\ UNCHANGED <<registered, current, state, pauser, resume, manifest>>

(* A write of chunk i failed, on a faulty disk with part of it written.     *)
MayTear(i) ==
    \/ UNCHANGED <<store, torn>>
    \/ FaultyDisk /\ store' = store \cup {i} /\ torn' = torn \cup {i}

StatusKept == "downloading"
FailedStatus == "error"

(* The loop goes on after a failed chunk, with `continue' for `return'.     *)
ChunkSkipped(t, i) ==
    /\ IsNext(t, i) /\ worker[t].pc = "fetch" /\ Resumed(t)
    /\ worker' = [worker EXCEPT ![t].pc = "loop", ![t].todo = @ \ {i}] /\ Keep(t)
    /\ UNCHANGED <<registered, current, state, pauser, disk>>

(* No peer served the chunk, or saving it raised.  The record is saved      *)
(* before the status is set.                                                *)
ChunkError(t, i) ==
    /\ IsNext(t, i)
    /\ \/ worker[t].pc = "fetch" /\ Resumed(t)
       \/ worker[t].pc = "got" /\ loop = t /\ i \notin store /\ FaultyDisk
    /\ MayTear(i)
    /\ Save(state[worker[t].obj])
    /\ state' = SetStatus(worker[t].obj, FailedStatus)
    /\ worker' = Finished(t) /\ Yield
    /\ UNCHANGED <<registered, current, pauser, manifest>>

FlushesLate(t) == worker[t].since + 1 > FlushInterval
Flushes(t) == worker[t].since + 1 >= FlushInterval

SinceNotReset(t) == worker[t].since + 1
NextSince(t) == IF Flushes(t) THEN 0 ELSE worker[t].since + 1

MarkedStillMissing(rec, i) == [rec EXCEPT !.completed = @ \cup {i}]
MarkedAhead(rec, i) == [rec EXCEPT !.missing = @ \ (i .. i + 1),
                                   !.completed = @ \cup ((i .. i + 1) \cap Chunks)]
Marked(rec, i) == [rec EXCEPT !.missing = @ \ {i}, !.completed = @ \cup {i}]

(* Cache the chunk if it has gone meanwhile (what was read of it may have   *)
(* been torn), account for it, and flush the record every FlushInterval     *)
(* chunks.                                                                  *)
MarkChunk(t, i) ==
    LET o == worker[t].obj
    IN  /\ loop = t /\ worker[t].pc = "got" /\ IsNext(t, i)
        /\ store' = store \cup {i}
        /\ torn' \in {torn, torn \cup ({i} \ store)}
        /\ state' = [state EXCEPT ![o] = Marked(@, i)]
        /\ IF Flushes(t) THEN Save(Marked(state[o], i)) ELSE UNCHANGED resume
        /\ worker' = [worker EXCEPT ![t].pc = "loop", ![t].todo = @ \ {i},
                                    ![t].since = NextSince(t)]
        /\ UNCHANGED <<registered, current, pauser, loop, manifest>>

(* Every chunk is marked: save and enter _final_merge. *)
BeginMerge(t) ==
    /\ loop = t /\ worker[t].pc = "loop" /\ worker[t].todo = {}
    /\ Save(state[worker[t].obj])
    /\ worker' = [worker EXCEPT ![t].pc = "merge"]
    /\ UNCHANGED <<registered, current, state, pauser, loop, store, torn, manifest>>

(* The merge loads its first chunk before it suspends and the next one      *)
(* while the previous one is decrypted in the pool.                         *)
Loading(t) ==
    /\ worker[t].pc = "merge" /\ worker[t].loaded < NumChunks
    /\ IF worker[t].loaded = 0 THEN loop = t ELSE Resumed(t)

MergeLoad(t) ==
    /\ Loading(t) /\ worker[t].loaded \in store
    /\ worker' = [worker EXCEPT ![t].loaded = @ + 1,
                    ![t].pc = IF worker[t].loaded \in torn THEN "spoilt" ELSE "merge"]
    /\ Yield
    /\ UNCHANGED <<registered, current, state, pauser, disk>>

(* A chunk has left the store, or the bytes do not decrypt to the file (a   *)
(* partial chunk, another password).                                        *)
MergeError(t) ==
    /\ \/ Loading(t) /\ worker[t].loaded \notin store
       \/ Resumed(t) /\ worker[t].pc = "spoilt"
       \/ Resumed(t) /\ worker[t].pc = "merge" /\ worker[t].loaded > 0
    /\ state' = SetStatus(worker[t].obj, "error")
    /\ Save([state[worker[t].obj] EXCEPT !.status = "error"])
    /\ worker' = Finished(t) /\ Yield
    /\ UNCHANGED <<registered, current, pauser, store, torn, manifest>>

MergeDone(t) ==
    /\ worker[t].pc = "merge" /\ worker[t].loaded = NumChunks /\ Resumed(t)
    /\ state' = SetStatus(worker[t].obj, "completed")
    /\ Save([state[worker[t].obj] EXCEPT !.status = "completed"])
    /\ worker' = [worker EXCEPT ![t].pc = "unlink"]
    /\ Keep(t)
    /\ UNCHANGED <<registered, current, pauser, store, torn, manifest>>

DeleteResume(t) ==
    /\ loop = t /\ worker[t].pc = "unlink"
    /\ resume' = NoRecord
    /\ worker' = Finished(t) /\ Yield
    /\ UNCHANGED <<registered, current, state, pauser, store, torn, manifest>>

(* CancelledError reaches the task at its await; a task that has not run    *)
(* yet never enters its body.                                               *)
Cancelled(t) ==
    /\ loop = Idle /\ worker[t].cancelled /\ Live(t)
    /\ IF worker[t].pc = "ready"
       THEN UNCHANGED <<state, resume>>
       ELSE /\ state' = SetStatus(worker[t].obj, "paused")
            /\ Save([state[worker[t].obj] EXCEPT !.status = "paused"])
    /\ worker' = Finished(t)
    /\ UNCHANGED <<registered, current, pauser, loop, store, torn, manifest>>

-----------------------------------------------------------------------------
(* The surroundings *)

(* evict_oldest_chunks, in the thread storage_monitor_loop starts. *)
Evict(i) ==
    /\ i \in store \cap Evictable
    /\ store' = store \ {i} /\ torn' = torn \ {i}
    /\ UNCHANGED <<memory, resume, manifest>>

(* Another route (upload, download, preview) saves a chunk of this file. *)
RouteStores(i) ==
    /\ loop = Idle /\ i \notin store
    /\ store' = store \cup {i}
    /\ UNCHANGED <<memory, resume, torn, manifest>>

(* A chunk file being written when the process dies keeps only a part: one  *)
(* another route writes, one the loader writes over, or one being cached.   *)
BeingWritten(i) ==
    \/ loop = Idle /\ i \notin store
    \/ \E t \in Task : worker[t].pc = "fetch" /\ IsNext(t, i) /\ Resumed(t)
    \/ \E t \in Task : loop = t /\ worker[t].pc = "got" /\ IsNext(t, i) /\ i \notin store

RecoveredAsSaved(rec) == rec
RecoveredFresh(rec) == Blank
Recovered(rec) == [rec EXCEPT !.status = "paused"]

(* The process dies and is started again: __init__ registers every .resume  *)
(* record as paused.                                                        *)
CrashAndRecover(o) ==
    /\ \/ UNCHANGED <<store, torn>>
       \/ \E i \in Chunks :
            BeingWritten(i) /\ store' = store \cup {i} /\ torn' = torn \cup {i}
    /\ IF resume = NoRecord
       THEN registered' = NoObj /\ state' = state
       ELSE /\ registered' = o
            /\ state' = [state EXCEPT ![o] = Recovered(resume)]
    /\ current' = NoTask
    /\ worker' = [t \in Task |-> NewWorker(NoObj, "none")]
    /\ pauser' = [p \in Pauser |-> IdlePauser]
    /\ loop' = Idle
    /\ UNCHANGED <<resume, manifest>>

-----------------------------------------------------------------------------

Request ==
    \/ FetchManifest
    \/ \E o \in Obj, t \in Task : StartAgain(o, t) \/ StartFresh(o, t) \/ Resume(o, t)
    \/ PauseAtOnce
    \/ \E p \in Pauser : PauseWait(p)
    \/ ClearCompleted

PauserStep(p) == PauseTimeout(p) \/ PauseFinish(p)

(* The steps a worker takes while it holds the loop, and the merge's. *)
WorkerStep(t) ==
    \/ Begin(t) \/ StopAtChunk(t)
    \/ \E i \in Chunks : TakeChunk(t, i) \/ MarkChunk(t, i)
    \/ BeginMerge(t) \/ MergeLoad(t) \/ MergeError(t) \/ MergeDone(t)
    \/ DeleteResume(t) \/ Cancelled(t)

(* What the peers, or the thirty seconds of the loader, decide. *)
PeerStep(t) == \E i \in Chunks : FetchOk(t, i) \/ ChunkError(t, i)

Surroundings ==
    \/ \E i \in Chunks : Evict(i) \/ RouteStores(i)
    \/ \E o \in Obj : CrashAndRecover(o)

Next ==
    \/ Request
    \/ \E p \in Pauser : PauserStep(p)
    \/ \E t \in Task : WorkerStep(t) \/ PeerStep(t)
    \/ Surroundings

Spec == Init /\ [][Next]_vars

(* asyncio runs its ready callbacks in the order they became ready, so a    *)
(* worker or a pause request that can go on does, whatever else runs: each  *)
(* step that needs the loop is strongly fair.  The peers owe nothing here.  *)
LoopFairness ==
    /\ \A t \in Task : SF_vars(WorkerStep(t))
    /\ \A p \in Pauser : SF_vars(PauserStep(p))

FairSpec == Spec /\ LoopFairness

-----------------------------------------------------------------------------
(* Properties *)

(* Every variable has the type its declaration describes. *)
TypeOK ==
    /\ registered \in Obj \cup {NoObj}
    /\ current \in Task \cup {NoTask}
    /\ state \in [Obj -> Record]
    /\ worker \in [Task -> Worker]
    /\ pauser \in [Pauser -> Pausing]
    /\ loop \in Task \cup {Idle}
    /\ resume \in Record \cup {NoRecord}
    /\ store \subseteq Chunks /\ torn \subseteq store
    /\ manifest \in BOOLEAN

Splits(rec) == rec.missing = Chunks \ rec.completed

(* Whatever two workers on one object, a stale pause request, a failed save *)
(* and a restart do to them, the missing and the completed chunks of every  *)
(* download in memory and of the record on disk split the file: no chunk is *)
(* both, none is forgotten (lines 384-387, 216-224, 159).                   *)
ChunksPartitioned ==
    /\ \A o \in Obj : Splits(state[o])
    /\ resume # NoRecord => Splits(resume)

(* A chunk is on disk before a download, or the record a restart would      *)
(* recover, counts it as completed; only the garbage collector can make     *)
(* that claim stale (lines 379-387 against _save_resume).                   *)
StoredBeforeClaimed ==
    /\ \A o \in Obj : state[o].completed \subseteq store \cup Evictable
    /\ resume # NoRecord => resume.completed \subseteq store \cup Evictable

(* A download shown as completed misses nothing, although each worker walks *)
(* the set of missing chunks it copied when it began (line 363), next to    *)
(* another worker or a pause request on the same object.                    *)
CompletedMissesNothing ==
    \A o \in Obj : state[o].status = "completed" => state[o].missing = {}

(* A download registered as "downloading" will change: a worker of its own  *)
(* is alive, or a pause request that ended one is about to set its status.  *)
(* Otherwise start and resume answer "already active" (lines 198, 298) and  *)
(* nothing ever fetches.                                                    *)
DownloadingIsServed ==
    registered # NoObj /\ state[registered].status = "downloading" =>
        \/ \E t \in Task : Live(t) /\ worker[t].obj = registered
        \/ \E p \in Pauser : pauser[p].pc # "idle" /\ pauser[p].obj = registered

(* The record on disk of a download with chunks left to fetch is never      *)
(* replaced by one that has completed less: a start does not begin afresh,  *)
(* a failed or restarted download saves what it had (lines 202, 402, 155).  *)
(* Checked where nobody pauses: a pause request that wakes after its object *)
(* was replaced does write an older record.                                 *)
RecordAdvances ==
    [][resume # NoRecord /\ resume' # NoRecord /\ resume.missing # {} =>
         resume.completed \subseteq resume'.completed]_vars

(* What a crash loses: while a worker has chunks to fetch, fewer than       *)
(* FlushInterval of those it fetched are not in the record on disk          *)
(* (line 392), whatever a resume, a restart or a failure left there.        *)
FlushBound ==
    \A t \in Task :
        Live(t) /\ state[worker[t].obj].missing # {} =>
            /\ resume # NoRecord
            /\ Cardinality(state[worker[t].obj].completed \ resume.completed)
                  < FlushInterval

(* "Each active download is an asyncio.Task managed by the DownloadManager" *)
(* (line 9): every live worker is the registered task or is being awaited   *)
(* by a pause request, so that it can be paused.  Where nobody pauses, this *)
(* leaves one worker at a time to write temp_<hash>.bin and the record.     *)
WorkersAreManaged ==
    \A t \in Task :
        Live(t) => t = current \/ \E p \in Pauser : pauser[p].task = t

(* A pause request returns: the worker stops at its next chunk or is        *)
(* cancelled at its await, even when no peer ever answers (lines 264-272).  *)
PauseReturns ==
    \A p \in Pauser : pauser[p].pc # "idle" ~> pauser[p].pc = "idle"

(* Every request to a peer ends: httpx gives each thirty seconds. *)
PeersAnswer == \A t \in Task : SF_vars(PeerStep(t))

(* A started download ends, as paused, completed or in error, as long as    *)
(* the requests to peers end: no interleaving of the worker, a pause, a     *)
(* clear, evictions and a crash leaves it downloading for ever.             *)
Downloading == registered # NoObj /\ state[registered].status = "downloading"

DownloadEnds == PeersAnswer => (Downloading ~> ~Downloading)

-----------------------------------------------------------------------------
(* What makes the invariants above inductive *)

(* A worker in the chunk loop has every missing chunk of its object ahead   *)
(* of it; one that merges found none missing.                               *)
WalksTheMissing ==
    \A t \in Task :
        /\ worker[t].pc \in {"loop", "fetch", "got"} =>
             state[worker[t].obj].missing \subseteq worker[t].todo
        /\ worker[t].pc \in {"merge", "spoilt", "unlink"} =>
             state[worker[t].obj].missing = {}

(* Nothing runs between the save of a completed download and the removal of *)
(* its record.                                                              *)
UnlinksCompleted ==
    \A t \in Task :
        worker[t].pc = "unlink" =>
            loop = t /\ state[worker[t].obj].status = "completed"

(* Whoever told a worker to stop still waits for it, on the worker's object. *)
StopIsAwaited ==
    \A t \in Task :
        Live(t) /\ (worker[t].stop \/ worker[t].cancelled) =>
            \E p \in Pauser : /\ pauser[p].pc # "idle" /\ pauser[p].task = t
                              /\ pauser[p].obj = worker[t].obj

(* The task a pause request waits for works on the object it will mark.     *)
AwaitsItsObject ==
    \A p \in Pauser :
        pauser[p].pc # "idle" /\ Live(pauser[p].task) =>
            worker[pauser[p].task].obj = pauser[p].obj

ProgressInv == ChunksPartitioned /\ StoredBeforeClaimed /\ CompletedMissesNothing
                 /\ WalksTheMissing

ServiceInv == DownloadingIsServed /\ UnlinksCompleted /\ StopIsAwaited
                /\ AwaitsItsObject

(* Where nobody pauses, a worker that runs is the registered one, and its   *)
(* object says "downloading" until it is completed: no start, resume or     *)
(* clear gets past it.                                                      *)
OnlyWorker ==
    \A t \in Task :
        Live(t) => /\ t = current
                   /\ worker[t].pc # "unlink" =>
                        state[worker[t].obj].status = "downloading"

(* Where moreover every save succeeds, the record on disk never claims more *)
(* than the registered download, claims as much once its worker has ended,  *)
(* and is there while chunks are missing.                                   *)
RecordFollows ==
    registered # NoObj =>
        /\ resume # NoRecord =>
             /\ resume.completed \subseteq state[registered].completed
             /\ (\A t \in Task : ~Live(t)) =>
                  resume.completed = state[registered].completed
        /\ state[registered].missing # {} => resume # NoRecord

(* ... and what it lacks was counted since the last flush.                  *)
LagCounted ==
    \A t \in Task :
        Live(t) /\ state[worker[t].obj].missing # {} =>
            Cardinality(state[worker[t].obj].completed \ resume.completed)
              <= worker[t].since

SaveInv == RecordFollows /\ LagCounted

=============================================================================
