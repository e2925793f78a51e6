----------------------- MODULE DownloadManager_proofs -----------------------
(***************************************************************************)
(* Proofs that every step of DownloadManager preserves its safety          *)
(* invariants, for any number of chunks, objects, tasks and pause          *)
(* requests, any flush interval, with or without a faulty disk.            *)
(*                                                                         *)
(* From NobodyStops on nobody pauses: one worker runs at a time, and where *)
(* saves succeed as well, the record follows the download to within a      *)
(* flush interval and never goes back.                                     *)
(***************************************************************************)
EXTENDS DownloadManager, FiniteSetTheorems, TLAPS

(* What a coroutine holds on to exists, and the registered task works on    *)
(* the registered object.                                                   *)
References ==
    /\ \A t \in Task : Live(t) => worker[t].obj \in Obj
    /\ \A p \in Pauser :
         pauser[p].pc # "idle" => pauser[p].obj \in Obj /\ pauser[p].task \in Task
    /\ current # NoTask =>
         registered # NoObj /\ worker[current].obj = registered

TypeInv == TypeOK /\ References

USE SizeAssumption, NullAssumption, DiskAssumption, RecordAssumption

LEMMA RecordStatus ==
    ASSUME NEW r \in Record, NEW s \in Status
    PROVE  [r EXCEPT !.status = s] \in Record
  BY DEF Record

LEMMA StateStatus ==
    ASSUME state \in [Obj -> Record], NEW o, NEW s \in Status
    PROVE  SetStatus(o, s) \in [Obj -> Record]
  BY DEF SetStatus, Record

LEMMA FinishedType ==
    ASSUME TypeOK, NEW t \in Task
    PROVE  /\ Finished(t) \in [Task -> Worker]
           /\ Finished(t)[t] = NewWorker(worker[t].obj, "done")
           /\ \A u \in Task : u # t => Finished(t)[u] = worker[u]
  BY DEF TypeOK, Finished, NewWorker, Worker, Pc

LEMMA FinishedReferences ==
    ASSUME TypeInv, NEW t \in Task, worker' = Finished(t),
           UNCHANGED <<registered, current, pauser>>
    PROVE  References'
<1>1. \A u \in Task : worker'[u].obj = worker[u].obj /\ (Live(u)' => Live(u))
  <2>1. worker'[t].obj = worker[t].obj /\ worker'[t].pc = "done"
    <3>1. worker'[t] = NewWorker(worker[t].obj, "done")
      BY FinishedType DEF TypeInv
    <3> QED BY <3>1 DEF NewWorker
  <2>2. \A u \in Task : u # t => worker'[u] = worker[u]
    BY FinishedType DEF TypeInv
  <2> QED BY <2>1, <2>2 DEF Live
<1> QED
  BY <1>1 DEF TypeInv, TypeOK, References

LEMMA NewWorkerType ==
    ASSUME NEW o \in Obj \cup {NoObj}, NEW pc \in Pc
    PROVE  NewWorker(o, pc) \in Worker
  BY DEF NewWorker, Worker

LEMMA InitTypeInv == Init => TypeInv
  BY DEF Init, TypeInv, TypeOK, References, Live, NewWorker, Worker, Pc,
         Pausing, IdlePauser, Blank, Fresh, Record, Status

LEMMA NextTypeInv == TypeInv /\ [Next]_vars => TypeInv'
<1> SUFFICES ASSUME TypeInv, [Next]_vars PROVE TypeInv'
  OBVIOUS
<1> USE DEF TypeInv
<1>1. CASE FetchManifest
  BY <1>1 DEF FetchManifest, TypeOK, References, Live, memory
<1>2. ASSUME NEW o \in Obj, NEW t \in Task, StartAgain(o, t) PROVE TypeInv'
  <2>1. Existing \in Record
    BY <1>2 DEF StartAgain, Existing, TypeOK
  <2>2. [Existing EXCEPT !.status = "downloading"] \in Record
    BY <2>1, RecordStatus DEF Status
  <2>3. NewWorker(o, "ready") \in Worker
    BY NewWorkerType DEF Pc
  <2>4. TypeOK'
    BY <1>2, <2>2, <2>3 DEF StartAgain, Launch, Save, TypeOK
  <2>5. References'
    BY <1>2, <2>3 DEF StartAgain, Launch, FreeTask, Live, NewWorker, TypeOK, References
  <2> QED BY <2>4, <2>5
<1>3. ASSUME NEW o \in Obj, NEW t \in Task, StartFresh(o, t) PROVE TypeInv'
  <2>1. Fresh \in Record
    BY DEF Fresh, Record, Status
  <2>2. NewWorker(o, "ready") \in Worker
    BY NewWorkerType DEF Pc
  <2>3. TypeOK'
    BY <1>3, <2>1, <2>2 DEF StartFresh, Launch, Save, TypeOK
  <2>4. References'
    BY <1>3, <2>2 DEF StartFresh, Launch, FreeTask, Live, NewWorker, TypeOK, References
  <2> QED BY <2>3, <2>4
<1>4. ASSUME NEW o \in Obj, NEW t \in Task, Resume(o, t) PROVE TypeInv'
  <2>1. Existing \in Record
    BY <1>4 DEF Resume, Existing, TypeOK
  <2>2. [Existing EXCEPT !.status = "downloading"] \in Record
    BY <2>1, RecordStatus DEF Status
  <2>3. NewWorker(o, "ready") \in Worker
    BY NewWorkerType DEF Pc
  <2>4. TypeOK'
    BY <1>4, <2>2, <2>3 DEF Resume, Launch, TypeOK
  <2>5. References'
    BY <1>4, <2>3 DEF Resume, Launch, FreeTask, Live, NewWorker, TypeOK, References
  <2> QED BY <2>4, <2>5
<1>5. CASE PauseAtOnce
  <2>1. SetStatus(registered, "paused") \in [Obj -> Record]
    BY StateStatus DEF TypeOK, Status
  <2>2. [state[registered] EXCEPT !.status = "paused"] \in Record
    BY <1>5, RecordStatus DEF PauseAtOnce, PauseApplies, TypeOK, Status
  <2> QED
    BY <1>5, <2>1, <2>2 DEF PauseAtOnce, Save, TypeOK, References, Live
<1>6. ASSUME NEW p \in Pauser, PauseWait(p) PROVE TypeInv'
  <2>1. current \in Task /\ registered \in Obj
    BY <1>6 DEF PauseWait, PauseApplies, TypeOK
  <2>2. TypeOK'
    <3>1. worker' \in [Task -> Worker]
      <4>1. worker[current] \in Worker
        BY <2>1 DEF TypeOK
      <4>2. [worker[current] EXCEPT !.stop = TRUE] \in Worker
        BY <4>1 DEF Worker
      <4>3. worker' = [worker EXCEPT ![current] = [worker[current] EXCEPT !.stop = TRUE]]
        BY <1>6 DEF PauseWait
      <4> QED BY <4>2, <4>3 DEF TypeOK
    <3>2. [pc |-> "wait", obj |-> registered, task |-> current] \in Pausing
      BY <2>1 DEF Pausing
    <3> QED
      BY <1>6, <3>1, <3>2 DEF PauseWait, TypeOK, disk
  <2>3. References'
    BY <1>6, <2>1 DEF PauseWait, TypeOK, References, Live, disk
  <2> QED BY <2>2, <2>3
<1>7. ASSUME NEW p \in Pauser, PauseTimeout(p) PROVE TypeInv'
  <2>1. TypeOK'
    <3>1. worker' \in [Task -> Worker]
      <4> DEFINE u == pauser[p].task
      <4>1. u \in Task /\ worker[u] \in Worker
        BY <1>7 DEF PauseTimeout, TypeOK, References
      <4>2. [worker[u] EXCEPT !.cancelled = TRUE] \in Worker
        BY <4>1 DEF Worker
      <4>3. worker' = [worker EXCEPT ![u] = [worker[u] EXCEPT !.cancelled = TRUE]]
        BY <1>7 DEF PauseTimeout, CancelTask
      <4> QED BY <4>2, <4>3 DEF TypeOK
    <3>2. pauser' \in [Pauser -> Pausing]
      BY <1>7 DEF PauseTimeout, CancelTask, TypeOK, Pausing
    <3> QED
      BY <1>7, <3>1, <3>2 DEF PauseTimeout, CancelTask, TypeOK, disk
  <2>2. References'
    BY <1>7 DEF PauseTimeout, CancelTask, TypeOK, References, Live, disk
  <2> QED BY <2>1, <2>2
<1>8. ASSUME NEW p \in Pauser, PauseFinish(p) PROVE TypeInv'
  <2>1. SetStatus(pauser[p].obj, "paused") \in [Obj -> Record]
    BY StateStatus DEF TypeOK, Status
  <2>2. [state[pauser[p].obj] EXCEPT !.status = "paused"] \in Record
    BY <1>8, RecordStatus DEF PauseFinish, TypeOK, Status, References
  <2>3. IdlePauser \in Pausing
    BY DEF IdlePauser, Pausing
  <2> QED
    BY <1>8, <2>1, <2>2, <2>3
    DEF PauseFinish, Save, TypeOK, References, Live, IdlePauser
<1>9. CASE ClearCompleted
  BY <1>9 DEF ClearCompleted, TypeOK, References, Live, disk
<1>10. ASSUME NEW t \in Task, Begin(t) PROVE TypeInv'
  <2>1. state[worker[t].obj].missing \in SUBSET Chunks
    BY <1>10 DEF Begin, TypeOK, References, Live, Record
  <2>2. TypeOK'
    <3>1. worker' \in [Task -> Worker]
      <4> DEFINE w == [worker[t] EXCEPT !.pc = "loop",
                                        !.todo = state[worker[t].obj].missing]
      <4>1. w \in Worker
        <5>1. worker[t] \in Worker /\ "loop" \in Pc
          BY DEF TypeOK, Pc
        <5> QED BY <2>1, <5>1 DEF Worker
      <4>2. worker' = [worker EXCEPT ![t] = w]
        BY <1>10 DEF Begin
      <4> QED BY <4>1, <4>2 DEF TypeOK
    <3> QED
      BY <1>10, <3>1 DEF Begin, Keep, TypeOK, disk
  <2>3. References'
    BY <1>10 DEF Begin, TypeOK, References, Live, disk
  <2> QED BY <2>2, <2>3
<1>11. ASSUME NEW t \in Task, StopAtChunk(t) PROVE TypeInv'
  <2>1. TypeOK'
    BY <1>11, FinishedType DEF StopAtChunk, Yield, TypeOK, disk
  <2>2. References'
    BY <1>11, FinishedReferences DEF StopAtChunk, disk
  <2> QED BY <2>1, <2>2
<1>12. ASSUME NEW t \in Task, NEW i \in Chunks, TakeChunk(t, i) PROVE TypeInv'
  <2>1. TypeOK'
    BY <1>12 DEF TakeChunk, Keep, Yield, TypeOK, Worker, Pc, disk
  <2>2. References'
    <3>1. /\ \A u \in Task : worker'[u].obj = worker[u].obj /\ (Live(u)' <=> Live(u))
          /\ UNCHANGED <<registered, current, pauser>>
      <4>1. PICK pc \in {"got", "fetch"} : worker' = [worker EXCEPT ![t].pc = pc]
        BY <1>12 DEF TakeChunk
      <4>2. Live(t)
        BY <1>12 DEF TakeChunk, Live
      <4> QED BY <1>12, <4>1, <4>2 DEF TakeChunk, TypeOK, Live, disk
    <3> QED
      BY <3>1 DEF References, TypeOK
  <2> QED BY <2>1, <2>2
<1>13. ASSUME NEW t \in Task, NEW i \in Chunks, FetchOk(t, i) PROVE TypeInv'
  <2>1. TypeOK'
    BY <1>13 DEF FetchOk, Keep, TypeOK, Worker, Pc
  <2>2. References'
    BY <1>13 DEF FetchOk, TypeOK, References, Live
  <2> QED BY <2>1, <2>2
<1>14. ASSUME NEW t \in Task, NEW i \in Chunks, ChunkError(t, i) PROVE TypeInv'
  <2>1. Live(t) /\ worker[t].obj \in Obj
    BY <1>14 DEF ChunkError, Live, References
  <2>2. SetStatus(worker[t].obj, "error") \in [Obj -> Record]
    BY StateStatus DEF TypeOK, Status
  <2>3. TypeOK'
    BY <1>14, <2>1, <2>2, FinishedType DEF ChunkError, MayTear, FailedStatus, Save, Yield, TypeOK
  <2>4. References'
    BY <1>14, FinishedReferences DEF ChunkError
  <2> QED BY <2>3, <2>4
<1>15. ASSUME NEW t \in Task, NEW i \in Chunks, MarkChunk(t, i) PROVE TypeInv'
  <2> DEFINE o == worker[t].obj
             rec == Marked(state[o], i)
             w == [worker[t] EXCEPT !.pc = "loop", !.todo = @ \ {i},
                                    !.since = NextSince(t)]
  <2>1. Live(t) /\ o \in Obj
    BY <1>15 DEF MarkChunk, Live, References
  <2>2. rec \in Record
    <3>1. state[o] \in Record
      BY <2>1 DEF TypeOK
    <3> QED BY <3>1 DEF Record, Marked
  <2>3. w \in Worker
    <3>1. worker[t] \in Worker /\ worker[t].since \in 0 .. FlushInterval - 1
      BY DEF TypeOK, Worker
    <3>2. NextSince(t) \in 0 .. FlushInterval - 1
      BY <3>1 DEF NextSince, Flushes
    <3> QED BY <3>1, <3>2 DEF Worker, Pc
  <2>4. /\ worker' = [worker EXCEPT ![t] = w]
        /\ state' = [state EXCEPT ![o] = rec]
        /\ resume' \in {rec, resume}
    BY <1>15 DEF MarkChunk, Save
  <2>5. TypeOK'
    <3>1. worker' \in [Task -> Worker] /\ state' \in [Obj -> Record]
      BY <2>2, <2>3, <2>4 DEF TypeOK
    <3>2. resume' \in Record \cup {NoRecord}
      BY <2>2, <2>4 DEF TypeOK
    <3> HIDE DEF o, rec, w
    <3> QED BY <1>15, <3>1, <3>2 DEF MarkChunk, TypeOK
  <2>6. \A u \in Task : worker'[u].obj = worker[u].obj /\ (Live(u)' <=> Live(u))
    BY <1>15, <2>4 DEF MarkChunk, TypeOK, Live
  <2> QED BY <1>15, <2>5, <2>6 DEF MarkChunk, TypeOK, References
<1>16. ASSUME NEW t \in Task, BeginMerge(t) PROVE TypeInv'
  <2>1. Live(t) /\ worker[t].obj \in Obj
    BY <1>16 DEF BeginMerge, Live, References
  <2>2. worker' \in [Task -> Worker]
    BY <1>16 DEF BeginMerge, TypeOK, Worker, Pc
  <2>3. TypeOK'
    BY <1>16, <2>1, <2>2 DEF BeginMerge, Save, TypeOK
  <2>4. References'
    BY <1>16 DEF BeginMerge, TypeOK, References, Live
  <2> QED BY <2>3, <2>4
<1>17. ASSUME NEW t \in Task, MergeLoad(t) PROVE TypeInv'
  <2> DEFINE w == [worker[t] EXCEPT !.loaded = @ + 1,
                     !.pc = IF worker[t].loaded \in torn THEN "spoilt" ELSE "merge"]
  <2>1. worker[t].loaded < NumChunks /\ worker[t].pc = "merge"
    BY <1>17 DEF MergeLoad, Loading
  <2>2. w \in Worker
    <3>1. worker[t] \in Worker /\ worker[t].loaded \in 0 .. NumChunks
      BY DEF TypeOK, Worker
    <3>2. worker[t].loaded + 1 \in 0 .. NumChunks
      BY <2>1, <3>1
    <3>3. (IF worker[t].loaded \in torn THEN "spoilt" ELSE "merge") \in Pc
      BY DEF Pc
    <3> QED BY <3>1, <3>2, <3>3 DEF Worker
  <2>3. worker' = [worker EXCEPT ![t] = w]
    BY <1>17 DEF MergeLoad
  <2>4. TypeOK'
    BY <1>17, <2>2, <2>3 DEF MergeLoad, Yield, TypeOK, disk
  <2>5. \A u \in Task : worker'[u].obj = worker[u].obj /\ (Live(u)' <=> Live(u))
    BY <2>1, <2>3 DEF TypeOK, Live
  <2> QED BY <1>17, <2>4, <2>5 DEF MergeLoad, TypeOK, References, disk
<1>18. ASSUME NEW t \in Task, MergeError(t) PROVE TypeInv'
  <2>1. Live(t) /\ worker[t].obj \in Obj
    BY <1>18 DEF MergeError, Loading, Live, References
  <2>2. SetStatus(worker[t].obj, "error") \in [Obj -> Record]
    BY StateStatus DEF TypeOK, Status
  <2>3. [state[worker[t].obj] EXCEPT !.status = "error"] \in Record
    BY <2>1, RecordStatus DEF TypeOK, Status
  <2>4. TypeOK'
    BY <1>18, <2>2, <2>3, FinishedType DEF MergeError, Save, Yield, TypeOK
  <2>5. References'
    BY <1>18, FinishedReferences DEF MergeError
  <2> QED BY <2>4, <2>5
<1>19. ASSUME NEW t \in Task, MergeDone(t) PROVE TypeInv'
  <2>1. Live(t) /\ worker[t].obj \in Obj
    BY <1>19 DEF MergeDone, Live, References
  <2>2. SetStatus(worker[t].obj, "completed") \in [Obj -> Record]
    BY StateStatus DEF TypeOK, Status
  <2>3. [state[worker[t].obj] EXCEPT !.status = "completed"] \in Record
    BY <2>1, RecordStatus DEF TypeOK, Status
  <2>4. worker' \in [Task -> Worker]
    BY <1>19 DEF MergeDone, TypeOK, Worker, Pc
  <2>5. TypeOK'
    BY <1>19, <2>2, <2>3, <2>4 DEF MergeDone, Save, Keep, TypeOK
  <2>6. References'
    BY <1>19 DEF MergeDone, TypeOK, References, Live
  <2> QED BY <2>5, <2>6
<1>20. ASSUME NEW t \in Task, DeleteResume(t) PROVE TypeInv'
  <2>1. TypeOK'
    BY <1>20, FinishedType DEF DeleteResume, Yield, TypeOK
  <2>2. References'
    BY <1>20, FinishedReferences DEF DeleteResume
  <2> QED BY <2>1, <2>2
<1>21. ASSUME NEW t \in Task, Cancelled(t) PROVE TypeInv'
  <2>1. worker[t].obj \in Obj
    BY <1>21 DEF Cancelled, References
  <2>2. SetStatus(worker[t].obj, "paused") \in [Obj -> Record]
    BY StateStatus DEF TypeOK, Status
  <2>3. [state[worker[t].obj] EXCEPT !.status = "paused"] \in Record
    BY <2>1, RecordStatus DEF TypeOK, Status
  <2>4. TypeOK'
    BY <1>21, <2>2, <2>3, FinishedType DEF Cancelled, Save, TypeOK
  <2>5. References'
    BY <1>21, FinishedReferences DEF Cancelled
  <2> QED BY <2>4, <2>5
<1>22. ASSUME NEW i \in Chunks, Evict(i) PROVE TypeInv'
  BY <1>22 DEF Evict, TypeOK, References, Live, memory
<1>23. ASSUME NEW i \in Chunks, RouteStores(i) PROVE TypeInv'
  BY <1>23 DEF RouteStores, TypeOK, References, Live, memory
<1>24. ASSUME NEW o \in Obj, CrashAndRecover(o) PROVE TypeInv'
  <2>1. /\ registered' \in Obj \cup {NoObj}
        /\ state' \in [Obj -> Record]
    <3>1. CASE resume = NoRecord
      BY <1>24, <3>1 DEF CrashAndRecover, TypeOK
    <3>2. CASE resume # NoRecord
      <4>1. [resume EXCEPT !.status = "paused"] \in Record
        BY <3>2, RecordStatus DEF TypeOK, Status
      <4> QED BY <1>24, <3>2, <4>1 DEF CrashAndRecover, Recovered, TypeOK
    <3> QED BY <3>1, <3>2
  <2>2. /\ \A t \in Task : worker'[t] = NewWorker(NoObj, "none") /\ worker'[t] \in Worker
        /\ \A p \in Pauser : pauser'[p] = IdlePauser /\ pauser'[p] \in Pausing
    BY <1>24, NewWorkerType DEF CrashAndRecover, IdlePauser, Pausing, Pc
  <2>3. worker' \in [Task -> Worker] /\ pauser' \in [Pauser -> Pausing]
    BY <1>24, <2>2 DEF CrashAndRecover
  <2>4. store' \subseteq Chunks /\ torn' \subseteq store'
    BY <1>24 DEF CrashAndRecover, TypeOK
  <2>5. TypeOK'
    BY <1>24, <2>1, <2>3, <2>4 DEF CrashAndRecover, TypeOK
  <2>6. References'
    BY <1>24, <2>2 DEF CrashAndRecover, References, Live, NewWorker, IdlePauser
  <2> QED BY <2>5, <2>6
<1>25. CASE UNCHANGED vars
  BY <1>25 DEF vars, TypeOK, References, Live
<1> QED
  BY <1>1, <1>2, <1>3, <1>4, <1>5, <1>6, <1>7, <1>8, <1>9, <1>10, <1>11, <1>12,
     <1>13, <1>14, <1>15, <1>16, <1>17, <1>18, <1>19, <1>20, <1>21, <1>22,
     <1>23, <1>24, <1>25
  DEF Next, Request, PauserStep, WorkerStep, PeerStep, Surroundings

(* The variables of the download manager always have their types, and a     *)
(* suspended coroutine never holds a task or an object that is not there.   *)
THEOREM TypeCorrect == Spec => []TypeOK
<1>1. Spec => []TypeInv
  BY InitTypeInv, NextTypeInv, PTL DEF Spec
<1> QED BY <1>1, PTL DEF TypeInv

-----------------------------------------------------------------------------
(* Progress *)

AtLoop == {"loop", "fetch", "got"}
AtMerge == {"merge", "spoilt", "unlink"}

(* A step that moves no chunk from missing to completed: it may change the  *)
(* status of objects, save one of them, stop workers or move them within    *)
(* their phase, and take from the store what may be evicted.                *)
Sideways ==
    /\ \A o \in Obj : /\ state'[o].missing = state[o].missing
                      /\ state'[o].completed = state[o].completed
                      /\ state'[o].status = "completed" => state[o].missing = {}
    /\ \/ resume' = NoRecord
       \/ resume' = resume
       \/ \E o \in Obj : /\ resume'.missing = state[o].missing
                         /\ resume'.completed = state[o].completed
    /\ store \subseteq store' \cup Evictable
    /\ \A t \in Task :
         /\ worker'[t].pc \in AtLoop =>
              /\ worker[t].pc \in AtLoop
              /\ worker'[t].obj = worker[t].obj /\ worker'[t].todo = worker[t].todo
         /\ worker'[t].pc \in AtMerge =>
              worker[t].pc \in AtMerge /\ worker'[t].obj = worker[t].obj

LEMMA SidewaysKeepsProgress ==
    ASSUME TypeInv, ProgressInv, Sideways, TypeInv'
    PROVE  ProgressInv'
<1>1. \A t \in Task : worker'[t].pc \in AtLoop \cup AtMerge => worker'[t].obj \in Obj
  BY DEF TypeInv, References, Live, AtLoop, AtMerge
<1>2. ChunksPartitioned'
  BY DEF ProgressInv, ChunksPartitioned, Splits, Sideways
<1>3. StoredBeforeClaimed'
  BY DEF ProgressInv, StoredBeforeClaimed, Sideways
<1>4. CompletedMissesNothing'
  BY DEF ProgressInv, CompletedMissesNothing, Sideways
<1>5. WalksTheMissing'
  BY <1>1 DEF ProgressInv, WalksTheMissing, Sideways, AtLoop, AtMerge
<1> QED BY <1>2, <1>3, <1>4, <1>5 DEF ProgressInv

(* The object that a status is set on is otherwise unchanged.               *)
LEMMA SetStatusFields ==
    ASSUME TypeInv, NEW o \in Obj, NEW s, state' = SetStatus(o, s)
    PROVE  /\ \A q \in Obj : /\ state'[q].missing = state[q].missing
                             /\ state'[q].completed = state[q].completed
                             /\ state'[q].status = IF q = o THEN s ELSE state[q].status
           /\ [state[o] EXCEPT !.status = s].missing = state[o].missing
           /\ [state[o] EXCEPT !.status = s].completed = state[o].completed
  BY DEF TypeInv, TypeOK, SetStatus, Record

(* Setting the status of an object and saving it, when workers only stop.   *)
LEMMA StatusStepSideways ==
    ASSUME TypeInv, ProgressInv, NEW o \in Obj, NEW s \in Status,
           state' = SetStatus(o, s),
           s = "completed" => state[o].missing = {},
           \/ resume' = NoRecord \/ resume' = resume
           \/ resume' = state[o]
           \/ resume' = [state[o] EXCEPT !.status = s],
           store \subseteq store',
           \A t \in Task : worker'[t].pc \in {"none", "done"} \/ worker'[t] = worker[t]
    PROVE  Sideways
<1>1. \A q \in Obj : /\ state'[q].missing = state[q].missing
                     /\ state'[q].completed = state[q].completed
                     /\ state'[q].status = "completed" => state[q].missing = {}
  BY SetStatusFields DEF ProgressInv, CompletedMissesNothing
<1>2. \/ resume' = NoRecord
      \/ resume' = resume
      \/ \E q \in Obj : /\ resume'.missing = state[q].missing
                        /\ resume'.completed = state[q].completed
  <2>1. CASE resume' = [state[o] EXCEPT !.status = s]
    <3>1. /\ [state[o] EXCEPT !.status = s].missing = state[o].missing
          /\ [state[o] EXCEPT !.status = s].completed = state[o].completed
      BY SetStatusFields
    <3> HIDE DEF SetStatus
    <3> QED BY <2>1, <3>1, Zenon
  <2> QED BY <2>1
<1> QED BY <1>1, <1>2 DEF Sideways, AtLoop, AtMerge

LEMMA FinishedStops ==
    ASSUME TypeInv, NEW t \in Task, worker' = Finished(t)
    PROVE  \A u \in Task : worker'[u].pc \in {"none", "done"} \/ worker'[u] = worker[u]
<1>1. worker'[t] = NewWorker(worker[t].obj, "done")
  BY FinishedType DEF TypeInv
<1>2. \A u \in Task : u # t => worker'[u] = worker[u]
  BY FinishedType DEF TypeInv
<1> QED BY <1>1, <1>2 DEF NewWorker

LEMMA InitProgressInv == Init => ProgressInv
  BY DEF Init, ProgressInv, ChunksPartitioned, Splits, StoredBeforeClaimed,
         CompletedMissesNothing, WalksTheMissing, Blank, Fresh, NewWorker

(* An object installed for a new worker: its chunks split the file and are  *)
(* in the store, and no worker was walking other chunks of it.              *)
LEMMA InstalledKeepsProgress ==
    ASSUME TypeInv, ProgressInv, NEW o \in Obj, NEW rec \in Record, NEW t \in Task,
           state' = [state EXCEPT ![o] = rec],
           worker' = [worker EXCEPT ![t] = NewWorker(o, "ready")],
           store' = store,
           resume' = rec \/ resume' = resume,
           rec.status = "downloading",
           Splits(rec),
           rec.completed \subseteq store \cup Evictable,
           \/ rec.missing = state[o].missing
           \/ \A u \in Task : Live(u) => worker[u].obj # o
    PROVE  ProgressInv'
<1>1. /\ state'[o] = rec
      /\ \A q \in Obj : q # o => state'[q] = state[q]
      /\ worker'[t].pc = "ready"
      /\ \A u \in Task : u # t => worker'[u] = worker[u]
  BY DEF TypeInv, TypeOK, NewWorker
<1>2. ChunksPartitioned'
  BY <1>1 DEF ProgressInv, ChunksPartitioned, Splits
<1>3. StoredBeforeClaimed'
  BY <1>1 DEF ProgressInv, StoredBeforeClaimed
<1>4. CompletedMissesNothing'
  BY <1>1 DEF ProgressInv, CompletedMissesNothing
<1>5. WalksTheMissing'
  <2> SUFFICES ASSUME NEW u \in Task
               PROVE  /\ worker'[u].pc \in AtLoop =>
                           state'[worker'[u].obj].missing \subseteq worker'[u].todo
                      /\ worker'[u].pc \in AtMerge => state'[worker'[u].obj].missing = {}
    BY DEF WalksTheMissing, AtLoop, AtMerge
  <2>1. CASE u = t
    BY <1>1, <2>1 DEF AtLoop, AtMerge
  <2>2. CASE u # t /\ Live(u)
    <3>1. worker'[u] = worker[u] /\ worker[u].obj \in Obj
      BY <1>1, <2>2 DEF TypeInv, References
    <3>2. state'[worker[u].obj].missing = state[worker[u].obj].missing
      BY <1>1, <2>2, <3>1
    <3> QED BY <3>1, <3>2 DEF ProgressInv, WalksTheMissing, AtLoop, AtMerge
  <2>3. CASE u # t /\ ~Live(u)
    BY <1>1, <2>3 DEF Live, AtLoop, AtMerge
  <2> QED BY <2>1, <2>2, <2>3
<1> QED BY <1>2, <1>3, <1>4, <1>5 DEF ProgressInv

(* The record that a lookup yields can be installed.                        *)
LEMMA ExistingInstalls ==
    ASSUME TypeInv, ProgressInv, NEW o \in Obj, IsExisting(o), Existing # NoRecord
    PROVE  LET rec == [Existing EXCEPT !.status = "downloading"]
           IN  /\ rec \in Record /\ rec.status = "downloading" /\ Splits(rec)
               /\ rec.completed \subseteq store \cup Evictable
               /\ \/ rec.missing = state[o].missing
                  \/ \A u \in Task : Live(u) => worker[u].obj # o
<1> DEFINE rec == [Existing EXCEPT !.status = "downloading"]
<1>1. /\ Existing \in Record /\ Splits(Existing)
      /\ Existing.completed \subseteq store \cup Evictable
  BY DEF Existing, TypeInv, TypeOK, ProgressInv, ChunksPartitioned, StoredBeforeClaimed
<1>2. /\ rec \in Record /\ rec.status = "downloading"
      /\ rec.missing = Existing.missing /\ rec.completed = Existing.completed
  BY <1>1 DEF Record, Status
<1>3. \/ Existing.missing = state[o].missing
      \/ \A u \in Task : Live(u) => worker[u].obj # o
  BY DEF IsExisting, Existing, FreeObj
<1> QED BY <1>1, <1>2, <1>3 DEF Splits

LEMMA NextProgressInv == TypeInv /\ ProgressInv /\ [Next]_vars => ProgressInv'
<1> SUFFICES ASSUME TypeInv, ProgressInv, [Next]_vars PROVE ProgressInv'
  OBVIOUS
<1>t. TypeInv'
  BY NextTypeInv
<1>c. \A o \in Obj : state[o].status = "completed" => state[o].missing = {}
  BY DEF ProgressInv, CompletedMissesNothing
<1>1. CASE FetchManifest
  BY <1>1, <1>t, <1>c, SidewaysKeepsProgress DEF FetchManifest, memory, Sideways
<1>2. ASSUME NEW o \in Obj, NEW t \in Task, StartAgain(o, t) PROVE ProgressInv'
  <2>1. IsExisting(o) /\ Existing # NoRecord
    BY <1>2 DEF StartAgain
  <2>2. /\ state' = [state EXCEPT ![o] = [Existing EXCEPT !.status = "downloading"]]
        /\ worker' = [worker EXCEPT ![t] = NewWorker(o, "ready")]
        /\ store' = store
        /\ \/ resume' = [Existing EXCEPT !.status = "downloading"]
           \/ resume' = resume
    BY <1>2 DEF StartAgain, Launch, Save
  <2> HIDE DEF Existing
  <2> QED BY <2>1, <2>2, ExistingInstalls, InstalledKeepsProgress
<1>3. ASSUME NEW o \in Obj, NEW t \in Task, StartFresh(o, t) PROVE ProgressInv'
  <2>1. /\ Fresh \in Record /\ Fresh.status = "downloading" /\ Splits(Fresh)
        /\ Fresh.completed \subseteq store \cup Evictable
    BY DEF Fresh, Record, Status, Splits
  <2>2. \A u \in Task : Live(u) => worker[u].obj # o
    BY <1>3 DEF StartFresh, FreeObj
  <2>3. /\ state' = [state EXCEPT ![o] = Fresh]
        /\ worker' = [worker EXCEPT ![t] = NewWorker(o, "ready")]
        /\ store' = store
        /\ resume' = Fresh \/ resume' = resume
    BY <1>3 DEF StartFresh, Launch, Save
  <2> QED BY <2>1, <2>2, <2>3, InstalledKeepsProgress
<1>4. ASSUME NEW o \in Obj, NEW t \in Task, Resume(o, t) PROVE ProgressInv'
  <2>1. IsExisting(o) /\ Existing # NoRecord
    BY <1>4 DEF Resume
  <2>2. /\ state' = [state EXCEPT ![o] = [Existing EXCEPT !.status = "downloading"]]
        /\ worker' = [worker EXCEPT ![t] = NewWorker(o, "ready")]
        /\ store' = store
        /\ resume' = resume
    BY <1>4 DEF Resume, Launch
  <2> QED BY <2>1, <2>2, ExistingInstalls, InstalledKeepsProgress
<1>5. CASE PauseAtOnce
  <2>1. registered \in Obj
    BY <1>5 DEF PauseAtOnce, PauseApplies, TypeInv, TypeOK
  <2>2. Sideways
    BY <1>5, <2>1, StatusStepSideways DEF PauseAtOnce, Save, Status
  <2> QED BY <2>2, <1>t, SidewaysKeepsProgress
<1>6. ASSUME NEW p \in Pauser, PauseWait(p) PROVE ProgressInv'
  <2>1. \A t \in Task : /\ worker'[t].pc = worker[t].pc
                        /\ worker'[t].obj = worker[t].obj
                        /\ worker'[t].todo = worker[t].todo
    BY <1>6 DEF PauseWait, TypeInv, TypeOK
  <2>2. UNCHANGED <<state, resume, store>>
    BY <1>6 DEF PauseWait, disk
  <2>3. Sideways
    BY <2>1, <2>2, <1>c DEF Sideways
  <2> QED BY <2>3, <1>t, SidewaysKeepsProgress
<1>7. ASSUME NEW p \in Pauser, PauseTimeout(p) PROVE ProgressInv'
  <2>1. \A t \in Task : /\ worker'[t].pc = worker[t].pc
                        /\ worker'[t].obj = worker[t].obj
                        /\ worker'[t].todo = worker[t].todo
    BY <1>7 DEF PauseTimeout, CancelTask, TypeInv, TypeOK
  <2>2. UNCHANGED <<state, resume, store>>
    BY <1>7 DEF PauseTimeout, CancelTask, disk
  <2>3. Sideways
    BY <2>1, <2>2, <1>c DEF Sideways
  <2> QED BY <2>3, <1>t, SidewaysKeepsProgress
<1>8. ASSUME NEW p \in Pauser, PauseFinish(p) PROVE ProgressInv'
  <2>1. pauser[p].obj \in Obj
    BY <1>8 DEF PauseFinish, TypeInv, References
  <2>2. Sideways
    BY <1>8, <2>1, StatusStepSideways DEF PauseFinish, Save, Status
  <2> QED BY <2>2, <1>t, SidewaysKeepsProgress
<1>9. CASE ClearCompleted
  BY <1>9, <1>t, <1>c, SidewaysKeepsProgress DEF ClearCompleted, disk, Sideways
<1>10. ASSUME NEW t \in Task, Begin(t) PROVE ProgressInv'
  <2>1. /\ worker'[t].pc = "loop" /\ worker'[t].obj = worker[t].obj
        /\ worker'[t].todo = state[worker[t].obj].missing
        /\ \A u \in Task : u # t => worker'[u] = worker[u]
    BY <1>10 DEF Begin, TypeInv, TypeOK
  <2>2. UNCHANGED <<state, resume, store>>
    BY <1>10 DEF Begin, disk
  <2> QED
    BY <2>1, <2>2 DEF ProgressInv, ChunksPartitioned, StoredBeforeClaimed,
                      CompletedMissesNothing, WalksTheMissing
<1>11. ASSUME NEW t \in Task, StopAtChunk(t) PROVE ProgressInv'
  <2>1. \A u \in Task : worker'[u].pc \in {"none", "done"} \/ worker'[u] = worker[u]
    BY <1>11, FinishedStops DEF StopAtChunk
  <2>2. UNCHANGED <<state, resume, store>>
    BY <1>11 DEF StopAtChunk, disk
  <2>3. Sideways
    BY <2>1, <2>2, <1>c DEF Sideways, AtLoop, AtMerge
  <2> QED BY <2>3, <1>t, SidewaysKeepsProgress
<1>12. ASSUME NEW t \in Task, NEW i \in Chunks, TakeChunk(t, i) PROVE ProgressInv'
  <2>1. PICK pc \in {"got", "fetch"} : worker' = [worker EXCEPT ![t].pc = pc]
    BY <1>12 DEF TakeChunk
  <2>2. /\ worker[t].pc = "loop" /\ worker'[t].pc = pc
        /\ \A u \in Task : /\ u # t => worker'[u] = worker[u]
                           /\ worker'[u].obj = worker[u].obj
                           /\ worker'[u].todo = worker[u].todo
    BY <1>12, <2>1 DEF TakeChunk, TypeInv, TypeOK
  <2>3. UNCHANGED <<state, resume, store>>
    BY <1>12 DEF TakeChunk, disk
  <2>4. Sideways
    BY <2>2, <2>3, <1>c DEF Sideways, AtLoop, AtMerge
  <2> QED BY <2>4, <1>t, SidewaysKeepsProgress
<1>13. ASSUME NEW t \in Task, NEW i \in Chunks, FetchOk(t, i) PROVE ProgressInv'
  <2>1. /\ worker[t].pc = "fetch" /\ worker'[t].pc = "got"
        /\ \A u \in Task : /\ u # t => worker'[u] = worker[u]
                           /\ worker'[u].obj = worker[u].obj
                           /\ worker'[u].todo = worker[u].todo
    BY <1>13 DEF FetchOk, TypeInv, TypeOK
  <2>2. UNCHANGED <<state, resume>> /\ store \subseteq store'
    BY <1>13 DEF FetchOk
  <2>3. Sideways
    BY <2>1, <2>2, <1>c DEF Sideways, AtLoop, AtMerge
  <2> QED BY <2>3, <1>t, SidewaysKeepsProgress
<1>14. ASSUME NEW t \in Task, NEW i \in Chunks, ChunkError(t, i) PROVE ProgressInv'
  <2>1. worker[t].obj \in Obj
    BY <1>14 DEF ChunkError, Live, TypeInv, References
  <2>2. \A u \in Task : worker'[u].pc \in {"none", "done"} \/ worker'[u] = worker[u]
    BY <1>14, FinishedStops DEF ChunkError
  <2>3. Sideways
    BY <1>14, <2>1, <2>2, StatusStepSideways DEF ChunkError, MayTear, FailedStatus, Save, Status
  <2> QED BY <2>3, <1>t, SidewaysKeepsProgress
<1>15. ASSUME NEW t \in Task, NEW i \in Chunks, MarkChunk(t, i) PROVE ProgressInv'
  <2> DEFINE o == worker[t].obj
             rec == Marked(state[o], i)
  <2>1. worker[t].pc = "got" /\ o \in Obj
    BY <1>15 DEF MarkChunk, Live, TypeInv, References
  <2>2. /\ rec.missing = state[o].missing \ {i}
        /\ rec.completed = state[o].completed \cup {i}
        /\ rec.status = state[o].status
        /\ state[o] \in Record
    BY <2>1 DEF TypeInv, TypeOK, Record, Marked
  <2>3. /\ state'[o] = rec
        /\ \A q \in Obj : q # o => state'[q] = state[q]
        /\ store' = store \cup {i}
        /\ resume' = rec \/ resume' = resume
    BY <1>15, <2>1 DEF MarkChunk, Save, TypeInv, TypeOK
  <2>4. /\ worker'[t].pc = "loop" /\ worker'[t].obj = o
        /\ worker'[t].todo = worker[t].todo \ {i}
        /\ \A u \in Task : u # t => worker'[u] = worker[u]
    BY <1>15 DEF MarkChunk, TypeInv, TypeOK
  <2>5. Splits(rec) /\ rec.completed \subseteq store' \cup Evictable
    BY <2>1, <2>2, <2>3
    DEF Splits, ProgressInv, ChunksPartitioned, StoredBeforeClaimed, Record
  <2> HIDE DEF rec
  <2>6. ChunksPartitioned'
    BY <2>3, <2>5 DEF ProgressInv, ChunksPartitioned, Splits
  <2>7. StoredBeforeClaimed'
    BY <2>3, <2>5 DEF ProgressInv, StoredBeforeClaimed
  <2>8. CompletedMissesNothing'
    BY <1>c, <2>2, <2>3 DEF CompletedMissesNothing
  <2>9. WalksTheMissing'
    <3>1. \A u \in Task : Live(u) => worker[u].obj \in Obj
      BY DEF TypeInv, References
    <3>2. \A q \in Obj : state'[q].missing \subseteq state[q].missing
      BY <2>2, <2>3
    <3> QED
      BY <2>1, <2>2, <2>3, <2>4, <3>1, <3>2 DEF ProgressInv, WalksTheMissing, Live
  <2> QED BY <2>6, <2>7, <2>8, <2>9 DEF ProgressInv
<1>16. ASSUME NEW t \in Task, BeginMerge(t) PROVE ProgressInv'
  <2>1. /\ worker[t].pc = "loop" /\ worker[t].todo = {} /\ worker[t].obj \in Obj
        /\ worker'[t].pc = "merge" /\ worker'[t].obj = worker[t].obj
        /\ \A u \in Task : u # t => worker'[u] = worker[u]
    BY <1>16 DEF BeginMerge, Live, TypeInv, TypeOK, References
  <2>2. UNCHANGED <<state, store>>
    BY <1>16 DEF BeginMerge
  <2>3. resume' = state[worker[t].obj] \/ resume' = resume
    BY <1>16 DEF BeginMerge, Save
  <2>4. state[worker[t].obj].missing = {}
    BY <2>1 DEF ProgressInv, WalksTheMissing
  <2> QED
    BY <2>1, <2>2, <2>3, <2>4
    DEF ProgressInv, ChunksPartitioned, StoredBeforeClaimed, CompletedMissesNothing,
        WalksTheMissing
<1>17. ASSUME NEW t \in Task, MergeLoad(t) PROVE ProgressInv'
  <2>1. worker[t].pc = "merge"
    BY <1>17 DEF MergeLoad, Loading
  <2>2. /\ worker'[t].pc \in {"spoilt", "merge"} /\ worker'[t].obj = worker[t].obj
        /\ \A u \in Task : u # t => worker'[u] = worker[u]
    BY <1>17 DEF MergeLoad, TypeInv, TypeOK
  <2>3. UNCHANGED <<state, resume, store>>
    BY <1>17 DEF MergeLoad, disk
  <2>4. Sideways
    BY <2>1, <2>2, <2>3, <1>c DEF Sideways, AtLoop, AtMerge
  <2> QED BY <2>4, <1>t, SidewaysKeepsProgress
<1>18. ASSUME NEW t \in Task, MergeError(t) PROVE ProgressInv'
  <2>1. worker[t].obj \in Obj
    BY <1>18 DEF MergeError, Loading, Live, TypeInv, References
  <2>2. \A u \in Task : worker'[u].pc \in {"none", "done"} \/ worker'[u] = worker[u]
    BY <1>18, FinishedStops DEF MergeError
  <2>3. Sideways
    BY <1>18, <2>1, <2>2, StatusStepSideways DEF MergeError, Save, Status
  <2> QED BY <2>3, <1>t, SidewaysKeepsProgress
<1>19. ASSUME NEW t \in Task, MergeDone(t) PROVE ProgressInv'
  <2>1. /\ worker[t].pc = "merge" /\ worker[t].obj \in Obj
        /\ worker'[t].pc = "unlink" /\ worker'[t].obj = worker[t].obj
        /\ \A u \in Task : u # t => worker'[u] = worker[u]
    BY <1>19 DEF MergeDone, Live, TypeInv, TypeOK, References
  <2>2. state[worker[t].obj].missing = {}
    BY <2>1 DEF ProgressInv, WalksTheMissing
  <2> DEFINE o == worker[t].obj
  <2>3. state' = SetStatus(o, "completed")
    BY <1>19 DEF MergeDone
  <2>4. \A q \in Obj : /\ state'[q].missing = state[q].missing
                       /\ state'[q].completed = state[q].completed
                       /\ state'[q].status = "completed" => state[q].missing = {}
    BY <1>c, <2>1, <2>2, <2>3, SetStatusFields
  <2>5. /\ resume' = resume \/ resume' = [state[o] EXCEPT !.status = "completed"]
        /\ store' = store
    BY <1>19 DEF MergeDone, Save
  <2>6. /\ [state[o] EXCEPT !.status = "completed"].missing = state[o].missing
        /\ [state[o] EXCEPT !.status = "completed"].completed = state[o].completed
    BY <2>1, <2>3, SetStatusFields
  <2> HIDE DEF o
  <2>7. \/ resume' = resume
        \/ resume'.missing = state[o].missing /\ resume'.completed = state[o].completed
    BY <2>5, <2>6, Zenon
  <2>8. Sideways
    BY <2>1, <2>4, <2>5, <2>7 DEF Sideways, AtLoop, AtMerge, o
  <2> QED BY <2>8, <1>t, SidewaysKeepsProgress
<1>20. ASSUME NEW t \in Task, DeleteResume(t) PROVE ProgressInv'
  <2>1. \A u \in Task : worker'[u].pc \in {"none", "done"} \/ worker'[u] = worker[u]
    BY <1>20, FinishedStops DEF DeleteResume
  <2>2. UNCHANGED <<state, store>> /\ resume' = NoRecord
    BY <1>20 DEF DeleteResume
  <2>3. Sideways
    BY <2>1, <2>2, <1>c DEF Sideways, AtLoop, AtMerge
  <2> QED BY <2>3, <1>t, SidewaysKeepsProgress
<1>21. ASSUME NEW t \in Task, Cancelled(t) PROVE ProgressInv'
  <2>1. worker[t].obj \in Obj
    BY <1>21 DEF Cancelled, TypeInv, References
  <2>2. \A u \in Task : worker'[u].pc \in {"none", "done"} \/ worker'[u] = worker[u]
    BY <1>21, FinishedStops DEF Cancelled
  <2>3. CASE worker[t].pc = "ready"
    <3>1. UNCHANGED <<state, resume, store>>
      BY <1>21, <2>3 DEF Cancelled
    <3>2. Sideways
      BY <2>2, <3>1, <1>c DEF Sideways, AtLoop, AtMerge
    <3> QED BY <3>2, <1>t, SidewaysKeepsProgress
  <2>4. CASE worker[t].pc # "ready"
    <3>1. Sideways
      BY <1>21, <2>1, <2>2, <2>4, StatusStepSideways DEF Cancelled, Save, Status
    <3> QED BY <3>1, <1>t, SidewaysKeepsProgress
  <2> QED BY <2>3, <2>4
<1>22. ASSUME NEW i \in Chunks, Evict(i) PROVE ProgressInv'
  BY <1>22, <1>t, <1>c, SidewaysKeepsProgress DEF Evict, memory, Sideways
<1>23. ASSUME NEW i \in Chunks, RouteStores(i) PROVE ProgressInv'
  BY <1>23, <1>t, <1>c, SidewaysKeepsProgress DEF RouteStores, memory, Sideways
<1>24. ASSUME NEW o \in Obj, CrashAndRecover(o) PROVE ProgressInv'
  <2>1. \A t \in Task : worker'[t].pc = "none"
    BY <1>24 DEF CrashAndRecover, NewWorker
  <2>2. resume' = resume /\ store \subseteq store'
    BY <1>24 DEF CrashAndRecover
  <2>3. WalksTheMissing'
    BY <2>1 DEF WalksTheMissing
  <2>4. CASE resume = NoRecord
    <3>1. state' = state
      BY <1>24, <2>4 DEF CrashAndRecover
    <3> QED
      BY <2>2, <2>3, <3>1 DEF ProgressInv, ChunksPartitioned, StoredBeforeClaimed,
                             CompletedMissesNothing
  <2>5. CASE resume # NoRecord
    <3> DEFINE rec == [resume EXCEPT !.status = "paused"]
    <3>1. resume \in Record
      BY <2>5 DEF TypeInv, TypeOK
    <3>2. /\ rec.missing = resume.missing /\ rec.completed = resume.completed
          /\ rec.status = "paused"
      BY <3>1 DEF Record
    <3>3. state'[o] = rec /\ \A q \in Obj : q # o => state'[q] = state[q]
      BY <1>24, <2>5 DEF CrashAndRecover, Recovered, TypeInv, TypeOK
    <3> HIDE DEF rec
    <3> QED
      BY <2>2, <2>3, <2>5, <3>2, <3>3
      DEF ProgressInv, ChunksPartitioned, Splits, StoredBeforeClaimed,
          CompletedMissesNothing
  <2> QED BY <2>4, <2>5
<1>25. CASE UNCHANGED vars
  BY <1>25 DEF vars, ProgressInv, ChunksPartitioned, Splits, StoredBeforeClaimed,
               CompletedMissesNothing, WalksTheMissing
<1> QED
  BY <1>1, <1>2, <1>3, <1>4, <1>5, <1>6, <1>7, <1>8, <1>9, <1>10, <1>11, <1>12,
     <1>13, <1>14, <1>15, <1>16, <1>17, <1>18, <1>19, <1>20, <1>21, <1>22,
     <1>23, <1>24, <1>25
  DEF Next, Request, PauserStep, WorkerStep, PeerStep, Surroundings

LEMMA ProgressAlways == Spec => []ProgressInv
<1>1. Init => TypeInv /\ ProgressInv
  BY InitTypeInv, InitProgressInv
<1>2. (TypeInv /\ ProgressInv) /\ [Next]_vars => (TypeInv /\ ProgressInv)'
  BY NextTypeInv, NextProgressInv
<1> QED BY <1>1, <1>2, PTL DEF Spec

(* Missing and completed chunks split the file, in every DownloadState and  *)
(* in the record on disk, whoever works on them.                            *)
THEOREM Partition == Spec => []ChunksPartitioned
  BY ProgressAlways, PTL DEF ProgressInv

(* Neither a download nor the record a restart recovers counts a chunk as   *)
(* completed that was not stored before.                                    *)
THEOREM Stored == Spec => []StoredBeforeClaimed
  BY ProgressAlways, PTL DEF ProgressInv

(* A download that shows as completed misses no chunk, also when several    *)
(* workers shared its object.                                               *)
THEOREM Complete == Spec => []CompletedMissesNothing
  BY ProgressAlways, PTL DEF ProgressInv

-----------------------------------------------------------------------------
(* Service *)

LEMMA InitServiceInv == Init => ServiceInv
  BY DEF Init, ServiceInv, DownloadingIsServed, UnlinksCompleted, StopIsAwaited,
         AwaitsItsObject, Live, NewWorker, IdlePauser

(* A step that changes no status, registers nothing, starts, stops and      *)
(* cancels no worker and enters no unlinking.                               *)
LEMMA QuietStepKeepsService ==
    ASSUME TypeInv, ServiceInv, TypeInv',
           registered' = registered, pauser' = pauser,
           \A o \in Obj : state'[o].status = state[o].status,
           \A t \in Task : /\ worker'[t].obj = worker[t].obj
                           /\ Live(t)' <=> Live(t)
                           /\ worker'[t].stop <=> worker[t].stop
                           /\ worker'[t].cancelled <=> worker[t].cancelled,
           \A t \in Task : worker'[t].pc = "unlink" =>
                             worker[t].pc = "unlink" /\ loop' = loop
    PROVE  ServiceInv'
<1>1. DownloadingIsServed'
  BY DEF ServiceInv, DownloadingIsServed, TypeInv, TypeOK
<1>2. UnlinksCompleted'
  <2>1. \A t \in Task : worker[t].pc = "unlink" => worker[t].obj \in Obj
    BY DEF TypeInv, References, Live
  <2> QED BY <2>1 DEF ServiceInv, UnlinksCompleted
<1>3. StopIsAwaited'
  BY DEF ServiceInv, StopIsAwaited
<1>4. AwaitsItsObject'
  BY DEF ServiceInv, AwaitsItsObject, TypeInv, References
<1> QED BY <1>1, <1>2, <1>3, <1>4 DEF ServiceInv

(* A worker ends: its object is no longer downloading or a pause request is *)
(* about to say so.                                                         *)
LEMMA EndKeepsService ==
    ASSUME TypeInv, ServiceInv, NEW t \in Task, Live(t), loop \in {Idle, t},
           worker' = Finished(t), registered' = registered, pauser' = pauser,
           \A o \in Obj : o # worker[t].obj => state'[o].status = state[o].status,
           \/ state'[worker[t].obj].status # "downloading"
           \/ /\ state' = state
              /\ \E p \in Pauser : pauser[p].pc # "idle" /\ pauser[p].obj = worker[t].obj
    PROVE  ServiceInv'
<1>1. worker'[t] = NewWorker(worker[t].obj, "done")
  BY FinishedType DEF TypeInv
<1>2. worker'[t].pc = "done" /\ worker'[t].obj = worker[t].obj /\ ~Live(t)'
  BY <1>1 DEF NewWorker, Live
<1>3. \A u \in Task : u # t => worker'[u] = worker[u] /\ (Live(u)' <=> Live(u))
  BY FinishedType DEF TypeInv, Live
<1>4. DownloadingIsServed'
  BY <1>2, <1>3 DEF ServiceInv, DownloadingIsServed, TypeInv, TypeOK
<1>5. UnlinksCompleted'
  BY <1>2, <1>3 DEF ServiceInv, UnlinksCompleted
<1>6. StopIsAwaited'
  BY <1>2, <1>3 DEF ServiceInv, StopIsAwaited
<1>7. AwaitsItsObject'
  BY <1>2, <1>3 DEF ServiceInv, AwaitsItsObject, TypeInv, References
<1> QED BY <1>4, <1>5, <1>6, <1>7 DEF ServiceInv

(* A worker is launched on the object that becomes the registered one.      *)
LEMMA LaunchKeepsService ==
    ASSUME TypeInv, ServiceInv, NEW o \in Obj, NEW t \in Task, Launch(o, t), loop = Idle
    PROVE  ServiceInv'
<1>1. /\ worker'[t] = NewWorker(o, "ready")
      /\ \A u \in Task : u # t => worker'[u] = worker[u] /\ (Live(u)' <=> Live(u))
      /\ UNCHANGED <<pauser, loop>> /\ registered' = o
  BY DEF Launch, TypeInv, TypeOK, Live
<1>2. /\ worker'[t].obj = o /\ worker'[t].pc = "ready" /\ Live(t)'
      /\ ~worker'[t].stop /\ ~worker'[t].cancelled
  BY <1>1 DEF NewWorker, Live
<1>3. \A p \in Pauser : pauser[p].task # t
  BY DEF Launch, FreeTask
<1>4. DownloadingIsServed'
  BY <1>1, <1>2 DEF DownloadingIsServed
<1>5. UnlinksCompleted'
  BY <1>1, <1>2 DEF ServiceInv, UnlinksCompleted
<1>6. StopIsAwaited'
  BY <1>1, <1>2 DEF ServiceInv, StopIsAwaited
<1>7. AwaitsItsObject'
  BY <1>1, <1>3 DEF ServiceInv, AwaitsItsObject, TypeInv, References
<1> QED BY <1>4, <1>5, <1>6, <1>7 DEF ServiceInv

LEMMA NextServiceInv == TypeInv /\ ServiceInv /\ [Next]_vars => ServiceInv'
<1> SUFFICES ASSUME TypeInv, ServiceInv, [Next]_vars PROVE ServiceInv'
  OBVIOUS
<1>t. TypeInv'
  BY NextTypeInv
<1>u. \A t \in Task : loop = Idle => worker[t].pc # "unlink"
  BY DEF ServiceInv, UnlinksCompleted
<1>s. ASSUME NEW o \in Obj, NEW s, state' = SetStatus(o, s)
      PROVE  /\ state'[o].status = s
             /\ \A q \in Obj : q # o => state'[q].status = state[q].status
  BY <1>s, SetStatusFields
<1>1. CASE FetchManifest
  BY <1>1, <1>t, QuietStepKeepsService DEF FetchManifest, memory, Live
<1>2. ASSUME NEW o \in Obj, NEW t \in Task, StartAgain(o, t) PROVE ServiceInv'
  BY <1>2, LaunchKeepsService DEF StartAgain
<1>3. ASSUME NEW o \in Obj, NEW t \in Task, StartFresh(o, t) PROVE ServiceInv'
  BY <1>3, LaunchKeepsService DEF StartFresh
<1>4. ASSUME NEW o \in Obj, NEW t \in Task, Resume(o, t) PROVE ServiceInv'
  BY <1>4, LaunchKeepsService DEF Resume
<1>5. CASE PauseAtOnce
  <2>1. registered \in Obj /\ loop = Idle
    BY <1>5 DEF PauseAtOnce, PauseApplies, TypeInv, TypeOK
  <2>2. state'[registered].status = "paused"
    BY <1>5, <1>s, <2>1 DEF PauseAtOnce
  <2>3. UNCHANGED <<registered, worker, pauser, loop>>
    BY <1>5 DEF PauseAtOnce
  <2> QED
    BY <1>u, <2>1, <2>2, <2>3
    DEF ServiceInv, DownloadingIsServed, UnlinksCompleted, StopIsAwaited,
        AwaitsItsObject, Live
<1>6. ASSUME NEW p \in Pauser, PauseWait(p) PROVE ServiceInv'
  <2>1. /\ current \in Task /\ registered \in Obj /\ loop = Idle
        /\ worker[current].obj = registered /\ pauser[p].pc = "idle"
    BY <1>6 DEF PauseWait, PauseApplies, TypeInv, TypeOK, References
  <2>2. /\ pauser'[p].pc = "wait" /\ pauser'[p].obj = registered
        /\ pauser'[p].task = current
        /\ \A q \in Pauser : q # p => pauser'[q] = pauser[q]
    BY <1>6 DEF PauseWait, TypeInv, TypeOK
  <2>3. /\ UNCHANGED <<registered, state, loop>>
        /\ \A u \in Task : /\ worker'[u].obj = worker[u].obj
                           /\ worker'[u].pc = worker[u].pc
                           /\ worker'[u].cancelled <=> worker[u].cancelled
                           /\ u # current => (worker'[u].stop <=> worker[u].stop)
    BY <1>6, <2>1 DEF PauseWait, disk, TypeInv, TypeOK
  <2>4. DownloadingIsServed'
    BY <2>2, <2>3 DEF DownloadingIsServed
  <2>5. UnlinksCompleted'
    BY <1>u, <2>1, <2>3 DEF UnlinksCompleted
  <2>6. StopIsAwaited'
    BY <2>1, <2>2, <2>3 DEF ServiceInv, StopIsAwaited, Live
  <2>7. AwaitsItsObject'
    BY <2>1, <2>2, <2>3 DEF ServiceInv, AwaitsItsObject, TypeInv, References, Live
  <2> QED BY <2>4, <2>5, <2>6, <2>7 DEF ServiceInv
<1>7. ASSUME NEW p \in Pauser, PauseTimeout(p) PROVE ServiceInv'
  <2>1. /\ pauser[p].pc = "wait" /\ Live(pauser[p].task) /\ loop = Idle
        /\ pauser[p].task \in Task
        /\ worker[pauser[p].task].obj = pauser[p].obj
    BY <1>7 DEF PauseTimeout, CancelTask, ServiceInv, AwaitsItsObject, TypeInv, References
  <2>2. /\ pauser'[p].pc = "join"
        /\ \A q \in Pauser : /\ q # p => pauser'[q] = pauser[q]
                             /\ pauser'[q].obj = pauser[q].obj
                             /\ pauser'[q].task = pauser[q].task
    BY <1>7 DEF PauseTimeout, CancelTask, TypeInv, TypeOK
  <2>3. /\ UNCHANGED <<registered, state, loop>>
        /\ \A u \in Task :
             /\ worker'[u].obj = worker[u].obj
             /\ worker'[u].pc = worker[u].pc
             /\ worker'[u].stop <=> worker[u].stop
             /\ u # pauser[p].task => (worker'[u].cancelled <=> worker[u].cancelled)
    BY <1>7, <2>1 DEF PauseTimeout, CancelTask, disk, TypeInv, TypeOK
  <2>4. \A q \in Pauser : pauser'[q].pc # "idle" <=> pauser[q].pc # "idle"
    BY <2>1, <2>2
  <2>5. DownloadingIsServed'
    BY <2>2, <2>3, <2>4 DEF ServiceInv, DownloadingIsServed, Live
  <2>6. UnlinksCompleted'
    BY <1>u, <2>1, <2>3 DEF UnlinksCompleted
  <2>7. StopIsAwaited'
    BY <2>1, <2>2, <2>3, <2>4 DEF ServiceInv, StopIsAwaited, Live
  <2>8. AwaitsItsObject'
    BY <2>1, <2>2, <2>3, <2>4
    DEF ServiceInv, AwaitsItsObject, TypeInv, References, Live
  <2> QED BY <2>5, <2>6, <2>7, <2>8 DEF ServiceInv
<1>8. ASSUME NEW p \in Pauser, PauseFinish(p) PROVE ServiceInv'
  <2>1. /\ loop = Idle /\ pauser[p].obj \in Obj /\ ~Live(pauser[p].task)
        /\ UNCHANGED <<registered, worker, loop>>
    BY <1>8 DEF PauseFinish, TypeInv, References
  <2>2. /\ pauser'[p].pc = "idle"
        /\ \A q \in Pauser : q # p => pauser'[q] = pauser[q]
    BY <1>8 DEF PauseFinish, IdlePauser, TypeInv, TypeOK
  <2>3. /\ state'[pauser[p].obj].status = "paused"
        /\ \A o \in Obj : o # pauser[p].obj => state'[o].status = state[o].status
    BY <1>8, <1>s, <2>1 DEF PauseFinish
  <2>4. DownloadingIsServed'
    BY <2>1, <2>2, <2>3 DEF ServiceInv, DownloadingIsServed, Live, TypeInv, TypeOK
  <2>5. UnlinksCompleted'
    BY <1>u, <2>1 DEF UnlinksCompleted
  <2>6. StopIsAwaited'
    BY <2>1, <2>2 DEF ServiceInv, StopIsAwaited, Live
  <2>7. AwaitsItsObject'
    BY <2>1, <2>2 DEF ServiceInv, AwaitsItsObject, Live
  <2> QED BY <2>4, <2>5, <2>6, <2>7 DEF ServiceInv
<1>9. CASE ClearCompleted
  BY <1>9 DEF ClearCompleted, disk, ServiceInv, DownloadingIsServed,
              UnlinksCompleted, StopIsAwaited, AwaitsItsObject, Live
<1>10. ASSUME NEW t \in Task, Begin(t) PROVE ServiceInv'
  <2>1. /\ loop = Idle /\ UNCHANGED <<registered, state, pauser>>
        /\ \A u \in Task : /\ worker'[u].obj = worker[u].obj
                           /\ worker'[u].pc # "unlink"
                           /\ Live(u)' <=> Live(u)
                           /\ worker'[u].stop <=> worker[u].stop
                           /\ worker'[u].cancelled <=> worker[u].cancelled
    BY <1>10, <1>u DEF Begin, Resumed, Live, TypeInv, TypeOK
  <2> QED BY <2>1, <1>t, QuietStepKeepsService
<1>11. ASSUME NEW t \in Task, StopAtChunk(t) PROVE ServiceInv'
  <2>1. Live(t) /\ worker[t].stop
    BY <1>11 DEF StopAtChunk, Live
  <2>2. \E p \in Pauser : pauser[p].pc # "idle" /\ pauser[p].obj = worker[t].obj
    BY <2>1 DEF ServiceInv, StopIsAwaited
  <2> QED BY <1>11, <2>1, <2>2, EndKeepsService DEF StopAtChunk
<1>12. ASSUME NEW t \in Task, NEW i \in Chunks, TakeChunk(t, i) PROVE ServiceInv'
  <2>1. PICK pc \in {"got", "fetch"} : worker' = [worker EXCEPT ![t].pc = pc]
    BY <1>12 DEF TakeChunk
  <2>2. \A u \in Task : u # t => worker[u].pc # "unlink"
    BY <1>12 DEF TakeChunk, ServiceInv, UnlinksCompleted
  <2>3. worker[t].pc = "loop" /\ UNCHANGED <<registered, state, pauser>>
    BY <1>12 DEF TakeChunk
  <2>4. \A u \in Task : /\ worker'[u].obj = worker[u].obj
                        /\ worker'[u].pc # "unlink"
                        /\ Live(u)' <=> Live(u)
                        /\ worker'[u].stop <=> worker[u].stop
                        /\ worker'[u].cancelled <=> worker[u].cancelled
    BY <2>1, <2>2, <2>3 DEF Live, TypeInv, TypeOK
  <2> QED BY <2>3, <2>4, <1>t, QuietStepKeepsService
<1>13. ASSUME NEW t \in Task, NEW i \in Chunks, FetchOk(t, i) PROVE ServiceInv'
  <2>1. /\ UNCHANGED <<registered, state, pauser>>
        /\ \A u \in Task : /\ worker'[u].obj = worker[u].obj
                           /\ worker'[u].pc # "unlink"
                           /\ Live(u)' <=> Live(u)
                           /\ worker'[u].stop <=> worker[u].stop
                           /\ worker'[u].cancelled <=> worker[u].cancelled
    BY <1>13, <1>u DEF FetchOk, Resumed, Live, TypeInv, TypeOK
  <2> QED BY <2>1, <1>t, QuietStepKeepsService
<1>14. ASSUME NEW t \in Task, NEW i \in Chunks, ChunkError(t, i) PROVE ServiceInv'
  <2>1. Live(t) /\ loop \in {Idle, t} /\ worker[t].obj \in Obj
    BY <1>14 DEF ChunkError, Resumed, Live, TypeInv, References
  <2>2. /\ state'[worker[t].obj].status = "error"
        /\ \A q \in Obj : q # worker[t].obj => state'[q].status = state[q].status
    BY <1>14, <1>s, <2>1 DEF ChunkError, FailedStatus
  <2> QED BY <1>14, <2>1, <2>2, EndKeepsService DEF ChunkError
<1>15. ASSUME NEW t \in Task, NEW i \in Chunks, MarkChunk(t, i) PROVE ServiceInv'
  <2>1. \A u \in Task : u # t => worker[u].pc # "unlink"
    BY <1>15 DEF MarkChunk, ServiceInv, UnlinksCompleted
  <2>2. /\ UNCHANGED <<registered, pauser>>
        /\ \A q \in Obj : state'[q].status = state[q].status
    BY <1>15 DEF MarkChunk, Marked, TypeInv, TypeOK, Record
  <2>3. \A u \in Task : /\ worker'[u].obj = worker[u].obj
                        /\ worker'[u].pc # "unlink"
                        /\ Live(u)' <=> Live(u)
                        /\ worker'[u].stop <=> worker[u].stop
                        /\ worker'[u].cancelled <=> worker[u].cancelled
    BY <1>15, <2>1 DEF MarkChunk, Live, TypeInv, TypeOK
  <2> QED BY <2>2, <2>3, <1>t, QuietStepKeepsService
<1>16. ASSUME NEW t \in Task, BeginMerge(t) PROVE ServiceInv'
  <2>1. \A u \in Task : u # t => worker[u].pc # "unlink"
    BY <1>16 DEF BeginMerge, ServiceInv, UnlinksCompleted
  <2>2. UNCHANGED <<registered, state, pauser>>
    BY <1>16 DEF BeginMerge
  <2>3. \A u \in Task : /\ worker'[u].obj = worker[u].obj
                        /\ worker'[u].pc # "unlink"
                        /\ Live(u)' <=> Live(u)
                        /\ worker'[u].stop <=> worker[u].stop
                        /\ worker'[u].cancelled <=> worker[u].cancelled
    BY <1>16, <2>1 DEF BeginMerge, Live, TypeInv, TypeOK
  <2> QED BY <2>2, <2>3, <1>t, QuietStepKeepsService
<1>17. ASSUME NEW t \in Task, MergeLoad(t) PROVE ServiceInv'
  <2>1. worker[t].pc = "merge" /\ loop \in {Idle, t}
    BY <1>17 DEF MergeLoad, Loading, Resumed
  <2>2. \A u \in Task : u # t => worker[u].pc # "unlink"
    BY <2>1 DEF ServiceInv, UnlinksCompleted
  <2>3. UNCHANGED <<registered, state, pauser>>
    BY <1>17 DEF MergeLoad
  <2>4. \A u \in Task : /\ worker'[u].obj = worker[u].obj
                        /\ worker'[u].pc # "unlink"
                        /\ Live(u)' <=> Live(u)
                        /\ worker'[u].stop <=> worker[u].stop
                        /\ worker'[u].cancelled <=> worker[u].cancelled
    BY <1>17, <2>1, <2>2 DEF MergeLoad, Live, TypeInv, TypeOK
  <2> QED BY <2>3, <2>4, <1>t, QuietStepKeepsService
<1>18. ASSUME NEW t \in Task, MergeError(t) PROVE ServiceInv'
  <2>1. Live(t) /\ loop \in {Idle, t} /\ worker[t].obj \in Obj
    BY <1>18 DEF MergeError, Loading, Resumed, Live, TypeInv, References
  <2>2. /\ state'[worker[t].obj].status = "error"
        /\ \A q \in Obj : q # worker[t].obj => state'[q].status = state[q].status
    BY <1>18, <1>s, <2>1 DEF MergeError
  <2> QED BY <1>18, <2>1, <2>2, EndKeepsService DEF MergeError
<1>19. ASSUME NEW t \in Task, MergeDone(t) PROVE ServiceInv'
  <2>1. /\ worker[t].pc = "merge" /\ worker[t].obj \in Obj /\ loop = Idle
        /\ UNCHANGED <<registered, pauser>> /\ loop' = t
    BY <1>19 DEF MergeDone, Resumed, Keep, Live, TypeInv, References
  <2>2. /\ state'[worker[t].obj].status = "completed"
        /\ \A q \in Obj : q # worker[t].obj => state'[q].status = state[q].status
    BY <1>19, <1>s, <2>1 DEF MergeDone
  <2>3. /\ worker'[t].pc = "unlink"
        /\ \A u \in Task : /\ u # t => worker'[u] = worker[u]
                           /\ worker'[u].obj = worker[u].obj
                           /\ Live(u)' <=> Live(u)
                           /\ worker'[u].stop <=> worker[u].stop
                           /\ worker'[u].cancelled <=> worker[u].cancelled
    BY <1>19, <2>1 DEF MergeDone, Live, TypeInv, TypeOK
  <2>4. DownloadingIsServed'
    BY <2>1, <2>2, <2>3 DEF ServiceInv, DownloadingIsServed, TypeInv, TypeOK
  <2>5. UnlinksCompleted'
    BY <1>u, <2>1, <2>2, <2>3 DEF UnlinksCompleted
  <2>6. StopIsAwaited' /\ AwaitsItsObject'
    BY <2>1, <2>3 DEF ServiceInv, StopIsAwaited, AwaitsItsObject, TypeInv, References
  <2> QED BY <2>4, <2>5, <2>6 DEF ServiceInv
<1>20. ASSUME NEW t \in Task, DeleteResume(t) PROVE ServiceInv'
  <2>1. Live(t) /\ loop = t /\ state[worker[t].obj].status = "completed"
    BY <1>20 DEF DeleteResume, Live, ServiceInv, UnlinksCompleted
  <2> QED BY <1>20, <2>1, EndKeepsService DEF DeleteResume
<1>21. ASSUME NEW t \in Task, Cancelled(t) PROVE ServiceInv'
  <2>1. /\ Live(t) /\ loop \in {Idle, t} /\ worker[t].obj \in Obj /\ worker[t].cancelled
        /\ worker' = Finished(t) /\ UNCHANGED <<registered, pauser>>
    BY <1>21 DEF Cancelled, TypeInv, References
  <2>2. CASE worker[t].pc = "ready"
    <3>1. \E p \in Pauser : pauser[p].pc # "idle" /\ pauser[p].obj = worker[t].obj
      BY <2>1 DEF ServiceInv, StopIsAwaited
    <3> QED BY <1>21, <2>1, <2>2, <3>1, EndKeepsService DEF Cancelled
  <2>3. CASE worker[t].pc # "ready"
    <3>1. /\ state'[worker[t].obj].status = "paused"
          /\ \A q \in Obj : q # worker[t].obj => state'[q].status = state[q].status
      BY <1>21, <1>s, <2>1, <2>3 DEF Cancelled
    <3> QED BY <2>1, <3>1, EndKeepsService
  <2> QED BY <2>2, <2>3
<1>22. ASSUME NEW i \in Chunks, Evict(i) PROVE ServiceInv'
  BY <1>22, <1>t, QuietStepKeepsService DEF Evict, memory, Live
<1>23. ASSUME NEW i \in Chunks, RouteStores(i) PROVE ServiceInv'
  BY <1>23, <1>t, QuietStepKeepsService DEF RouteStores, memory, Live
<1>24. ASSUME NEW o \in Obj, CrashAndRecover(o) PROVE ServiceInv'
  <2>1. /\ \A t \in Task : worker'[t].pc = "none"
        /\ \A p \in Pauser : pauser'[p].pc = "idle"
    BY <1>24 DEF CrashAndRecover, NewWorker, IdlePauser
  <2>2. registered' = NoObj \/ state'[registered'].status = "paused"
    BY <1>24 DEF CrashAndRecover, Recovered, TypeInv, TypeOK, Record
  <2> QED
    BY <2>1, <2>2 DEF ServiceInv, DownloadingIsServed, UnlinksCompleted,
                      StopIsAwaited, AwaitsItsObject, Live
<1>25. CASE UNCHANGED vars
  BY <1>25 DEF vars, ServiceInv, DownloadingIsServed, UnlinksCompleted,
               StopIsAwaited, AwaitsItsObject, Live
<1> QED
  BY <1>1, <1>2, <1>3, <1>4, <1>5, <1>6, <1>7, <1>8, <1>9, <1>10, <1>11, <1>12,
     <1>13, <1>14, <1>15, <1>16, <1>17, <1>18, <1>19, <1>20, <1>21, <1>22,
     <1>23, <1>24, <1>25
  DEF Next, Request, PauserStep, WorkerStep, PeerStep, Surroundings

(* A download registered as downloading is never abandoned: a worker of its *)
(* own runs, or a pause request that stopped one is about to mark it.       *)
THEOREM Served == Spec => []DownloadingIsServed
<1>1. Init => TypeInv /\ ServiceInv
  BY InitTypeInv, InitServiceInv
<1>2. (TypeInv /\ ServiceInv) /\ [Next]_vars => (TypeInv /\ ServiceInv)'
  BY NextTypeInv, NextServiceInv
<1>3. ServiceInv => DownloadingIsServed
  BY DEF ServiceInv
<1> QED BY <1>1, <1>2, <1>3, PTL DEF Spec

-----------------------------------------------------------------------------
(* Where nobody pauses: one worker at a time *)

(* Whoever stops a worker waits for it: with no pause request nobody does.  *)
LEMMA NobodyStops ==
    ASSUME ServiceInv, Pauser = {}, NEW t \in Task, Live(t)
    PROVE  ~worker[t].stop /\ ~worker[t].cancelled
  BY DEF ServiceInv, StopIsAwaited

(* A request that finds the registered download not active, or none, finds  *)
(* no worker running.                                                       *)
LEMMA InactiveMeansNobody ==
    ASSUME TypeInv, ServiceInv, OnlyWorker, loop = Idle,
           registered # NoObj => state[registered].status # "downloading"
    PROVE  \A t \in Task : ~Live(t)
<1> SUFFICES ASSUME NEW t \in Task, Live(t) PROVE FALSE
  OBVIOUS
<1>1. t = current /\ current # NoTask /\ worker[t].obj = registered /\ registered # NoObj
  BY DEF OnlyWorker, TypeInv, References
<1>2. worker[t].pc = "unlink"
  BY <1>1 DEF OnlyWorker
<1> QED BY <1>2 DEF ServiceInv, UnlinksCompleted

LEMMA NotActiveMeansNobody ==
    ASSUME TypeInv, ServiceInv, OnlyWorker, loop = Idle,
           Existing # NoRecord => ~Active(Existing)
    PROVE  \A t \in Task : ~Live(t)
<1>1. registered # NoObj => state[registered].status # "downloading"
  BY DEF Existing, Active, TypeInv, TypeOK
<1> QED BY <1>1, InactiveMeansNobody

(* The worker that runs works on the registered download.                   *)
LEMMA WorkerIsRegistered ==
    ASSUME TypeInv, OnlyWorker, NEW t \in Task, Live(t)
    PROVE  /\ t = current /\ registered \in Obj /\ worker[t].obj = registered
           /\ \A u \in Task : Live(u) => u = t
  BY DEF OnlyWorker, TypeInv, TypeOK, References

(* Workers go on or end, under the same registered task.                    *)
LEMMA GoingOnKeepsOnly ==
    ASSUME OnlyWorker, current' = current,
           \A t \in Task : Live(t)' =>
             /\ Live(t) /\ worker'[t].obj = worker[t].obj
             /\ worker'[t].pc # "unlink" =>
                  /\ worker[t].pc # "unlink"
                  /\ state'[worker[t].obj].status = state[worker[t].obj].status
    PROVE  OnlyWorker'
  BY DEF OnlyWorker

LEMMA LaunchKeepsOnly ==
    ASSUME TypeInv, NEW o \in Obj, NEW t \in Task, Launch(o, t),
           \A u \in Task : ~Live(u), state'[o].status = "downloading"
    PROVE  OnlyWorker'
<1>1. /\ worker'[t].obj = o /\ current' = t
      /\ \A u \in Task : u # t => worker'[u] = worker[u]
  BY DEF Launch, NewWorker, TypeInv, TypeOK
<1> QED BY <1>1 DEF OnlyWorker, Live

(* The worker that runs ends: nobody is left.                               *)
LEMMA EndKeepsOnly ==
    ASSUME TypeInv, OnlyWorker, NEW t \in Task, Live(t), worker' = Finished(t)
    PROVE  OnlyWorker' /\ \A u \in Task : ~Live(u)'
<1>1. worker'[t] = NewWorker(worker[t].obj, "done")
  BY FinishedType DEF TypeInv
<1>2. \A u \in Task : u # t => worker'[u] = worker[u]
  BY FinishedType DEF TypeInv
<1>3. \A u \in Task : u # t => ~Live(u)
  BY WorkerIsRegistered
<1>4. \A u \in Task : ~Live(u)'
  BY <1>1, <1>2, <1>3 DEF Live, NewWorker
<1> QED BY <1>4 DEF OnlyWorker

LEMMA NextOnlyWorker ==
    ASSUME Pauser = {}, TypeInv, ServiceInv, OnlyWorker, [Next]_vars
    PROVE  OnlyWorker'
<1>1. CASE FetchManifest
  BY <1>1, GoingOnKeepsOnly DEF FetchManifest, memory, Live
<1>2. ASSUME NEW o \in Obj, NEW t \in Task, StartAgain(o, t) PROVE OnlyWorker'
  <2>1. \A u \in Task : ~Live(u)
    BY <1>2, NotActiveMeansNobody DEF StartAgain
  <2>2. Existing \in Record
    BY <1>2 DEF StartAgain, Existing, TypeInv, TypeOK
  <2>3. state'[o].status = "downloading"
    BY <1>2, <2>2 DEF StartAgain, Record, TypeInv, TypeOK
  <2> QED BY <1>2, <2>1, <2>3, LaunchKeepsOnly DEF StartAgain
<1>3. ASSUME NEW o \in Obj, NEW t \in Task, StartFresh(o, t) PROVE OnlyWorker'
  <2>1. \A u \in Task : ~Live(u)
    BY <1>3, NotActiveMeansNobody DEF StartFresh
  <2>2. state'[o].status = "downloading"
    BY <1>3 DEF StartFresh, Fresh, TypeInv, TypeOK
  <2> QED BY <1>3, <2>1, <2>2, LaunchKeepsOnly DEF StartFresh
<1>4. ASSUME NEW o \in Obj, NEW t \in Task, Resume(o, t) PROVE OnlyWorker'
  <2>1. \A u \in Task : ~Live(u)
    BY <1>4, NotActiveMeansNobody DEF Resume
  <2>2. Existing \in Record
    BY <1>4 DEF Resume, Existing, TypeInv, TypeOK
  <2>3. state'[o].status = "downloading"
    BY <1>4, <2>2 DEF Resume, Record, TypeInv, TypeOK
  <2> QED BY <1>4, <2>1, <2>3, LaunchKeepsOnly DEF Resume
<1>5. CASE PauseAtOnce
  <2>1. \A t \in Task : ~Live(t)
    BY <1>5 DEF PauseAtOnce, OnlyWorker, NullAssumption
  <2> QED BY <1>5, <2>1 DEF PauseAtOnce, OnlyWorker, Live
<1>6. CASE ClearCompleted
  <2>1. \A t \in Task : ~Live(t)
    BY <1>6, InactiveMeansNobody DEF ClearCompleted, Clearable
  <2> QED BY <1>6, <2>1 DEF ClearCompleted, OnlyWorker, Live
<1>7. ASSUME NEW t \in Task, Begin(t) PROVE OnlyWorker'
  BY <1>7, GoingOnKeepsOnly DEF Begin, Live, TypeInv, TypeOK
<1>8. ASSUME NEW t \in Task, StopAtChunk(t) PROVE OnlyWorker'
  <2>1. Live(t) /\ worker' = Finished(t)
    BY <1>8 DEF StopAtChunk, Live
  <2> QED BY <2>1, EndKeepsOnly
<1>9. ASSUME NEW t \in Task, NEW i \in Chunks, TakeChunk(t, i) PROVE OnlyWorker'
  <2>1. PICK pc \in {"got", "fetch"} : worker' = [worker EXCEPT ![t].pc = pc]
    BY <1>9 DEF TakeChunk
  <2> QED BY <1>9, <2>1, GoingOnKeepsOnly DEF TakeChunk, Live, TypeInv, TypeOK
<1>10. ASSUME NEW t \in Task, NEW i \in Chunks, FetchOk(t, i) PROVE OnlyWorker'
  BY <1>10, GoingOnKeepsOnly DEF FetchOk, Live, TypeInv, TypeOK
<1>11. ASSUME NEW t \in Task, NEW i \in Chunks, ChunkError(t, i) PROVE OnlyWorker'
  <2>1. Live(t) /\ worker' = Finished(t)
    BY <1>11 DEF ChunkError, Live
  <2> QED BY <2>1, EndKeepsOnly
<1>12. ASSUME NEW t \in Task, NEW i \in Chunks, MarkChunk(t, i) PROVE OnlyWorker'
  <2>1. \A q \in Obj : state'[q].status = state[q].status
    BY <1>12 DEF MarkChunk, Marked, TypeInv, TypeOK, Record
  <2>2. /\ \A u \in Task : /\ worker'[u].obj = worker[u].obj
                           /\ Live(u)' <=> Live(u)
                           /\ worker'[u].pc # "unlink" => worker[u].pc # "unlink"
        /\ current' = current
    BY <1>12 DEF MarkChunk, Live, TypeInv, TypeOK
  <2>3. \A u \in Task : Live(u) => worker[u].obj \in Obj
    BY DEF TypeInv, References
  <2>4. \A u \in Task : Live(u)' =>
          /\ Live(u) /\ worker'[u].obj = worker[u].obj
          /\ worker'[u].pc # "unlink" =>
               /\ worker[u].pc # "unlink"
               /\ state'[worker[u].obj].status = state[worker[u].obj].status
    BY <2>1, <2>2, <2>3
  <2> QED BY <2>2, <2>4, GoingOnKeepsOnly
<1>13. ASSUME NEW t \in Task, BeginMerge(t) PROVE OnlyWorker'
  BY <1>13, GoingOnKeepsOnly DEF BeginMerge, Live, TypeInv, TypeOK
<1>14. ASSUME NEW t \in Task, MergeLoad(t) PROVE OnlyWorker'
  BY <1>14, GoingOnKeepsOnly DEF MergeLoad, Loading, Live, TypeInv, TypeOK
<1>15. ASSUME NEW t \in Task, MergeError(t) PROVE OnlyWorker'
  <2>1. Live(t) /\ worker' = Finished(t)
    BY <1>15 DEF MergeError, Loading, Live
  <2> QED BY <2>1, EndKeepsOnly
<1>16. ASSUME NEW t \in Task, MergeDone(t) PROVE OnlyWorker'
  <2>1. Live(t) /\ worker'[t].pc = "unlink" /\ current' = current
        /\ \A u \in Task : /\ worker'[u].obj = worker[u].obj
                           /\ Live(u)' <=> Live(u)
    BY <1>16 DEF MergeDone, Live, TypeInv, TypeOK
  <2>2. \A u \in Task : Live(u) => u = t
    BY <2>1, WorkerIsRegistered
  <2> QED BY <2>1, <2>2, GoingOnKeepsOnly
<1>17. ASSUME NEW t \in Task, DeleteResume(t) PROVE OnlyWorker'
  <2>1. Live(t) /\ worker' = Finished(t)
    BY <1>17 DEF DeleteResume, Live
  <2> QED BY <2>1, EndKeepsOnly
<1>18. ASSUME NEW t \in Task, Cancelled(t) PROVE OnlyWorker'
  BY <1>18, NobodyStops DEF Cancelled
<1>19. ASSUME NEW i \in Chunks, Evict(i) \/ RouteStores(i) PROVE OnlyWorker'
  BY <1>19, GoingOnKeepsOnly DEF Evict, RouteStores, memory, Live
<1>20. ASSUME NEW o \in Obj, CrashAndRecover(o) PROVE OnlyWorker'
  BY <1>20 DEF CrashAndRecover, OnlyWorker, Live, NewWorker
<1>21. CASE UNCHANGED vars
  BY <1>21, GoingOnKeepsOnly DEF vars, Live
<1> QED
  BY <1>1, <1>2, <1>3, <1>4, <1>5, <1>6, <1>7, <1>8, <1>9, <1>10, <1>11, <1>12,
     <1>13, <1>14, <1>15, <1>16, <1>17, <1>18, <1>19, <1>20, <1>21
  DEF Next, Request, WorkerStep, PeerStep, Surroundings

LEMMA OnlyWorkerAlways ==
    ASSUME Pauser = {}
    PROVE  Spec => [](TypeInv /\ ServiceInv /\ OnlyWorker)
<1>1. Init => TypeInv /\ ServiceInv /\ OnlyWorker
  BY InitTypeInv, InitServiceInv DEF Init, OnlyWorker, Live, NewWorker
<1>2. (TypeInv /\ ServiceInv /\ OnlyWorker) /\ [Next]_vars
        => (TypeInv /\ ServiceInv /\ OnlyWorker)'
  BY NextTypeInv, NextServiceInv, NextOnlyWorker
<1> QED BY <1>1, <1>2, PTL DEF Spec

(* Where no pause request is suspended, a live worker is the registered     *)
(* task, whatever starts, resumes, clears, failures and restarts there are: *)
(* one worker at a time writes the record and the temporary file.           *)
THEOREM Managed ==
    ASSUME Pauser = {}
    PROVE  Spec => []WorkersAreManaged
<1>1. OnlyWorker => WorkersAreManaged
  BY DEF OnlyWorker, WorkersAreManaged
<1> QED BY <1>1, OnlyWorkerAlways, PTL

-----------------------------------------------------------------------------
(* Where moreover every save succeeds: what the record on disk lacks *)

LEMMA ChunkSets ==
    ASSUME NEW S \in SUBSET Chunks
    PROVE  IsFiniteSet(S) /\ Cardinality(S) \in Nat
<1>1. IsFiniteSet(Chunks)
  BY FS_Interval DEF Chunks
<1> QED BY <1>1, FS_Subset, FS_CardinalityType

(* Chunks, completion, record and workers as they were.                     *)
LEMMA QuietKeepsSave ==
    ASSUME TypeInv, SaveInv, registered' = registered, resume' = resume,
           \A o \in Obj : /\ state'[o].missing = state[o].missing
                          /\ state'[o].completed = state[o].completed,
           \A t \in Task : /\ Live(t)' <=> Live(t)
                           /\ worker'[t].obj = worker[t].obj
                           /\ worker'[t].since = worker[t].since
    PROVE  SaveInv'
<1>1. registered # NoObj => registered \in Obj
  BY DEF TypeInv, TypeOK
<1>2. \A t \in Task : Live(t) => worker[t].obj \in Obj
  BY DEF TypeInv, References
<1>3. RecordFollows'
  BY <1>1 DEF SaveInv, RecordFollows
<1>4. LagCounted'
  BY <1>2 DEF SaveInv, LagCounted
<1> QED BY <1>3, <1>4 DEF SaveInv

(* Nobody runs, and the record says what the registered download does.      *)
LEMMA StoppedSaves ==
    ASSUME \A t \in Task : ~Live(t)',
           registered' # NoObj =>
             /\ resume' # NoRecord =>
                  resume'.completed = state'[registered'].completed
             /\ state'[registered'].missing # {} => resume' # NoRecord
    PROVE  SaveInv'
  BY DEF SaveInv, RecordFollows, LagCounted

(* What runs works on the registered download, whose record is as complete. *)
LEMMA CaughtUpSaves ==
    ASSUME TypeInv', registered' # NoObj,
           \A t \in Task : Live(t)' => worker'[t].obj = registered',
           resume' # NoRecord =>
             resume'.completed = state'[registered'].completed,
           state'[registered'].missing # {} => resume' # NoRecord
    PROVE  SaveInv'
<1>1. RecordFollows'
  BY DEF RecordFollows
<1>2. LagCounted'
  <2> SUFFICES ASSUME NEW t \in Task, Live(t)', state'[worker'[t].obj].missing # {}
               PROVE  Cardinality(state'[worker'[t].obj].completed \ resume'.completed)
                        <= worker'[t].since
    BY DEF LagCounted
  <2>1. state'[worker'[t].obj].completed \ resume'.completed = {}
    OBVIOUS
  <2>2. worker'[t].since \in 0 .. FlushInterval - 1
    BY DEF TypeInv, TypeOK, Worker
  <2>3. Cardinality(state'[worker'[t].obj].completed \ resume'.completed) = 0
    BY <2>1, FS_EmptySet, Zenon
  <2> QED BY <2>2, <2>3
<1> QED BY <1>1, <1>2 DEF SaveInv

(* A request finds nobody running: the record it finds, if any, is as       *)
(* complete as the download it is about.                                    *)
LEMMA ExistingIsSaved ==
    ASSUME SaveInv, \A t \in Task : ~Live(t), Existing # NoRecord
    PROVE  /\ resume # NoRecord => resume.completed = Existing.completed
           /\ Existing.missing # {} => resume # NoRecord
  BY DEF SaveInv, RecordFollows, Existing

LEMMA NextSaveInv ==
    ASSUME Pauser = {}, ~FaultyDisk,
           TypeInv, ProgressInv, ServiceInv, OnlyWorker, SaveInv, [Next]_vars
    PROVE  SaveInv'
<1>t. TypeInv' /\ OnlyWorker'
  BY NextTypeInv, NextOnlyWorker
<1>l. ASSUME NEW o \in Obj, NEW t \in Task, Launch(o, t), \A u \in Task : ~Live(u)
      PROVE  /\ registered' = o /\ registered' # NoObj
             /\ \A u \in Task : Live(u)' => worker'[u].obj = registered'
  BY <1>l DEF Launch, NewWorker, Live, TypeInv, TypeOK
<1>s. ASSUME NEW o \in Obj, NEW s \in Status, state' = SetStatus(o, s)
      PROVE  /\ \A q \in Obj : /\ state'[q].missing = state[q].missing
                               /\ state'[q].completed = state[q].completed
             /\ [state[o] EXCEPT !.status = s].completed = state[o].completed
             /\ [state[o] EXCEPT !.status = s] # NoRecord
  <2>1. [state[o] EXCEPT !.status = s] \in Record
    BY RecordStatus DEF TypeInv, TypeOK
  <2> QED BY <1>s, <2>1, SetStatusFields
<1>1. CASE FetchManifest
  BY <1>1, QuietKeepsSave DEF FetchManifest, memory, Live
<1>2. ASSUME NEW o \in Obj, NEW t \in Task, StartAgain(o, t) PROVE SaveInv'
  <2> DEFINE rec == [Existing EXCEPT !.status = "downloading"]
  <2>1. \A u \in Task : ~Live(u)
    BY <1>2, NotActiveMeansNobody DEF StartAgain
  <2>2. Existing \in Record
    BY <1>2 DEF StartAgain, Existing, TypeInv, TypeOK
  <2>3. rec \in Record /\ rec.completed = Existing.completed
    BY <2>2 DEF Record, Status
  <2>4. resume' = rec /\ state'[o] = rec
    BY <1>2 DEF StartAgain, Save, TypeInv, TypeOK
  <2>5. /\ registered' = o /\ registered' # NoObj
        /\ \A u \in Task : Live(u)' => worker'[u].obj = registered'
    BY <1>2, <1>l, <2>1 DEF StartAgain
  <2> HIDE DEF rec
  <2> QED BY <1>t, <2>3, <2>4, <2>5, CaughtUpSaves
<1>3. ASSUME NEW o \in Obj, NEW t \in Task, StartFresh(o, t) PROVE SaveInv'
  <2>1. \A u \in Task : ~Live(u)
    BY <1>3, NotActiveMeansNobody DEF StartFresh
  <2>2. resume' = Fresh /\ state'[o] = Fresh
    BY <1>3 DEF StartFresh, Save, TypeInv, TypeOK
  <2>3. Fresh \in Record
    BY DEF Fresh, Record, Status
  <2>4. /\ registered' = o /\ registered' # NoObj
        /\ \A u \in Task : Live(u)' => worker'[u].obj = registered'
    BY <1>3, <1>l, <2>1 DEF StartFresh
  <2> QED BY <1>t, <2>2, <2>3, <2>4, CaughtUpSaves
<1>4. ASSUME NEW o \in Obj, NEW t \in Task, Resume(o, t) PROVE SaveInv'
  <2> DEFINE rec == [Existing EXCEPT !.status = "downloading"]
  <2>1. \A u \in Task : ~Live(u)
    BY <1>4, NotActiveMeansNobody DEF Resume
  <2>2. Existing \in Record
    BY <1>4 DEF Resume, Existing, TypeInv, TypeOK
  <2>3. rec.completed = Existing.completed /\ rec.missing = Existing.missing
    BY <2>2 DEF Record
  <2>4. resume' = resume /\ state'[o] = rec
    BY <1>4 DEF Resume, TypeInv, TypeOK
  <2>5. /\ registered' = o /\ registered' # NoObj
        /\ \A u \in Task : Live(u)' => worker'[u].obj = registered'
    BY <1>4, <1>l, <2>1 DEF Resume
  <2>6. /\ resume # NoRecord => resume.completed = Existing.completed
        /\ Existing.missing # {} => resume # NoRecord
    BY <1>4, <2>1, ExistingIsSaved DEF Resume
  <2> HIDE DEF rec
  <2> QED BY <1>t, <2>3, <2>4, <2>5, <2>6, CaughtUpSaves
<1>5. CASE PauseAtOnce
  <2>1. \A t \in Task : ~Live(t)
    BY <1>5 DEF PauseAtOnce, OnlyWorker
  <2>2. registered \in Obj
    BY <1>5 DEF PauseAtOnce, PauseApplies, TypeInv, TypeOK
  <2>3. /\ resume' = [state[registered] EXCEPT !.status = "paused"]
        /\ UNCHANGED <<registered, worker>>
        /\ state' = SetStatus(registered, "paused")
    BY <1>5 DEF PauseAtOnce, Save
  <2>4. /\ resume'.completed = state'[registered].completed
        /\ resume' # NoRecord
    BY <1>s, <2>2, <2>3 DEF Status
  <2> QED BY <2>1, <2>3, <2>4, StoppedSaves DEF Live
<1>6. CASE ClearCompleted
  <2>1. \A t \in Task : ~Live(t)
    BY <1>6, InactiveMeansNobody DEF ClearCompleted, Clearable
  <2> QED BY <1>6, <2>1, StoppedSaves DEF ClearCompleted, Live
<1>7. ASSUME NEW t \in Task, Begin(t) PROVE SaveInv'
  BY <1>7, QuietKeepsSave DEF Begin, Live, TypeInv, TypeOK, disk
<1>8. ASSUME NEW t \in Task, StopAtChunk(t) PROVE SaveInv'
  <2>1. Live(t) /\ worker[t].stop
    BY <1>8 DEF StopAtChunk, Live
  <2> QED BY <2>1, NobodyStops
<1>9. ASSUME NEW t \in Task, NEW i \in Chunks, TakeChunk(t, i) PROVE SaveInv'
  <2>1. PICK pc \in {"got", "fetch"} : worker' = [worker EXCEPT ![t].pc = pc]
    BY <1>9 DEF TakeChunk
  <2> QED BY <1>9, <2>1, QuietKeepsSave DEF TakeChunk, Live, TypeInv, TypeOK, disk
<1>10. ASSUME NEW t \in Task, NEW i \in Chunks, FetchOk(t, i) PROVE SaveInv'
  BY <1>10, QuietKeepsSave DEF FetchOk, Live, TypeInv, TypeOK
<1>11. ASSUME NEW t \in Task, NEW i \in Chunks, ChunkError(t, i) PROVE SaveInv'
  <2>1. Live(t) /\ worker' = Finished(t)
    BY <1>11 DEF ChunkError, Live
  <2>2. registered \in Obj /\ worker[t].obj = registered
    BY <2>1, WorkerIsRegistered
  <2>3. \A u \in Task : ~Live(u)'
    BY <2>1, EndKeepsOnly
  <2>4. /\ resume' = state[registered] /\ registered' = registered
        /\ state' = SetStatus(registered, "error")
    BY <1>11, <2>2 DEF ChunkError, Save, FailedStatus
  <2>5. resume' # NoRecord /\ resume'.completed = state'[registered].completed
    BY <1>s, <2>2, <2>4 DEF TypeInv, TypeOK, Status
  <2> QED BY <2>3, <2>4, <2>5, StoppedSaves
<1>12. ASSUME NEW t \in Task, NEW i \in Chunks, MarkChunk(t, i) PROVE SaveInv'
  <2> DEFINE rec == Marked(state[registered], i)
  <2>1. Live(t) /\ Live(t)'
    BY <1>12 DEF MarkChunk, Live, TypeInv, TypeOK
  <2>2. /\ registered \in Obj /\ worker[t].obj = registered
        /\ \A u \in Task : Live(u) => u = t
    BY <2>1, WorkerIsRegistered
  <2>3. /\ state'[registered] = rec /\ registered' = registered
        /\ worker'[t].since = NextSince(t)
        /\ \A u \in Task : /\ Live(u)' <=> Live(u)
                           /\ worker'[u].obj = worker[u].obj
    BY <1>12, <2>1, <2>2 DEF MarkChunk, Live, TypeInv, TypeOK
  <2>4. /\ rec \in Record
        /\ rec.completed = state[registered].completed \cup {i}
        /\ rec.missing = state[registered].missing \ {i}
    <3>1. state[registered] \in Record
      BY <2>2 DEF TypeInv, TypeOK
    <3> QED BY <3>1 DEF Marked, Record
  <2>5. CASE Flushes(t)
    <3>1. resume' = rec
      BY <1>12, <2>2, <2>5 DEF MarkChunk, Save
    <3> HIDE DEF rec
    <3> QED BY <1>t, <2>2, <2>3, <2>4, <3>1, CaughtUpSaves
  <2>6. CASE ~Flushes(t)
    <3>1. resume' = resume /\ NextSince(t) = worker[t].since + 1
      BY <1>12, <2>6 DEF MarkChunk, NextSince
    <3>2. RecordFollows'
      <4>1. /\ resume # NoRecord =>
                 resume.completed \subseteq state[registered].completed
            /\ state[registered].missing # {} => resume # NoRecord
        BY <2>2 DEF SaveInv, RecordFollows
      <4> HIDE DEF rec
      <4> QED BY <2>1, <2>3, <2>4, <3>1, <4>1 DEF RecordFollows
    <3>3. ASSUME rec.missing # {}
          PROVE  Cardinality(rec.completed \ resume.completed) <= worker[t].since + 1
      <4> DEFINE lag == state[registered].completed \ resume.completed
      <4>1. Cardinality(lag) <= worker[t].since
        BY <2>1, <2>2, <2>4, <3>3 DEF SaveInv, LagCounted
      <4>2. lag \in SUBSET Chunks
        BY <2>2 DEF TypeInv, TypeOK, Record
      <4>3. worker[t].since \in Nat
        BY DEF TypeInv, TypeOK, Worker
      <4>4. Cardinality(lag) \in Nat /\ IsFiniteSet(lag)
        BY <4>2, ChunkSets
      <4>5. rec.completed \ resume.completed \in {lag, lag \cup {i}}
        BY <2>4
      <4>6. Cardinality(lag \cup {i}) = IF i \in lag THEN Cardinality(lag)
                                        ELSE Cardinality(lag) + 1
        <5> HIDE DEF lag
        <5> QED BY <4>4, FS_AddElement, Zenon
      <4>7. Cardinality(lag \cup {i}) <= worker[t].since + 1
        <5> HIDE DEF lag
        <5> QED BY <4>1, <4>3, <4>4, <4>6
      <4>8. Cardinality(lag) <= worker[t].since + 1
        <5> HIDE DEF lag
        <5> QED BY <4>1, <4>3, <4>4
      <4> HIDE DEF lag, rec
      <4> QED BY <4>5, <4>7, <4>8, Zenon
    <3>4. LagCounted'
      <4> HIDE DEF rec
      <4> QED BY <2>2, <2>3, <3>1, <3>3 DEF LagCounted
    <3> QED BY <3>2, <3>4 DEF SaveInv
  <2> QED BY <2>5, <2>6
<1>13. ASSUME NEW t \in Task, BeginMerge(t) PROVE SaveInv'
  <2>1. Live(t)
    BY <1>13 DEF BeginMerge, Live
  <2>2. registered \in Obj /\ worker[t].obj = registered /\ state[registered] \in Record
    BY <2>1, WorkerIsRegistered DEF TypeInv, TypeOK
  <2>3. resume' = state[registered] /\ UNCHANGED <<registered, state>>
    BY <1>13, <2>2 DEF BeginMerge, Save
  <2>4. \A u \in Task : Live(u)' => worker'[u].obj = registered
    BY <1>13, <2>1, <2>2, WorkerIsRegistered DEF BeginMerge, Live, TypeInv, TypeOK
  <2> QED BY <1>t, <2>2, <2>3, <2>4, CaughtUpSaves
<1>14. ASSUME NEW t \in Task, MergeLoad(t) PROVE SaveInv'
  BY <1>14, QuietKeepsSave DEF MergeLoad, Loading, Live, TypeInv, TypeOK, disk
<1>15. ASSUME NEW t \in Task, MergeError(t) PROVE SaveInv'
  <2>1. Live(t) /\ worker' = Finished(t)
    BY <1>15 DEF MergeError, Loading, Live
  <2>2. registered \in Obj /\ worker[t].obj = registered
    BY <2>1, WorkerIsRegistered
  <2>3. \A u \in Task : ~Live(u)'
    BY <2>1, EndKeepsOnly
  <2>4. /\ resume' = [state[registered] EXCEPT !.status = "error"]
        /\ registered' = registered /\ state' = SetStatus(registered, "error")
    BY <1>15, <2>2 DEF MergeError, Save
  <2>5. resume' # NoRecord /\ resume'.completed = state'[registered].completed
    BY <1>s, <2>2, <2>4 DEF Status
  <2> QED BY <2>3, <2>4, <2>5, StoppedSaves
<1>16. ASSUME NEW t \in Task, MergeDone(t) PROVE SaveInv'
  <2>1. Live(t)
    BY <1>16 DEF MergeDone, Live
  <2>2. registered \in Obj /\ worker[t].obj = registered
    BY <2>1, WorkerIsRegistered
  <2>3. /\ resume' = [state[registered] EXCEPT !.status = "completed"]
        /\ registered' = registered /\ state' = SetStatus(registered, "completed")
    BY <1>16, <2>2 DEF MergeDone, Save
  <2>4. resume' # NoRecord /\ resume'.completed = state'[registered].completed
    BY <1>s, <2>2, <2>3 DEF Status
  <2>5. \A u \in Task : Live(u)' => worker'[u].obj = registered
    BY <1>16, <2>1, <2>2, WorkerIsRegistered DEF MergeDone, Live, TypeInv, TypeOK
  <2> QED BY <1>t, <2>2, <2>3, <2>4, <2>5, CaughtUpSaves
<1>17. ASSUME NEW t \in Task, DeleteResume(t) PROVE SaveInv'
  <2>1. Live(t) /\ worker' = Finished(t)
    BY <1>17 DEF DeleteResume, Live
  <2>2. worker[t].obj = registered /\ state[registered].missing = {}
    BY <1>17, <2>1, WorkerIsRegistered DEF DeleteResume, ProgressInv, WalksTheMissing
  <2>3. \A u \in Task : ~Live(u)'
    BY <2>1, EndKeepsOnly
  <2> QED BY <1>17, <2>2, <2>3, StoppedSaves DEF DeleteResume
<1>18. ASSUME NEW t \in Task, Cancelled(t) PROVE SaveInv'
  BY <1>18, NobodyStops DEF Cancelled
<1>19. ASSUME NEW i \in Chunks, Evict(i) \/ RouteStores(i) PROVE SaveInv'
  BY <1>19, QuietKeepsSave DEF Evict, RouteStores, memory, Live
<1>20. ASSUME NEW o \in Obj, CrashAndRecover(o) PROVE SaveInv'
  <2>1. \A t \in Task : ~Live(t)'
    BY <1>20 DEF CrashAndRecover, Live, NewWorker
  <2>2. ASSUME registered' # NoObj
        PROVE  resume' # NoRecord /\ resume'.completed = state'[registered'].completed
    BY <1>20, <2>2 DEF CrashAndRecover, Recovered, TypeInv, TypeOK, Record
  <2> QED BY <2>1, <2>2, StoppedSaves
<1>21. CASE UNCHANGED vars
  BY <1>21, QuietKeepsSave DEF vars, Live
<1> QED
  BY <1>1, <1>2, <1>3, <1>4, <1>5, <1>6, <1>7, <1>8, <1>9, <1>10, <1>11, <1>12,
     <1>13, <1>14, <1>15, <1>16, <1>17, <1>18, <1>19, <1>20, <1>21
  DEF Next, Request, WorkerStep, PeerStep, Surroundings

UndisturbedInv == TypeInv /\ ProgressInv /\ ServiceInv /\ OnlyWorker /\ SaveInv

LEMMA UndisturbedAlways ==
    ASSUME Pauser = {}, ~FaultyDisk
    PROVE  Spec => []UndisturbedInv
<1>1. Init => SaveInv
  BY DEF Init, SaveInv, RecordFollows, LagCounted, Live, NewWorker
<1>2. SaveInv /\ TypeInv /\ ProgressInv /\ ServiceInv /\ OnlyWorker /\ [Next]_vars
        => SaveInv'
  BY NextSaveInv
<1> QED
  BY <1>1, <1>2, ProgressAlways, OnlyWorkerAlways, PTL DEF Spec, UndisturbedInv

(* Where nobody pauses and saves succeed, a crash loses fewer than          *)
(* FlushInterval fetched chunks, for every size of file and interval.       *)
THEOREM Flushed ==
    ASSUME Pauser = {}, ~FaultyDisk
    PROVE  Spec => []FlushBound
<1>1. UndisturbedInv => FlushBound
  <2> SUFFICES ASSUME UndisturbedInv, NEW t \in Task, Live(t),
                      state[worker[t].obj].missing # {}
               PROVE  /\ resume # NoRecord
                      /\ Cardinality(state[worker[t].obj].completed \ resume.completed)
                           < FlushInterval
    BY DEF FlushBound
  <2>1. worker[t].obj = registered /\ registered \in Obj
    BY WorkerIsRegistered DEF UndisturbedInv
  <2>2. resume # NoRecord
    BY <2>1 DEF UndisturbedInv, SaveInv, RecordFollows
  <2>3. Cardinality(state[worker[t].obj].completed \ resume.completed) <= worker[t].since
    BY DEF UndisturbedInv, SaveInv, LagCounted
  <2>4. worker[t].since \in 0 .. FlushInterval - 1
    BY DEF UndisturbedInv, TypeInv, TypeOK, Worker
  <2>5. Cardinality(state[worker[t].obj].completed \ resume.completed) \in Nat
    BY <2>1, ChunkSets DEF UndisturbedInv, TypeInv, TypeOK, Record
  <2> QED BY <2>2, <2>3, <2>4, <2>5
<1> QED BY <1>1, UndisturbedAlways, PTL

(* A step keeps the record, or saves one that has at least the chunks of    *)
(* the registered download.                                                 *)
LEMMA StepAdvances ==
    ASSUME Pauser = {}, ~FaultyDisk, UndisturbedInv, Next,
           resume # NoRecord, resume' # NoRecord, resume.missing # {}
    PROVE  resume.completed \subseteq resume'.completed
<1> USE DEF UndisturbedInv
<1>r. registered # NoObj => /\ registered \in Obj /\ state[registered] \in Record
                            /\ resume.completed \subseteq state[registered].completed
  BY DEF TypeInv, TypeOK, SaveInv, RecordFollows
<1>w. ASSUME NEW t \in Task, Live(t), NEW s,
             \/ resume' = resume
             \/ resume' = state[worker[t].obj]
             \/ resume' = [state[worker[t].obj] EXCEPT !.status = s]
      PROVE  resume.completed \subseteq resume'.completed
  <2>1. registered # NoObj /\ worker[t].obj = registered
    BY <1>w, WorkerIsRegistered
  <2> QED BY <1>r, <1>w, <2>1 DEF Record
<1>1. CASE resume' = resume
  BY <1>1
<1>2. ASSUME NEW o \in Obj, NEW t \in Task, StartAgain(o, t)
      PROVE  resume.completed \subseteq resume'.completed
  <2>1. Existing \in Record /\ resume.completed \subseteq Existing.completed
    BY <1>r, <1>2 DEF StartAgain, Existing, TypeInv, TypeOK
  <2>2. resume' = [Existing EXCEPT !.status = "downloading"]
    BY <1>2 DEF StartAgain, Save
  <2> QED BY <2>1, <2>2 DEF Record
<1>3. ASSUME NEW o \in Obj, NEW t \in Task, StartFresh(o, t) PROVE FALSE
  <2>1. Existing # NoRecord
    BY <1>r DEF Existing
  <2>2. \A u \in Task : ~Live(u)
    BY <1>3, NotActiveMeansNobody DEF StartFresh
  <2>3. Existing.missing = {} /\ resume.completed = Existing.completed
    BY <1>3, <2>1, <2>2, ExistingIsSaved DEF StartFresh
  <2>4. Splits(Existing) /\ Splits(resume)
    BY <1>r DEF Existing, ProgressInv, ChunksPartitioned
  <2> QED BY <2>3, <2>4 DEF Splits
<1>4. CASE PauseAtOnce
  <2>1. registered # NoObj /\ resume' = [state[registered] EXCEPT !.status = "paused"]
    BY <1>4 DEF PauseAtOnce, PauseApplies, Save
  <2> QED BY <1>r, <2>1 DEF Record
<1>5. ASSUME NEW t \in Task, NEW i \in Chunks, ChunkError(t, i)
      PROVE  resume.completed \subseteq resume'.completed
  BY <1>5, <1>w DEF ChunkError, Save, Live
<1>6. ASSUME NEW t \in Task, NEW i \in Chunks, MarkChunk(t, i)
      PROVE  resume.completed \subseteq resume'.completed
  <2>1. Live(t)
    BY <1>6 DEF MarkChunk, Live
  <2>2. registered # NoObj /\ worker[t].obj = registered
    BY <2>1, WorkerIsRegistered
  <2>3. resume' = resume \/ resume' = Marked(state[registered], i)
    BY <1>6, <2>2 DEF MarkChunk, Save
  <2>4. Marked(state[registered], i).completed = state[registered].completed \cup {i}
    BY <1>r, <2>2 DEF Marked, Record
  <2> QED BY <1>r, <2>2, <2>3, <2>4
<1>7. ASSUME NEW t \in Task, BeginMerge(t) \/ MergeError(t) \/ MergeDone(t)
      PROVE  resume.completed \subseteq resume'.completed
  BY <1>7, <1>w DEF BeginMerge, MergeError, MergeDone, Loading, Save, Live
<1>8. ASSUME NEW t \in Task, DeleteResume(t) PROVE FALSE
  BY <1>8 DEF DeleteResume
<1>9. ASSUME NEW t \in Task, Cancelled(t) PROVE FALSE
  BY <1>9, NobodyStops DEF Cancelled
<1>10. CASE Request
  <2>1. FetchManifest \/ ClearCompleted \/ (\E o \in Obj, t \in Task : Resume(o, t))
          => resume' = resume
    BY DEF FetchManifest, ClearCompleted, Resume, disk
  <2> QED BY <1>1, <1>2, <1>3, <1>4, <1>10, <2>1 DEF Request
<1>11. ASSUME NEW t \in Task, WorkerStep(t) \/ PeerStep(t)
       PROVE  resume.completed \subseteq resume'.completed
  <2>1. Begin(t) \/ StopAtChunk(t) \/ MergeLoad(t)
          \/ (\E i \in Chunks : TakeChunk(t, i) \/ FetchOk(t, i))
          => resume' = resume
    BY DEF Begin, StopAtChunk, MergeLoad, TakeChunk, FetchOk, disk
  <2> QED
    BY <1>1, <1>5, <1>6, <1>7, <1>8, <1>9, <1>11, <2>1 DEF WorkerStep, PeerStep
<1>12. CASE Surroundings
  <2>1. resume' = resume
    BY <1>12 DEF Surroundings, Evict, RouteStores, CrashAndRecover
  <2> QED BY <1>1, <2>1
<1> QED BY <1>10, <1>11, <1>12 DEF Next

(* Where nobody pauses and saves succeed, no start, failure or restart      *)
(* replaces the record of an unfinished download by one that completed less. *)
THEOREM Advances ==
    ASSUME Pauser = {}, ~FaultyDisk
    PROVE  Spec => RecordAdvances
<1>1. UndisturbedInv /\ [Next]_vars =>
        [resume # NoRecord /\ resume' # NoRecord /\ resume.missing # {} =>
           resume.completed \subseteq resume'.completed]_vars
  BY StepAdvances
<1> QED BY <1>1, UndisturbedAlways, PTL DEF Spec, RecordAdvances

=============================================================================
