------------------------- MODULE FileSharing_proofs -------------------------
(***************************************************************************)
(* Theorems about FileSharing, for every set of nodes and requests and any *)
(* number of chunks: types, and that no chunk of a file that is shown is   *)
(* lost unless the write of an upload was cut short.                       *)
(***************************************************************************)
EXTENDS FileSharing, TLAPS

-----------------------------------------------------------------------------
(* Types *)

LEMMA NewType ==
    ASSUME NEW n \in Node, NEW kind \in {"upload"} \cup Fetch, NEW pc \in Busy \cup Ended
    PROVE  New(n, kind, pc) \in Request
BY SizeAssumption DEF New, Request, Content

LEMMA EndType ==
    ASSUME TypeOK, NEW r \in Req, NEW how \in Ended
    PROVE  End(r, how) \in [Req -> Request]
<1>1. req[r] \in Request
  BY DEF TypeOK
<1>2. At(r) \in Node /\ req[r].kind \in {"upload"} \cup Fetch
  BY <1>1 DEF Request, At
<1>3. New(At(r), req[r].kind, how) \in Request
  BY <1>2, NewType
<1>4. QED
  BY <1>3 DEF TypeOK, End

LEMMA SaveType ==
    ASSUME TypeOK, NEW n \in Node, NEW i \in Chunks, NEW content, SaveChunk(n, i, content)
    PROVE  /\ store' \in [Node -> SUBSET Chunks] /\ torn' \in [Node -> SUBSET Chunks]
           /\ \A k \in Node : torn'[k] \subseteq store'[k]
BY DEF TypeOK, SaveChunk

LEMMA SaveFailsType ==
    ASSUME TypeOK, NEW n \in Node, NEW i \in Chunks, SaveFails(n, i)
    PROVE  /\ store' \in [Node -> SUBSET Chunks] /\ torn' \in [Node -> SUBSET Chunks]
           /\ \A k \in Node : torn'[k] \subseteq store'[k]
<1>1. CASE SaveChunk(n, i, "torn")
  BY <1>1, SaveType
<1>2. CASE UNCHANGED <<store, torn>>
  BY <1>2 DEF TypeOK
<1>3. QED
  BY <1>1, <1>2 DEF SaveFails

LEMMA EvictType ==
    ASSUME TypeOK, NEW n \in Node, NEW i,
           store' = [store EXCEPT ![n] = @ \ {i}], torn' = [torn EXCEPT ![n] = @ \ {i}]
    PROVE  /\ store' \in [Node -> SUBSET Chunks] /\ torn' \in [Node -> SUBSET Chunks]
           /\ \A k \in Node : torn'[k] \subseteq store'[k]
BY DEF TypeOK

LEMMA TakeType ==
    ASSUME TypeOK, NEW r \in Req, NEW content \in Content, req[r].next < NumChunks
    PROVE  Take(r, content) \in [Req -> Request]
<1>1. End(r, "failed") \in [Req -> Request]
  BY EndType DEF Ended
<1>2. req[r].next + 1 \in 0 .. NumChunks
  BY SizeAssumption DEF TypeOK, Request
<1>3. [req EXCEPT ![r].pc = "load", ![r].next = @ + 1, ![r].left = {},
                  ![r].answer = "none", ![r].whole = @ /\ content = "whole"] \in [Req -> Request]
  <2> DEFINE w == req[r].whole /\ content = "whole"
             t == [req[r] EXCEPT !.pc = "load", !.next = @ + 1, !.left = {},
                                 !.answer = "none", !.whole = w]
  <2>1. w \in BOOLEAN
    OBVIOUS
  <2> HIDE DEF w
  <2>2. t \in Request
    BY <1>2, <2>1 DEF TypeOK, Request, Busy, Content
  <2>3. [req EXCEPT ![r] = t] \in [Req -> Request]
    BY <2>2 DEF TypeOK
  <2>4. [req EXCEPT ![r].pc = "load", ![r].next = @ + 1, ![r].left = {},
                    ![r].answer = "none", ![r].whole = w] = [req EXCEPT ![r] = t]
    BY DEF TypeOK, Request
  <2>5. QED
    BY <2>3, <2>4 DEF w
<1>4. QED
  BY <1>1, <1>3 DEF Take

LEMMA NextInside ==
    ASSUME TypeOK, NEW r \in Req
    PROVE  /\ At(r) \in Node /\ req[r].next \in 0 .. NumChunks
           /\ req[r].next \in Chunks <=> req[r].next < NumChunks
           /\ \A p \in Node : Held(p, req[r].next) \in Content
BY SizeAssumption DEF TypeOK, Request, At, Chunks, Held, Content

(* The fields of an updated request.                                        *)
LEMMA EndInside ==
    ASSUME TypeOK, NEW r \in Req, NEW how \in Ended, req' = End(r, how)
    PROVE  \A s \in Req : Inside(s) => Inside(s)'
BY DEF TypeOK, Inside, End, New, Ended

LEMMA TakeInside ==
    ASSUME TypeOK, NEW r \in Req, NEW content, req' = Take(r, content)
    PROVE  \A s \in Req : Inside(s) => Inside(s)'
<1>1. CASE req' = End(r, "failed")
  BY <1>1, EndInside DEF Ended
<1>2. CASE req' # End(r, "failed")
  <2>1. /\ req'[r].pc = "load" /\ req'[r].answer = "none"
        /\ \A s \in Req \ {r} : req'[s] = req[s]
    BY <1>2 DEF TypeOK, Request, Take
  <2>2. QED
    BY <2>1 DEF Inside
<1>3. QED
  BY <1>1, <1>2

LEMMA BeginType ==
    ASSUME TypeInv, NEW r \in Req, NEW n \in Node, NEW kind \in {"upload"} \cup Fetch,
           NEW pc \in {"save", "find"}, Begin(r, n, kind, pc)
    PROVE  TypeInv'
<1>1. New(n, kind, pc) \in Request
  BY NewType DEF Busy
<1>2. TypeOK'
  BY <1>1 DEF TypeInv, TypeOK, Begin
<1>3. \A s \in Req : Inside(s)'
  BY DEF TypeInv, TypeOK, Inside, Begin, New
<1>4. QED
  BY <1>2, <1>3 DEF TypeInv

LEMMA ReplicateOnType ==
    ASSUME TypeInv, NEW r \in Req, req[r].pc \in {"resave", "send"}, req' = ReplicateOn(r)
    PROVE  req' \in [Req -> Request] /\ \A s \in Req : Inside(s)'
<1>1. CASE req[r].next + 1 = NumChunks
  BY <1>1, EndType, EndInside DEF TypeInv, ReplicateOn, Ended
<1>2. CASE req[r].next + 1 # NumChunks
  <2> DEFINE t == [req[r] EXCEPT !.pc = "resave", !.next = @ + 1]
  <2>1. req' = [req EXCEPT ![r].pc = "resave", ![r].next = @ + 1]
    BY <1>2 DEF ReplicateOn
  <2>2. /\ req[r] \in Request /\ req[r].next < NumChunks /\ req[r].next \in 0 .. NumChunks
        /\ req[r].answer = "none"
    BY DEF TypeInv, TypeOK, Request, Inside
  <2>3. req[r].next + 1 < NumChunks /\ req[r].next + 1 \in 0 .. NumChunks
    BY <1>2, <2>2, SizeAssumption
  <2>4. t \in Request /\ t.next < NumChunks /\ t.answer = "none"
    BY <2>2, <2>3 DEF Request, Busy
  <2>5. req' = [req EXCEPT ![r] = t]
    BY <2>1 DEF TypeInv, TypeOK, Request
  <2> HIDE DEF t
  <2>6. req' \in [Req -> Request]
    BY <2>4, <2>5 DEF TypeInv, TypeOK
  <2>7. \A s \in Req : Inside(s)'
    BY <2>4, <2>5 DEF TypeInv, TypeOK, Inside
  <2>8. QED
    BY <2>6, <2>7
<1>3. QED
  BY <1>1, <1>2

LEMMA SendsReturnType ==
    ASSUME TypeInv, NEW r \in Req, SendsReturn(r)
    PROVE  TypeInv'
<1>1. req' \in [Req -> Request] /\ \A s \in Req : Inside(s)'
  BY ReplicateOnType DEF SendsReturn
<1>2. QED
  BY <1>1 DEF TypeInv, TypeOK, SendsReturn

LEMMA StepType ==
    ASSUME TypeInv, NEW r \in Req, Step(r)
    PROVE  TypeInv'
<1>0. /\ TypeOK /\ \A s \in Req : Inside(s)
      /\ At(r) \in Node /\ req[r].next \in 0 .. NumChunks
      /\ req[r].next \in Chunks <=> req[r].next < NumChunks
      /\ \A p \in Node : Held(p, req[r].next) \in Content
  BY NextInside DEF TypeInv
<1> USE <1>0
<1>1. CASE SaveUploaded(r)
  <2>1. req' \in [Req -> Request]
    BY <1>1, SizeAssumption DEF TypeOK, Request, SaveUploaded
  <2>2. \A s \in Req : Inside(s)'
    BY <1>1 DEF TypeOK, Request, Inside, SaveUploaded
  <2>3. SaveChunk(At(r), req[r].next, "whole") /\ req[r].next \in Chunks /\ UNCHANGED manifest
    BY <1>1 DEF SaveUploaded
  <2>4. QED
    BY <2>1, <2>2, <2>3, SaveType DEF TypeInv, TypeOK
<1>2. CASE SaveManifest(r)
  <2>1. CASE req' = End(r, "served")
    <3>1. req' \in [Req -> Request] /\ \A s \in Req : Inside(s)'
      BY <2>1, EndType, EndInside DEF Ended
    <3>2. QED
      BY <1>2, <3>1 DEF TypeInv, TypeOK, SaveManifest
  <2>2. CASE req' = [req EXCEPT ![r].pc = "resave", ![r].next = 0]
    <3>1. req' \in [Req -> Request]
      <4>1. [req[r] EXCEPT !.pc = "resave", !.next = 0] \in Request
        <5>1. req[r] \in Request /\ 0 \in 0 .. NumChunks /\ "resave" \in Busy \cup Ended
          BY SizeAssumption DEF TypeOK, Busy
        <5>2. QED
          BY <5>1 DEF Request
      <4>2. req' = [req EXCEPT ![r] = [req[r] EXCEPT !.pc = "resave", !.next = 0]]
        BY <2>2 DEF TypeOK, Request
      <4>3. QED
        BY <4>1, <4>2 DEF TypeOK
    <3>2. \A s \in Req : Inside(s)'
      BY <1>2, <2>2, SizeAssumption DEF TypeOK, Request, Inside, SaveManifest
    <3>3. QED
      BY <1>2, <3>1, <3>2 DEF TypeInv, TypeOK, SaveManifest
  <2>3. QED
    BY <1>2, <2>1, <2>2 DEF SaveManifest
<1>3. CASE Resave(r)
  <2>1. SaveChunk(At(r), req[r].next, "whole") /\ req[r].next \in Chunks /\ UNCHANGED manifest
    BY <1>3 DEF Resave, Inside
  <2>2. req' \in [Req -> Request] /\ \A s \in Req : Inside(s)'
    <3>1. CASE req' = ReplicateOn(r)
      BY <1>3, <3>1, ReplicateOnType DEF Resave
    <3>2. CASE req' = [req EXCEPT ![r].pc = "send"]
      <4>1. req[r] \in Request /\ "send" \in Busy \cup Ended
        BY DEF TypeOK, Busy
      <4>2. [req[r] EXCEPT !.pc = "send"] \in Request
        BY <4>1 DEF Request
      <4>3. req' \in [Req -> Request]
        BY <3>2, <4>2 DEF TypeOK
      <4>4. \A s \in Req : Inside(s)'
        BY <1>3, <3>2, <4>1 DEF TypeOK, Request, Inside, Resave
      <4>5. QED
        BY <4>3, <4>4
    <3>3. QED
      BY <1>3, <3>1, <3>2 DEF Resave
  <2>3. QED
    BY <2>1, <2>2, SaveType DEF TypeInv, TypeOK
<1>4. CASE FindHere(r)
  BY <1>4 DEF TypeInv, TypeOK, Request, Busy, Inside, FindHere
<1>5. CASE NotFound(r)
  <2>1. req' \in [Req -> Request] /\ \A s \in Req : Inside(s)'
    BY <1>5, EndType, EndInside DEF Ended, NotFound
  <2>2. QED
    BY <1>5, <2>1 DEF TypeInv, TypeOK, NotFound
<1>6. CASE LoadHere(r)
  <2>1. req[r].next < NumChunks
    BY <1>6 DEF TypeOK, LoadHere
  <2>2. req' \in [Req -> Request] /\ \A s \in Req : Inside(s)'
    BY <1>6, <2>1, TakeType, TakeInside DEF LoadHere
  <2>3. QED
    BY <1>6, <2>2 DEF TypeInv, TypeOK, LoadHere
<1>7. CASE CacheChunk(r)
  <2>1. req[r].next < NumChunks /\ req[r].answer \in Content
    BY <1>7 DEF TypeOK, Request, Inside, CacheChunk
  <2>2. req' \in [Req -> Request] /\ \A s \in Req : Inside(s)'
    BY <1>7, <2>1, TakeType, TakeInside DEF CacheChunk
  <2>3. SaveChunk(At(r), req[r].next, req[r].answer) /\ UNCHANGED manifest
    BY <1>7 DEF CacheChunk
  <2>4. QED
    BY <2>1, <2>2, <2>3, SaveType DEF TypeInv, TypeOK
<1>8. CASE Finish(r)
  <2>1. PICK how \in Ended : req' = End(r, how)
    BY <1>8 DEF Finish, Ended
  <2>2. req' \in [Req -> Request] /\ \A s \in Req : Inside(s)'
    BY <2>1, EndType, EndInside
  <2>3. QED
    BY <1>8, <2>2 DEF TypeInv, TypeOK, Finish
<1>9. CASE EvictedUnderRead(r)
  <2>1. req' \in [Req -> Request] /\ \A s \in Req : Inside(s)'
    BY <1>9, EndType, EndInside DEF Ended, EvictedUnderRead
  <2>2. QED
    BY <1>9, <2>1, EvictType DEF TypeInv, TypeOK, EvictedUnderRead
<1>10. CASE ListForManifest(r)
  <2>1. req[r] \in Request /\ "query" \in Busy
    BY DEF TypeOK, Busy
  <2>2. [req[r] EXCEPT !.pc = "query", !.left = Node \ {At(r)}] \in Request
    BY <2>1 DEF Request
  <2>3. req' = [req EXCEPT ![r] = [req[r] EXCEPT !.pc = "query", !.left = Node \ {At(r)}]]
    BY <1>10 DEF ListForManifest
  <2>4. req' \in [Req -> Request]
    BY <2>2, <2>3 DEF TypeOK
  <2>5. \A s \in Req : Inside(s)'
    BY <1>10, <2>1, <2>3 DEF TypeInv, TypeOK, Request, Inside, ListForManifest
  <2>6. QED
    BY <1>10, <2>4, <2>5 DEF TypeInv, TypeOK, ListForManifest
<1>11. CASE ListForChunk(r)
  <2>1. req[r] \in Request /\ "ask" \in Busy
    BY DEF TypeOK, Busy
  <2>2. [req[r] EXCEPT !.pc = "ask", !.left = Node \ {At(r)}] \in Request
    BY <2>1 DEF Request
  <2>3. req' = [req EXCEPT ![r] = [req[r] EXCEPT !.pc = "ask", !.left = Node \ {At(r)}]]
    BY <1>11 DEF ListForChunk
  <2>4. req' \in [Req -> Request]
    BY <2>2, <2>3 DEF TypeOK
  <2>5. \A s \in Req : Inside(s)'
    BY <1>11, <2>1, <2>3 DEF TypeInv, TypeOK, Request, Inside, ListForChunk
  <2>6. QED
    BY <1>11, <2>4, <2>5 DEF TypeInv, TypeOK, ListForChunk
<1>12. ASSUME NEW p \in Node, FetchManifest(r, p) PROVE TypeInv'
  BY <1>12 DEF TypeInv, TypeOK, Request, Busy, Inside, FetchManifest
<1>13. ASSUME NEW p \in Node, Skip(r, p) PROVE TypeInv'
  BY <1>13 DEF TypeInv, TypeOK, Request, Inside, Asks, Skip
<1>14. ASSUME NEW p \in Node, GetChunk(r, p) PROVE TypeInv'
  <2>1. /\ req[r] \in Request /\ req[r].pc = "ask" /\ req[r].left \ {p} \subseteq Node
        /\ Held(p, req[r].next) \in Content
    BY <1>14 DEF TypeOK, Request, GetChunk
  <2>2. req' = [req EXCEPT ![r] = [req[r] EXCEPT !.answer = Held(p, req[r].next),
                                                 !.left = @ \ {p}]]
    BY <1>14 DEF TypeOK, Request, GetChunk
  <2>3. [req[r] EXCEPT !.answer = Held(p, req[r].next), !.left = @ \ {p}] \in Request
    BY <2>1 DEF Request
  <2>4. req' \in [Req -> Request]
    BY <2>2, <2>3 DEF TypeOK
  <2>5. \A s \in Req : Inside(s)'
    BY <2>1, <2>2 DEF TypeOK, Request, Inside
  <2>6. QED
    BY <1>14, <2>4, <2>5 DEF TypeInv, TypeOK, GetChunk
<1>15. CASE UploadFails(r)
  <2>1. req' \in [Req -> Request] /\ \A s \in Req : Inside(s)'
    BY <1>15, EndType, EndInside DEF Ended, UploadFails
  <2>2. SaveFails(At(r), req[r].next) /\ req[r].next \in Chunks /\ UNCHANGED manifest
    BY <1>15 DEF UploadFails
  <2>3. QED
    BY <2>1, <2>2, SaveFailsType DEF TypeInv, TypeOK
<1>16. CASE CacheFails(r)
  <2>1. SaveFails(At(r), req[r].next) /\ req[r].next \in Chunks /\ UNCHANGED manifest
    BY <1>16 DEF CacheFails, Inside
  <2>2. req' \in [Req -> Request] /\ \A s \in Req : Inside(s)'
    BY <1>16 DEF TypeOK, Request, Inside, CacheFails
  <2>3. QED
    BY <2>1, <2>2, SaveFailsType DEF TypeInv, TypeOK
<1>17. QED
  BY <1>1, <1>2, <1>3, <1>4, <1>5, <1>6, <1>7, <1>8, <1>9, <1>10, <1>11, <1>12, <1>13,
     <1>14, <1>15, <1>16 DEF Step

LEMMA InitType == Init => TypeInv
<1> SUFFICES ASSUME Init PROVE TypeInv
  OBVIOUS
<1>1. PICK n \in Node : req = [r \in Req |-> New(n, "upload", "failed")]
  BY DEF Init
<1>2. New(n, "upload", "failed") \in Request
  BY NewType DEF Ended
<1>3. TypeOK
  BY <1>1, <1>2 DEF Init, TypeOK
<1>4. \A r \in Req : Inside(r)
  BY <1>1 DEF Inside, New
<1>5. QED
  BY <1>3, <1>4 DEF TypeInv

LEMMA CrashType ==
    ASSUME TypeInv, NEW n \in Node, Crash(n)
    PROVE  TypeInv'
<1>1. ASSUME NEW r \in Req PROVE req'[r] \in Request /\ Inside(r)'
  <2>1. CASE At(r) = n /\ ~Done(r)
    <3>1. req'[r] = New(n, req[r].kind, "lost")
      BY <2>1 DEF Crash
    <3>2. req[r].kind \in {"upload"} \cup Fetch
      BY DEF TypeInv, TypeOK, Request
    <3>3. req'[r] \in Request
      BY <3>1, <3>2, NewType DEF Ended
    <3>4. Inside(r)'
      BY <3>1 DEF Inside, New
    <3>5. QED
      BY <3>3, <3>4
  <2>2. CASE ~(At(r) = n /\ ~Done(r))
    BY <2>2 DEF TypeInv, TypeOK, Inside, Crash
  <2>3. QED
    BY <2>1, <2>2
<1>2. req' \in [Req -> Request]
  BY <1>1 DEF Crash
<1>3. CASE UNCHANGED <<store, torn>>
  BY <1>1, <1>2, <1>3 DEF TypeInv, TypeOK, Crash
<1>4. ASSUME NEW i \in Writing(n), SaveChunk(n, i, "torn") PROVE TypeInv'
  BY <1>1, <1>2, <1>4, SaveType DEF TypeInv, TypeOK, Crash, Writing
<1>5. QED
  BY <1>3, <1>4 DEF Crash

LEMMA NextType == TypeInv /\ [Next]_vars => TypeInv'
<1> SUFFICES ASSUME TypeInv, [Next]_vars PROVE TypeInv'
  OBVIOUS
<1>1. ASSUME NEW r \in Req, Step(r) \/ SendsReturn(r) PROVE TypeInv'
  BY <1>1, StepType, SendsReturnType
<1>2. ASSUME NEW r \in Req, NEW n \in Node, StartUpload(r, n) PROVE TypeInv'
  BY <1>2, BeginType DEF StartUpload
<1>3. ASSUME NEW r \in Req, NEW n \in Node, NEW kind \in Fetch, StartFetch(r, n, kind)
      PROVE  TypeInv'
  BY <1>3, BeginType DEF StartFetch
<1>4. ASSUME NEW n \in Node, NEW i \in Chunks, Evict(n, i) PROVE TypeInv'
  <2>1. \A r \in Req : Inside(r)'
    BY <1>4 DEF TypeInv, Inside, Evict
  <2>2. QED
    BY <1>4, <2>1, EvictType DEF TypeInv, TypeOK, Evict
<1>5. ASSUME NEW n \in Node, Crash(n) PROVE TypeInv'
  BY <1>5, CrashType
<1>6. CASE UNCHANGED vars
  BY <1>6 DEF TypeInv, TypeOK, Inside, vars
<1>7. QED
  BY <1>1, <1>2, <1>3, <1>4, <1>5, <1>6 DEF Next

(* The stores, the manifests and the requests keep their types, and no loop *)
(* of the routes leaves the file.                                           *)
THEOREM TypeCorrect == Spec => []TypeOK
<1>1. TypeInv => TypeOK
  BY DEF TypeInv
<1>2. QED
  BY <1>1, InitType, NextType, PTL DEF Spec

-----------------------------------------------------------------------------
(* No chunk is lost *)

NoFullUploader == Uploader \cap Full = {}

Others(r) == \A s \in Req \ {r} : req'[s] = req[s]

(* What a step of request r may do to the files and to itself.              *)
FilesKept ==
    /\ \A n \in Node \ Full : store[n] \subseteq store'[n]
    /\ \A n \in Node \ MayTear :
          torn'[n] # {} => torn[n] # {} \/ (manifest # {} /\ ~Keeper(n))

AskedRight(r) ==
    /\ manifest = {} => manifest' = {} /\ req'[r].pc \notin {"load", "ask"}
    /\ \A u \in Uploader : Keeper(u) /\ req'[r].node = u => req'[r].pc # "ask"

LEMMA RequestStep ==
    ASSUME TypeInv, TypeInv', KeeperInv, NoFullUploader, NEW r \in Req, Others(r),
           FilesKept, AskedRight(r), UploadStored(r)', manifest \subseteq manifest'
    PROVE  KeeperInv'
<1>1. ASSUME NEW s \in Req PROVE UploadStored(s)'
  <2>1. CASE s = r
    BY <2>1
  <2>2. CASE s # r
    BY <2>2, NodeAssumption
       DEF KeeperInv, UploadStored, Others, FilesKept, NoFullUploader, At
  <2>3. QED
    BY <2>1, <2>2
<1>2. CASE manifest = {}
  <2>1. manifest' = {} /\ NothingTravels
    BY <1>2 DEF AskedRight, KeeperInv
  <2>2. NothingTravels'
    BY <1>2, <2>1 DEF NothingTravels, AskedRight, Others, FilesKept
  <2>3. QED
    BY <1>1, <2>1, <2>2 DEF KeeperInv
<1>3. CASE manifest # {}
  <2>1. PICK u \in Uploader : Keeper(u)
    BY <1>3 DEF KeeperInv
  <2>2. store'[u] = Chunks
    BY <2>1, NodeAssumption DEF Keeper, FilesKept, NoFullUploader, TypeInv, TypeOK
  <2>3. torn'[u] # {} => u \in MayTear
    BY <2>1, NodeAssumption DEF Keeper, FilesKept
  <2>4. \A s \in Req : At(s)' = u => req'[s].pc # "ask"
    BY <2>1 DEF Keeper, AskedRight, Others, At
  <2>5. Keeper(u)'
    BY <2>2, <2>3, <2>4 DEF Keeper
  <2>6. manifest' # {}
    BY <1>3
  <2>7. QED
    BY <1>1, <2>5, <2>6 DEF KeeperInv
<1>4. QED
  BY <1>2, <1>3

(* A request that ends or goes on to load asks nobody.                      *)
LEMMA EndAsksNobody ==
    ASSUME TypeOK, NEW r \in Req, NEW how \in Ended, req' = End(r, how),
           manifest' = manifest
    PROVE  Others(r) /\ AskedRight(r) /\ UploadStored(r)'
BY DEF TypeOK, Others, AskedRight, UploadStored, End, New, Ended

LEMMA TakeAsksNobody ==
    ASSUME TypeOK, NEW r \in Req, NEW content, req' = Take(r, content),
           manifest # {}, manifest' = manifest
    PROVE  Others(r) /\ AskedRight(r) /\ UploadStored(r)'
<1>1. CASE req' = End(r, "failed")
  BY <1>1, EndAsksNobody DEF Ended
<1>2. CASE req' # End(r, "failed")
  <2>1. req'[r].pc = "load" /\ Others(r)
    BY <1>2 DEF TypeOK, Request, Take, Others
  <2>2. QED
    BY <2>1 DEF AskedRight, UploadStored
<1>3. QED
  BY <1>1, <1>2

LEMMA SaveKeeps ==
    ASSUME TypeOK, NEW n \in Node, NEW i \in Chunks, SaveChunk(n, i, "whole")
    PROVE  FilesKept /\ i \in store'[n]
BY DEF TypeOK, SaveChunk, FilesKept

LEMMA SaveFailsKeeps ==
    ASSUME TypeOK, NEW n \in Node, NEW i \in Chunks, SaveFails(n, i)
    PROVE  FilesKept
BY DEF TypeOK, SaveFails, SaveChunk, FilesKept, MayTear

LEMMA EvictKeeps ==
    ASSUME TypeOK, NEW n \in Full, NEW i,
           store' = [store EXCEPT ![n] = @ \ {i}], torn' = [torn EXCEPT ![n] = @ \ {i}]
    PROVE  FilesKept
BY NodeAssumption DEF TypeOK, FilesKept

(* The upload that shows the file first becomes its keeper.                 *)
LEMMA SaveManifestKeeps ==
    ASSUME TypeInv, TypeInv', KeeperInv, NoFullUploader, NEW r \in Req, SaveManifest(r)
    PROVE  KeeperInv'
<1>1. /\ Others(r) /\ req'[r].pc \in {"served", "resave"} /\ At(r)' = At(r)
      /\ UNCHANGED <<store, torn>> /\ manifest \subseteq manifest' /\ manifest' # {}
  BY DEF TypeInv, TypeOK, Request, SaveManifest, Others, End, New, At
<1>2. UploadStored(r)'
  BY <1>1 DEF UploadStored
<1>3. CASE manifest # {}
  <2>1. FilesKept /\ AskedRight(r)
    BY <1>1, <1>3 DEF FilesKept, AskedRight
  <2>2. QED
    BY <1>1, <1>2, <2>1, RequestStep
<1>4. CASE manifest = {}
  <2>1. At(r) \in Uploader /\ \A i \in Chunks : i \in store[At(r)]
    BY SizeAssumption DEF KeeperInv, UploadStored, SaveManifest, SavedAll, Chunks
  <2>2. NothingTravels
    BY <1>4 DEF KeeperInv
  <2>3. store'[At(r)] = Chunks
    BY <1>1, <2>1, NodeAssumption DEF TypeInv, TypeOK
  <2>4. \A s \in Req : req'[s].pc # "ask"
    BY <1>1, <2>2 DEF NothingTravels, Others
  <2>5. torn'[At(r)] # {} => At(r) \in MayTear
    BY <1>1, <2>1, <2>2, NodeAssumption DEF NothingTravels
  <2>6. Keeper(At(r))'
    BY <1>1, <2>1, <2>3, <2>4, <2>5 DEF Keeper
  <2>7. \A s \in Req : UploadStored(s)'
    BY <1>1, <1>2 DEF KeeperInv, UploadStored, Others, At
  <2>8. QED
    BY <1>1, <2>1, <2>6, <2>7 DEF KeeperInv
<1>5. QED
  BY <1>3, <1>4

LEMMA BeginKeeps ==
    ASSUME TypeInv, TypeInv', KeeperInv, NoFullUploader, NEW r \in Req, NEW n \in Node,
           NEW kind \in {"upload"} \cup Fetch, NEW pc \in {"save", "find"},
           Begin(r, n, kind, pc), pc = "save" => n \in Uploader
    PROVE  KeeperInv'
<1>1. req'[r] = New(n, kind, pc) /\ Others(r) /\ UNCHANGED <<manifest, store, torn>>
  BY DEF TypeInv, TypeOK, Begin, Others
<1>2. req'[r].pc = pc /\ req'[r].node = n /\ req'[r].next = 0
  BY <1>1 DEF New
<1>3. FilesKept
  BY <1>1 DEF FilesKept
<1>4. AskedRight(r)
  BY <1>1, <1>2 DEF AskedRight
<1>5. UploadStored(r)'
  BY <1>2, SizeAssumption DEF UploadStored, At, Chunks
<1>6. QED
  BY <1>1, <1>3, <1>4, <1>5, RequestStep

LEMMA ReplicateOnAsksNobody ==
    ASSUME TypeOK, NEW r \in Req, req' = ReplicateOn(r), manifest' = manifest
    PROVE  Others(r) /\ AskedRight(r) /\ UploadStored(r)'
<1>1. CASE req[r].next + 1 = NumChunks
  BY <1>1, EndAsksNobody DEF ReplicateOn, Ended
<1>2. CASE req[r].next + 1 # NumChunks
  <2>1. Others(r) /\ req'[r].pc = "resave"
    BY <1>2 DEF TypeOK, Request, ReplicateOn, Others
  <2>2. QED
    BY <2>1 DEF AskedRight, UploadStored
<1>3. QED
  BY <1>1, <1>2

LEMMA SendsReturnKeeps ==
    ASSUME TypeInv, TypeInv', KeeperInv, NoFullUploader, NEW r \in Req, SendsReturn(r)
    PROVE  KeeperInv'
<1>1. UNCHANGED <<manifest, store, torn>> /\ FilesKept
  BY DEF SendsReturn, FilesKept
<1>2. Others(r) /\ AskedRight(r) /\ UploadStored(r)'
  BY ReplicateOnAsksNobody DEF TypeInv, SendsReturn
<1>3. QED
  BY <1>1, <1>2, RequestStep

LEMMA StepKeeps ==
    ASSUME TypeInv, TypeInv', KeeperInv, NoFullUploader, NEW r \in Req, Step(r)
    PROVE  KeeperInv'
<1>0. /\ TypeOK /\ Inside(r) /\ UploadStored(r)
      /\ At(r) \in Node /\ req[r].next \in 0 .. NumChunks
      /\ req[r].next \in Chunks <=> req[r].next < NumChunks
      /\ req[r].pc \in {"load", "ask"} => manifest # {}
  BY NextInside DEF TypeInv, KeeperInv, NothingTravels
<1> USE <1>0
<1>1. CASE SaveUploaded(r)
  <2>1. SaveChunk(At(r), req[r].next, "whole") /\ req[r].next \in Chunks /\ UNCHANGED manifest
    BY <1>1 DEF SaveUploaded
  <2>2. FilesKept /\ req[r].next \in store'[At(r)]
    BY <2>1, SaveKeeps
  <2>3. /\ Others(r) /\ req'[r].pc = "save" /\ At(r)' = At(r)
        /\ req'[r].next = req[r].next + 1
    BY <1>1 DEF TypeOK, Request, SaveUploaded, Others, At
  <2>4. AskedRight(r)
    BY <2>1, <2>3 DEF AskedRight
  <2>5. ASSUME NEW i \in Chunks, i < req'[r].next PROVE i \in store'[At(r)]
    <3>1. i < req[r].next \/ i = req[r].next
      BY <2>3, <2>5 DEF Chunks
    <3>2. QED
      BY <1>1, <2>1, <2>2, <3>1 DEF UploadStored, SaveUploaded, SaveChunk, TypeOK
  <2>6. UploadStored(r)'
    BY <1>1, <2>3, <2>5 DEF UploadStored, SaveUploaded
  <2>7. QED
    BY <2>1, <2>2, <2>3, <2>4, <2>6, RequestStep
<1>2. CASE SaveManifest(r)
  BY <1>2, SaveManifestKeeps
<1>3. CASE Resave(r)
  <2>1. SaveChunk(At(r), req[r].next, "whole") /\ req[r].next \in Chunks /\ UNCHANGED manifest
    BY <1>3 DEF Resave, Inside
  <2>2. FilesKept
    BY <2>1, SaveKeeps
  <2>3. Others(r) /\ AskedRight(r) /\ UploadStored(r)'
    <3>1. CASE req' = ReplicateOn(r)
      BY <2>1, <3>1, ReplicateOnAsksNobody
    <3>2. CASE req' = [req EXCEPT ![r].pc = "send"]
      <4>1. Others(r) /\ req'[r].pc = "send"
        BY <3>2 DEF TypeOK, Request, Others
      <4>2. QED
        BY <2>1, <4>1 DEF AskedRight, UploadStored
    <3>3. QED
      BY <1>3, <3>1, <3>2 DEF Resave
  <2>4. QED
    BY <2>1, <2>2, <2>3, RequestStep
<1>4. CASE FindHere(r)
  <2>1. Others(r) /\ req'[r].pc = "load" /\ manifest # {} /\ UNCHANGED <<manifest, store, torn>>
    BY <1>4 DEF TypeOK, Request, FindHere, Others
  <2>2. FilesKept /\ AskedRight(r) /\ UploadStored(r)'
    BY <2>1 DEF FilesKept, AskedRight, UploadStored
  <2>3. QED
    BY <2>1, <2>2, RequestStep
<1>5. CASE NotFound(r)
  <2>1. FilesKept /\ Others(r) /\ AskedRight(r) /\ UploadStored(r)'
    BY <1>5, EndAsksNobody DEF NotFound, FilesKept, Ended
  <2>2. QED
    BY <1>5, <2>1, RequestStep DEF NotFound
<1>6. CASE LoadHere(r)
  <2>1. FilesKept /\ Others(r) /\ AskedRight(r) /\ UploadStored(r)'
    BY <1>6, TakeAsksNobody DEF LoadHere, FilesKept
  <2>2. QED
    BY <1>6, <2>1, RequestStep DEF LoadHere
<1>7. CASE CacheChunk(r)
  <2>1. req[r].pc = "ask" /\ req[r].next \in Chunks /\ manifest # {} /\ ~Keeper(At(r))
    BY <1>7 DEF CacheChunk, Inside, Keeper
  <2>2. Others(r) /\ AskedRight(r) /\ UploadStored(r)'
    BY <1>7, <2>1, TakeAsksNobody DEF CacheChunk
  <2>3. FilesKept
    BY <1>7, <2>1 DEF CacheChunk, TypeOK, SaveChunk, FilesKept
  <2>4. QED
    BY <1>7, <2>2, <2>3, RequestStep DEF CacheChunk
<1>8. CASE Finish(r)
  <2>1. PICK how \in Ended : req' = End(r, how)
    BY <1>8 DEF Finish, Ended
  <2>2. FilesKept /\ Others(r) /\ AskedRight(r) /\ UploadStored(r)'
    BY <1>8, <2>1, EndAsksNobody DEF Finish, FilesKept
  <2>3. QED
    BY <1>8, <2>2, RequestStep DEF Finish
<1>9. CASE EvictedUnderRead(r)
  <2>1. Others(r) /\ AskedRight(r) /\ UploadStored(r)'
    BY <1>9, EndAsksNobody DEF EvictedUnderRead, Ended
  <2>2. FilesKept
    BY <1>9, EvictKeeps DEF EvictedUnderRead
  <2>3. QED
    BY <1>9, <2>1, <2>2, RequestStep DEF EvictedUnderRead
<1>10. CASE ListForManifest(r)
  <2>1. Others(r) /\ req'[r].pc = "query" /\ UNCHANGED <<manifest, store, torn>>
    BY <1>10 DEF TypeOK, Request, ListForManifest, Others
  <2>2. FilesKept /\ AskedRight(r) /\ UploadStored(r)'
    BY <2>1 DEF FilesKept, AskedRight, UploadStored
  <2>3. QED
    BY <2>1, <2>2, RequestStep
<1>11. CASE ListForChunk(r)
  <2>1. /\ Others(r) /\ req'[r].pc = "ask" /\ At(r)' = At(r) /\ manifest # {}
        /\ UNCHANGED <<manifest, store, torn>>
    BY <1>11 DEF TypeOK, Request, ListForChunk, Others, At
  <2>2. ~Keeper(At(r))
    BY <1>11 DEF ListForChunk, Keeper
  <2>3. FilesKept /\ AskedRight(r) /\ UploadStored(r)'
    BY <2>1, <2>2 DEF FilesKept, AskedRight, UploadStored, At
  <2>4. QED
    BY <2>1, <2>3, RequestStep
<1>12. ASSUME NEW p \in Node, FetchManifest(r, p) PROVE KeeperInv'
  <2>1. /\ Others(r) /\ req'[r].pc = "load" /\ manifest # {} /\ manifest \subseteq manifest'
        /\ UNCHANGED <<store, torn>>
    BY <1>12 DEF TypeOK, Request, FetchManifest, Others
  <2>2. FilesKept /\ AskedRight(r) /\ UploadStored(r)'
    BY <2>1 DEF FilesKept, AskedRight, UploadStored
  <2>3. QED
    BY <2>1, <2>2, RequestStep
<1>13. ASSUME NEW p \in Node, Skip(r, p) PROVE KeeperInv'
  <2>1. /\ Others(r) /\ req'[r].pc = req[r].pc /\ At(r)' = At(r)
        /\ req[r].pc \in {"query", "ask"} /\ UNCHANGED <<manifest, store, torn>>
    BY <1>13 DEF TypeOK, Request, Asks, Skip, Others, At
  <2>2. FilesKept /\ AskedRight(r) /\ UploadStored(r)'
    BY <2>1 DEF FilesKept, AskedRight, UploadStored, Keeper, At
  <2>3. QED
    BY <2>1, <2>2, RequestStep
<1>14. ASSUME NEW p \in Node, GetChunk(r, p) PROVE KeeperInv'
  <2>1. /\ Others(r) /\ req'[r].pc = "ask" /\ At(r)' = At(r)
        /\ req[r].pc = "ask" /\ UNCHANGED <<manifest, store, torn>>
    BY <1>14 DEF TypeOK, Request, GetChunk, Others, At
  <2>2. FilesKept /\ AskedRight(r) /\ UploadStored(r)'
    BY <2>1 DEF FilesKept, AskedRight, UploadStored, Keeper, At
  <2>3. QED
    BY <2>1, <2>2, RequestStep
<1>15. CASE UploadFails(r)
  <2>1. SaveFails(At(r), req[r].next) /\ req[r].next \in Chunks /\ UNCHANGED manifest
    BY <1>15 DEF UploadFails
  <2>2. Others(r) /\ AskedRight(r) /\ UploadStored(r)'
    BY <1>15, EndAsksNobody DEF UploadFails, Ended
  <2>3. QED
    BY <2>1, <2>2, SaveFailsKeeps, RequestStep
<1>16. CASE CacheFails(r)
  <2>1. SaveFails(At(r), req[r].next) /\ req[r].next \in Chunks /\ UNCHANGED manifest
    BY <1>16 DEF CacheFails, Inside
  <2>2. /\ Others(r) /\ req'[r].pc = "ask" /\ At(r)' = At(r) /\ manifest # {}
        /\ req[r].pc = "ask"
    BY <1>16 DEF TypeOK, Request, CacheFails, Inside, Others, At
  <2>3. AskedRight(r) /\ UploadStored(r)'
    BY <2>1, <2>2 DEF AskedRight, UploadStored, Keeper, At
  <2>4. QED
    BY <2>1, <2>2, <2>3, SaveFailsKeeps, RequestStep
<1>17. QED
  BY <1>1, <1>2, <1>3, <1>4, <1>5, <1>6, <1>7, <1>8, <1>9, <1>10, <1>11, <1>12, <1>13,
     <1>14, <1>15, <1>16 DEF Step

(* A crash ends requests and tears at most a file of a node that may crash. *)
LEMMA CrashKeeps ==
    ASSUME TypeInv, TypeInv', KeeperInv, NEW n \in Node, Crash(n)
    PROVE  KeeperInv'
<1>1. /\ \A k \in Node : store[k] \subseteq store'[k]
      /\ \A k \in Node \ MayTear : torn'[k] = torn[k]
      /\ manifest' = manifest
  <2>1. CASE UNCHANGED <<store, torn>>
    BY <2>1 DEF Crash
  <2>2. ASSUME NEW i \in Writing(n), SaveChunk(n, i, "torn")
        PROVE  /\ \A k \in Node : store[k] \subseteq store'[k]
               /\ \A k \in Node \ MayTear : torn'[k] = torn[k]
    BY <2>2 DEF MayTear, Crash, SaveChunk, TypeInv, TypeOK
  <2>3. QED
    BY <2>1, <2>2 DEF Crash
<1>2. ASSUME NEW r \in Req
      PROVE  req'[r] = req[r] \/ req'[r].pc = "lost"
  BY DEF Crash, New
<1>3. \A r \in Req : UploadStored(r)'
  BY <1>1, <1>2, NodeAssumption DEF KeeperInv, UploadStored, At
<1>4. CASE manifest = {}
  BY <1>1, <1>2, <1>3, <1>4 DEF KeeperInv, NothingTravels
<1>5. CASE manifest # {}
  <2>1. PICK u \in Uploader : Keeper(u)
    BY <1>5 DEF KeeperInv
  <2>2. Keeper(u)'
    <3>1. store'[u] = Chunks
      <4>1. u \in Node
        BY NodeAssumption
      <4>2. store'[u] \subseteq Chunks
        BY <4>1 DEF TypeInv, TypeOK
      <4>3. QED
        BY <1>1, <2>1, <4>1, <4>2 DEF Keeper
    <3>2. torn'[u] # {} => u \in MayTear
      BY <1>1, <2>1, NodeAssumption DEF Keeper
    <3>3. \A r \in Req : At(r)' = u => req'[r].pc # "ask"
      BY <1>2, <2>1 DEF Keeper, At
    <3>4. QED
      BY <3>1, <3>2, <3>3 DEF Keeper
  <2>3. QED
    BY <1>1, <1>3, <1>5, <2>2 DEF KeeperInv
<1>6. QED
  BY <1>4, <1>5

LEMMA InitKeeps == Init => KeeperInv
<1> SUFFICES ASSUME Init PROVE KeeperInv
  OBVIOUS
<1>1. PICK n \in Node : req = [r \in Req |-> New(n, "upload", "failed")]
  BY DEF Init
<1>2. \A r \in Req : req[r].pc = "failed"
  BY <1>1 DEF New
<1>3. QED
  BY <1>2 DEF Init, KeeperInv, UploadStored, NothingTravels

LEMMA NextKeeps ==
    ASSUME NoFullUploader
    PROVE  TypeInv /\ KeeperInv /\ [Next]_vars => KeeperInv'
<1> SUFFICES ASSUME TypeInv, KeeperInv, [Next]_vars PROVE KeeperInv'
  OBVIOUS
<1>0. TypeInv'
  BY NextType
<1>1. ASSUME NEW r \in Req, Step(r) \/ SendsReturn(r) PROVE KeeperInv'
  BY <1>0, <1>1, StepKeeps, SendsReturnKeeps
<1>2. ASSUME NEW r \in Req, NEW n \in Node, StartUpload(r, n) PROVE KeeperInv'
  BY <1>0, <1>2, BeginKeeps DEF StartUpload
<1>3. ASSUME NEW r \in Req, NEW n \in Node, NEW kind \in Fetch, StartFetch(r, n, kind)
      PROVE  KeeperInv'
  BY <1>0, <1>3, BeginKeeps DEF StartFetch
<1>4. ASSUME NEW n \in Node, NEW i \in Chunks, Evict(n, i) PROVE KeeperInv'
  <2>1. UNCHANGED <<manifest, req>> /\ n \in Full
    BY <1>4 DEF Evict
  <2>2. /\ \A u \in Uploader : store'[u] = store[u]
        /\ \A k \in Node : torn'[k] # {} => torn[k] # {}
    BY <1>4, NodeAssumption DEF Evict, NoFullUploader, TypeInv, TypeOK
  <2>3. \A r \in Req : UploadStored(r)'
    BY <2>1, <2>2 DEF KeeperInv, UploadStored, At
  <2>4. QED
    BY <2>1, <2>2, <2>3, NodeAssumption DEF KeeperInv, NothingTravels, Keeper, At
<1>5. ASSUME NEW n \in Node, Crash(n) PROVE KeeperInv'
  BY <1>0, <1>5, CrashKeeps
<1>6. CASE UNCHANGED vars
  BY <1>6 DEF KeeperInv, UploadStored, NothingTravels, Keeper, At, vars
<1>7. QED
  BY <1>1, <1>2, <1>3, <1>4, <1>5, <1>6 DEF Next

(* In any swarm in which no upload goes to a node over its quota, however   *)
(* many uploads, downloads, previews, crashes and failed writes there are,  *)
(* a chunk of a file some node shows is whole somewhere unless an upload    *)
(* whose write was cut short tore it.                                       *)
THEOREM NothingLost == Spec => []LossNeedsATornWrite
<1>1. CASE NoFullUploader
  <2>1. KeeperInv => LossNeedsATornWrite
    <3> SUFFICES ASSUME KeeperInv, manifest # {}, NEW i \in Chunks
                 PROVE  WholeSomewhere(i) \/ \E n \in Uploader \cap MayTear : i \in torn[n]
      BY DEF LossNeedsATornWrite
    <3>1. PICK u \in Uploader : Keeper(u)
      BY DEF KeeperInv
    <3>2. QED
      BY <3>1, NodeAssumption DEF Keeper, WholeSomewhere
  <2>2. TypeInv /\ KeeperInv /\ [Next]_vars => KeeperInv'
    BY <1>1, NextKeeps
  <2>3. QED
    BY <2>1, <2>2, InitType, NextType, InitKeeps, PTL DEF Spec
<1>2. CASE ~NoFullUploader
  <2>1. LossNeedsATornWrite
    BY <1>2 DEF NoFullUploader, LossNeedsATornWrite
  <2>2. QED
    BY <2>1, PTL
<1>3. QED
  BY <1>1, <1>2
=============================================================================
