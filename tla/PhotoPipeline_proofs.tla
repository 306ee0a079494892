------------------------- MODULE PhotoPipeline_proofs -------------------------
(***************************************************************************)
(* Theorems about PhotoPipeline, for every value of its constants: any     *)
(* number of photos, requests, edits, workers and faults.                  *)
(***************************************************************************)
EXTENDS PhotoPipeline, TLAPS

-----------------------------------------------------------------------------
(* The queue operators.                                                     *)

(* Fresh ids exist whenever the queue has an allocation for them.           *)
LEMMA NewIdsAreFresh ==
    ASSUME NEW S, Allocations(S) # {}
    PROVE  NewIds(S) \in [S -> FreeIds]
<1>1. NewIds(S) \in Allocations(S)
  BY Zenon DEF NewIds
<1>2. QED
  BY <1>1, Zenon DEF Allocations

(* Enqueue keeps the queue well formed and adds a live job for every photo. *)
LEMMA EnqueueAdds ==
    ASSUME TypeOK, NEW S \in SUBSET Photo, NEW r \in 0..RetryLimit, Enqueue(S, r)
    PROVE  /\ jobs' \subseteq JobRow
           /\ jobs \subseteq jobs'
           /\ \A p \in S : \E j \in jobs' : j.photo = p /\ Live(j)
<1>1. NewIds(S) \in [S -> Job]
  BY NewIdsAreFresh DEF Enqueue, FreeIds
<1>2. \A p \in S : NewJob(NewIds(S)[p], p, 1, r) \in JobRow
  BY <1>1, PipelineAssumption DEF NewJob, JobRow, Content
<1>3. jobs' = jobs \cup {NewJob(NewIds(S)[p], p, 1, r) : p \in S}
  BY DEF Enqueue
<1>4. \A p \in S : /\ NewJob(NewIds(S)[p], p, 1, r) \in jobs'
                   /\ NewJob(NewIds(S)[p], p, 1, r).photo = p
                   /\ Live(NewJob(NewIds(S)[p], p, 1, r))
  BY <1>3 DEF NewJob, Live
<1>5. QED
  BY <1>2, <1>3, <1>4 DEF TypeOK

(* Replacing one row by a well-formed one keeps the queue well formed.      *)
LEMMA ReplaceType ==
    ASSUME TypeOK, NEW j, NEW k \in JobRow, Replace(j, k)
    PROVE  jobs' \subseteq JobRow
BY DEF TypeOK, Replace

LEMMA SettleType ==
    ASSUME NEW j \in JobRow
    PROVE  Settle(j) \in JobRow /\ Settle(j).photo = j.photo /\ ~Live(Settle(j))
BY DEF JobRow, Settle, Live

(* A failed attempt leaves the queue well formed and either a live          *)
(* successor or a photo recorded as lost.                                   *)
LEMMA RetryOrGiveUpType ==
    ASSUME TypeOK, NEW j \in jobs, RetryOrGiveUp(j)
    PROVE  /\ jobs' \subseteq JobRow
           /\ lost' \subseteq Photo
           /\ lost \subseteq lost'
           /\ \A k \in jobs : k # j => k \in jobs'
           /\ j.photo \in lost' \/ \E k \in jobs' : k.photo = j.photo /\ Live(k)
<1>1. j \in JobRow /\ Settle(j) \in JobRow
  BY SettleType DEF TypeOK
<1>2. CASE MayRetry(j) /\ Allocations({j.photo}) # {} /\ UNCHANGED lost
           /\ LET id == NewIds({j.photo})[j.photo] IN
                jobs' = (jobs \ {j}) \cup {Settle(j), NewJob(id, j.photo, NextAttempt(j), 0)}
  <2> DEFINE id == NewIds({j.photo})[j.photo]
             n == NewJob(id, j.photo, NextAttempt(j), 0)
  <2>1. id \in Job
    <3>1. NewIds({j.photo}) \in [{j.photo} -> FreeIds]
      BY <1>2, NewIdsAreFresh
    <3>2. QED
      BY <3>1 DEF FreeIds
  <2>2. NextAttempt(j) \in 1..MaxAttempts
    BY <1>1, <1>2, PipelineAssumption DEF JobRow, MayRetry, NextAttempt
  <2>3. j.photo \in Photo
    BY <1>1 DEF JobRow
  <2>4. n \in JobRow /\ n.photo = j.photo /\ Live(n)
    BY <2>1, <2>2, <2>3, PipelineAssumption DEF NewJob, JobRow, Content, Live
  <2>5. jobs' = (jobs \ {j}) \cup {Settle(j), n}
    BY <1>2
  <2> HIDE DEF id, n
  <2>6. QED
    BY <1>1, <1>2, <2>4, <2>5 DEF TypeOK
<1>3. CASE ~MayRetry(j) /\ Replace(j, Settle(j)) /\ lost' = lost \cup {j.photo}
  <2>1. j.photo \in Photo
    BY <1>1 DEF JobRow
  <2>2. QED
    BY <1>1, <1>3, <2>1 DEF Replace, TypeOK
<1>4. QED
  BY <1>2, <1>3, Zenon DEF RetryOrGiveUp
-----------------------------------------------------------------------------
(* The type invariant.                                                      *)

LEMMA FaultType ==
    ASSUME TypeOK, Fault
    PROVE  faults' \in 0..MaxFaults
BY PipelineAssumption DEF TypeOK, Fault

LEMMA InitType == Init => TypeOK
BY PipelineAssumption
DEF Init, TypeOK, Status, Age, Content, Upload, JobRow, FinalizeCall, EditCall

LEMMA UploadType ==
    ASSUME TypeOK, NEW p \in Photo, ClientPut(p)
    PROVE  TypeOK'
BY DEF TypeOK, ClientPut, Upload, rowVars, queueVars, requestVars, historyVars,
       JobRow, FinalizeCall, EditCall

LEMMA FinalizeType ==
    ASSUME TypeOK, NEW c \in Caller, FinalizeStep(c)
    PROVE  TypeOK'
<1> USE DEF rowVars, objectVars, queueVars, requestVars, historyVars
<1>1. ASSUME NEW S \in SUBSET Photo, NEW T \in SUBSET S, ResolveTo(c, S, T), faults' \in 0..MaxFaults
      PROVE  TypeOK'
  <2>1. [stage |-> IF T = {} THEN "done" ELSE "resolved", photos |-> T] \in FinalizeCall
    BY <1>1 DEF FinalizeCall
  <2>2. fin' \in [Caller -> FinalizeCall]
    BY <1>1, <2>1 DEF ResolveTo, TypeOK
  <2>3. QED
    BY <1>1, <2>2 DEF ResolveTo, TypeOK
<1>2. ASSUME NEW S \in SUBSET Photo, FinalizeResolve(c, S)
      PROVE  TypeOK'
  BY <1>1, <1>2 DEF FinalizeResolve, Resolved, TypeOK
<1>3. ASSUME NEW S \in SUBSET Photo, FinalizeMisses(c, S)
      PROVE  TypeOK'
  <2>1. faults' \in 0..MaxFaults
    BY <1>3, PipelineAssumption DEF FinalizeMisses, Fault, TypeOK
  <2>2. QED
    BY <1>1, <1>3, <2>1 DEF FinalizeMisses, Resolved
<1>4. ASSUME fin' = [fin EXCEPT ![c].stage = "inserted"] \/ fin' = [fin EXCEPT ![c].stage = "done"]
      PROVE  fin' \in [Caller -> FinalizeCall]
  <2>1. \A s \in {"inserted", "done"} : [fin[c] EXCEPT !.stage = s] \in FinalizeCall
    BY DEF TypeOK, FinalizeCall
  <2>2. QED
    BY <1>4, <2>1 DEF TypeOK
<1>5. CASE FinalizeInsert(c)
  BY <1>4, <1>5 DEF FinalizeInsert, TypeOK, Status, Age, Content
<1>6. CASE FinalizeRejected(c)
  BY <1>4, <1>6 DEF FinalizeRejected, TypeOK
<1>7. CASE FinalizeEnqueue(c)
  <2>1. fin[c].photos \in SUBSET Photo
    BY DEF TypeOK, FinalizeCall
  <2>2. jobs' \subseteq JobRow
    BY <1>7, <2>1, EnqueueAdds, PipelineAssumption DEF FinalizeEnqueue
  <2>3. QED
    BY <1>4, <1>7, <2>2 DEF FinalizeEnqueue, TypeOK
<1>8. CASE FinalizeLost(c)
  <2>1. fin[c].photos \in SUBSET Photo
    BY DEF TypeOK, FinalizeCall
  <2>2. lost' \subseteq Photo /\ faults' \in 0..MaxFaults
    BY <1>8, <2>1, PipelineAssumption DEF FinalizeLost, Fault, TypeOK
  <2>3. QED
    BY <1>4, <1>8, <2>2 DEF FinalizeLost, TypeOK
<1>9. QED
  BY <1>2, <1>3, <1>5, <1>6, <1>7, <1>8 DEF FinalizeStep

LEMMA EditType ==
    ASSUME TypeOK, NEW e \in Edit, EditStep(e)
    PROVE  TypeOK'
<1> USE DEF rowVars, objectVars, queueVars, requestVars, historyVars
<1>1. EditPhoto[e] \in Photo
  BY PipelineAssumption
<1>2. edit[e] \in EditCall /\ edit[e].base \in Content
  BY DEF TypeOK, EditCall
<1>3. ASSUME NEW s \in {"written", "flagged", "acked", "failed"}, edit' = [edit EXCEPT ![e].stage = s]
      PROVE  edit' \in [Edit -> EditCall]
  BY <1>3 DEF TypeOK, EditCall
<1>4. CASE EditFetch(e)
  <2>1. [stage |-> "fetched", base |-> baked[EditPhoto[e]]] \in EditCall
    BY <1>1 DEF TypeOK, EditCall
  <2>2. QED
    BY <1>4, <2>1 DEF EditFetch, TypeOK
<1>5. CASE EditWrite(e)
  <2>1. edit[e].base \cup {e} \in Content
    BY <1>2 DEF Content
  <2>2. QED
    BY <1>3, <1>5, <2>1 DEF EditWrite, TypeOK, Upload
<1>6. CASE EditFlag(e)
  <2>1. status' \in [Photo -> Status]
    BY <1>1, <1>6 DEF EditFlag, TypeOK, Status
  <2>2. QED
    BY <1>3, <1>6, <2>1 DEF EditFlag, TypeOK
<1>7. CASE EditEnqueue(e)
  <2>1. jobs' \subseteq JobRow
    BY <1>1, <1>7, EnqueueAdds, PipelineAssumption DEF EditEnqueue
  <2>2. QED
    BY <1>3, <1>7, <2>1 DEF EditEnqueue, TypeOK
<1>8. CASE EditLost(e)
  <2>1. lost' \subseteq Photo /\ faults' \in 0..MaxFaults
    BY <1>1, <1>8, PipelineAssumption DEF EditLost, Fault, TypeOK
  <2>2. QED
    BY <1>3, <1>8, <2>1 DEF EditLost, TypeOK
<1>9. QED
  BY <1>4, <1>5, <1>6, <1>7, <1>8 DEF EditStep

LEMMA DeleteType ==
    ASSUME TypeOK, NEW p \in Photo, DeleteStep(p)
    PROVE  TypeOK'
<1> USE DEF rowVars, objectVars, queueVars, requestVars, historyVars
<1>1. CASE DeleteRow(p)
  BY <1>1 DEF DeleteRow, TypeOK, Status
<1>2. CASE DeleteObjects(p)
  BY <1>2 DEF DeleteObjects, TypeOK, Upload, Content
<1>3. CASE DeleteObjectsLost(p)
  BY <1>3, PipelineAssumption DEF DeleteObjectsLost, Fault, TypeOK
<1>4. QED
  BY <1>1, <1>2, <1>3 DEF DeleteStep

LEMMA HandlerType ==
    ASSUME TypeOK, NEW w \in Worker, NEW j \in jobs, HandlerStep(w, j)
    PROVE  TypeOK'
<1> USE DEF rowVars, objectVars, queueVars, requestVars, historyVars
<1>1. j \in JobRow /\ j.photo \in Photo /\ Settle(j) \in JobRow
  BY SettleType DEF TypeOK, JobRow
<1>2. CASE HandlerGet(w, j)
  <2>1. baked[j.photo] \in Content
    BY <1>1 DEF TypeOK
  <2>2. [j EXCEPT !.state = "read", !.seen = baked[j.photo]] \in JobRow
    BY <1>1, <2>1 DEF JobRow
  <2>3. jobs' \subseteq JobRow
    BY <1>2, <2>2, ReplaceType DEF HandlerGet
  <2>4. QED
    BY <1>2, <2>3 DEF HandlerGet, TypeOK
<1>3. CASE HandlerSave(w, j)
  <2>1. j.seen \in Content
    BY <1>1 DEF JobRow
  <2>2. jobs' \subseteq JobRow
    BY <1>1, <1>3, ReplaceType DEF HandlerSave
  <2>3. status' \in [Photo -> Status] /\ thumb' \in [Photo -> Content]
    BY <1>3, <2>1 DEF HandlerSave, TypeOK, Status
  <2>4. QED
    BY <1>3, <2>2, <2>3 DEF HandlerSave, TypeOK
<1>4. CASE HandlerFails(w, j)
  BY <1>4, RetryOrGiveUpType DEF HandlerFails, TypeOK
<1>5. CASE HandlerTransient(w, j)
  BY <1>5, RetryOrGiveUpType, PipelineAssumption DEF HandlerTransient, Fault, TypeOK
<1>6. CASE ReenqueueLost(w, j)
  <2>1. jobs' \subseteq JobRow
    BY <1>1, <1>6, ReplaceType DEF ReenqueueLost
  <2>2. QED
    BY <1>1, <1>6, <2>1, PipelineAssumption DEF ReenqueueLost, Fault, TypeOK
<1>7. QED
  BY <1>2, <1>3, <1>4, <1>5, <1>6 DEF HandlerStep

LEMMA WorkerType ==
    ASSUME TypeOK, NEW w \in Worker, WorkerStep(w)
    PROVE  TypeOK'
<1> USE DEF rowVars, objectVars, queueVars, requestVars, historyVars
<1>1. ASSUME NEW S \in SUBSET jobs, Fetch(w, S)
      PROVE  TypeOK'
  <2>1. \A j \in S : [j EXCEPT !.state = "active"] \in JobRow /\ j.id \in Job
    BY DEF TypeOK, JobRow
  <2>2. jobs' \subseteq JobRow
    BY <1>1, <2>1 DEF Fetch, TypeOK
  <2>3. batch' \in [Worker -> SUBSET Job]
    BY <1>1, <2>1 DEF Fetch, TypeOK
  <2>4. QED
    BY <1>1, <2>2, <2>3 DEF Fetch, TypeOK
<1>2. ASSUME NEW j \in jobs, HandlerStep(w, j)
      PROVE  TypeOK'
  BY <1>2, HandlerType
<1>3. CASE BatchComplete(w)
  BY <1>3 DEF BatchComplete, TypeOK
<1>4. CASE WorkerCrash(w)
  <2>1. {} \in Content
    BY DEF Content
  <2>2. ASSUME NEW j \in JobRow
        PROVE  [j EXCEPT !.state = "active", !.seen = {}] \in JobRow
    BY <2>1 DEF JobRow
  <2>3. jobs' \subseteq JobRow
    BY <1>4, <2>2 DEF WorkerCrash, TypeOK
  <2>4. batch' \in [Worker -> SUBSET Job]
    BY <1>4 DEF WorkerCrash, TypeOK
  <2>5. faults' \in 0..MaxFaults
    BY <1>4, FaultType DEF WorkerCrash
  <2>6. QED
    BY <1>4, <2>3, <2>4, <2>5 DEF WorkerCrash, TypeOK
<1>5. QED
  BY <1>1, <1>2, <1>3, <1>4 DEF WorkerStep

LEMMA ExpireType ==
    ASSUME TypeOK, NEW j \in jobs, Expire(j)
    PROVE  TypeOK'
<1> USE DEF rowVars, objectVars, queueVars, requestVars, historyVars
<1>1. j \in JobRow /\ j.photo \in Photo /\ j.retries \in 0..RetryLimit
  BY DEF TypeOK, JobRow
<1>2. CASE j.retries > 0
  <2> DEFINE left == j.retries - 1
  <2>0. left \in 0..RetryLimit
    BY <1>1, <1>2, PipelineAssumption
  <2> HIDE DEF left
  <2>1. [j EXCEPT !.state = "created", !.retries = left] \in JobRow
    BY <1>1, <2>0 DEF JobRow
  <2>2. Replace(j, [j EXCEPT !.state = "created", !.retries = left]) /\ UNCHANGED lost
    BY <1>1, <1>2 DEF Expire, left
  <2>3. jobs' \subseteq JobRow
    BY <2>1, <2>2, ReplaceType
  <2>4. QED
    BY <2>2, <2>3 DEF Expire, TypeOK
<1>3. CASE j.retries = 0
  <2>1. jobs' = jobs \ {j} /\ lost' = lost \cup {j.photo}
    BY <1>3 DEF Expire
  <2>2. QED
    BY <1>1, <2>1 DEF Expire, TypeOK
<1>4. QED
  BY <1>2, <1>3 DEF Expire

LEMMA ClockAndSweepType ==
    ASSUME TypeOK,
           SweepStep \/ \E p \in Photo : GetStuck(p) \/ GetOld(p) \/ Regenerate(p)
    PROVE  TypeOK'
<1> USE DEF rowVars, objectVars, queueVars, requestVars, historyVars
<1>1. ASSUME NEW p \in Photo, GetStuck(p) \/ GetOld(p)
      PROVE  TypeOK'
  BY <1>1 DEF GetStuck, GetOld, AgeTo, TypeOK, Age
<1>2. ASSUME NEW p \in Photo, Regenerate(p)
      PROVE  TypeOK'
  <2>1. jobs' \subseteq JobRow
    BY <1>2, EnqueueAdds, PipelineAssumption DEF Regenerate
  <2>2. QED
    BY <1>2, <2>1, PipelineAssumption DEF Regenerate, TypeOK
<1>3. CASE SweepStart
  BY <1>3 DEF SweepStart, TypeOK
<1>4. ASSUME NEW p \in Photo, SweepSend(p)
      PROVE  TypeOK'
  <2>1. jobs' \subseteq JobRow
    BY <1>4, EnqueueAdds, PipelineAssumption DEF SweepSend
  <2>2. QED
    BY <1>4, <2>1 DEF SweepSend, TypeOK
<1>5. ASSUME NEW p \in Photo, SweepSkip(p)
      PROVE  TypeOK'
  BY <1>5 DEF SweepSkip, TypeOK
<1>6. CASE SweepLost
  BY <1>6, PipelineAssumption DEF SweepLost, Fault, TypeOK
<1>7. QED
  BY <1>1, <1>2, <1>3, <1>4, <1>5, <1>6 DEF SweepStep

LEMMA StepType == TypeOK /\ [Next]_vars => TypeOK'
<1> SUFFICES ASSUME TypeOK, [Next]_vars
             PROVE  TypeOK'
  OBVIOUS
<1>1. CASE UNCHANGED vars
  BY <1>1 DEF vars, TypeOK
<1>2. CASE Next
  BY <1>2, UploadType, FinalizeType, EditType, DeleteType, WorkerType, ExpireType,
     ClockAndSweepType DEF Next
<1>3. QED
  BY <1>1, <1>2

(* Every store, request and queue row keeps its type: in particular the     *)
(* attempts of a job stay within DERIVATIVES_MAX_ATTEMPTS whatever mix of   *)
(* re-enqueues, redeliveries and sweeps produced it.                        *)
THEOREM TypeCorrect == Spec => []TypeOK
<1>1. Init => TypeOK
  BY InitType
<1>2. TypeOK /\ [Next]_vars => TypeOK'
  BY StepType
<1>3. QED
  BY <1>1, <1>2, PTL DEF Spec
-----------------------------------------------------------------------------
(* Garbage is never published.                                              *)

(* GarbageNeverPublished is not inductive: HandlerSave publishes whatever   *)
(* its job read, EditWrite stores an image whatever the key held.  What     *)
(* makes both safe is that neither a job nor an edit gets past its read of  *)
(* the bytes unless an image was uploaded.                                  *)
BytesComeFromUpload ==
    /\ \A p \in Photo : stored[p] = "image" => uploaded[p] = "image"
    /\ \A e \in Edit : edit[e].stage \in {"fetched", "written"}
                            => uploaded[EditPhoto[e]] = "image"
    /\ \A j \in jobs : j.state = "read" => uploaded[j.photo] = "image"

GarbageInv == TypeOK /\ GarbageNeverPublished /\ BytesComeFromUpload

LEMMA GarbageInit == Init => GarbageNeverPublished /\ BytesComeFromUpload
BY PipelineAssumption DEF Init, GarbageNeverPublished, BytesComeFromUpload

(* New queue rows are "created": they have read nothing.                    *)
LEMMA EnqueueReads ==
    ASSUME NEW S, NEW r, Enqueue(S, r)
    PROVE  \A j \in jobs' : j \in jobs \/ j.state = "created"
BY DEF Enqueue, NewJob

LEMMA RetryOrGiveUpReads ==
    ASSUME TypeOK, NEW j \in jobs, RetryOrGiveUp(j)
    PROVE  \A k \in jobs' : k \in jobs \/ k.state # "read"
<1>1. Settle(j).state # "read"
  BY DEF TypeOK, JobRow, Settle
<1>2. \A id, p, n, r : NewJob(id, p, n, r).state # "read"
  BY DEF NewJob
<1>3. QED
  BY <1>1, <1>2, Zenon DEF RetryOrGiveUp, Replace

LEMMA GarbageStep == GarbageInv /\ [Next]_vars => (GarbageNeverPublished /\ BytesComeFromUpload)'
<1> SUFFICES ASSUME GarbageInv, [Next]_vars
             PROVE  (GarbageNeverPublished /\ BytesComeFromUpload)'
  OBVIOUS
<1> USE DEF GarbageInv, GarbageNeverPublished, BytesComeFromUpload,
            rowVars, objectVars, queueVars, requestVars, historyVars
<1>1. ASSUME NEW p \in Photo, ClientPut(p)
      PROVE  (GarbageNeverPublished /\ BytesComeFromUpload)'
  BY <1>1, PipelineAssumption DEF ClientPut, TypeOK, JobRow
<1>2. ASSUME NEW c \in Caller, FinalizeStep(c)
      PROVE  (GarbageNeverPublished /\ BytesComeFromUpload)'
  <2>1. CASE FinalizeInsert(c)
    BY <2>1 DEF FinalizeInsert, TypeOK
  <2>2. CASE FinalizeEnqueue(c)
    BY <2>2, EnqueueReads DEF FinalizeEnqueue
  <2>3. CASE UNCHANGED <<status, uploaded, stored, jobs, edit>>
    BY <2>3
  <2>4. QED
    BY <1>2, <2>1, <2>2, <2>3
    DEF FinalizeStep, FinalizeResolve, FinalizeMisses, ResolveTo, FinalizeRejected, FinalizeLost
<1>3. ASSUME NEW e \in Edit, EditStep(e)
      PROVE  (GarbageNeverPublished /\ BytesComeFromUpload)'
  <2>1. EditPhoto[e] \in Photo
    BY PipelineAssumption
  <2>2. CASE EditFetch(e)
    BY <2>1, <2>2 DEF EditFetch, TypeOK
  <2>3. CASE EditWrite(e)
    BY <2>1, <2>3 DEF EditWrite, TypeOK, EditCall
  <2>4. CASE EditFlag(e)
    BY <2>1, <2>4 DEF EditFlag, TypeOK, EditCall
  <2>5. CASE EditEnqueue(e)
    BY <2>5, EnqueueReads DEF EditEnqueue, TypeOK, EditCall
  <2>6. CASE EditLost(e)
    BY <2>6 DEF EditLost, TypeOK, EditCall
  <2>7. QED
    BY <1>3, <2>2, <2>3, <2>4, <2>5, <2>6 DEF EditStep
<1>4. ASSUME NEW p \in Photo, DeleteStep(p)
      PROVE  (GarbageNeverPublished /\ BytesComeFromUpload)'
  BY <1>4 DEF DeleteStep, DeleteRow, DeleteObjects, DeleteObjectsLost, TypeOK
<1>5. ASSUME NEW w \in Worker, WorkerStep(w)
      PROVE  (GarbageNeverPublished /\ BytesComeFromUpload)'
  <2>1. ASSUME NEW S \in SUBSET jobs, Fetch(w, S)
        PROVE  (GarbageNeverPublished /\ BytesComeFromUpload)'
    <3>1. \A j \in S : [j EXCEPT !.state = "active"].state = "active"
      BY DEF TypeOK, JobRow
    <3>2. \A j \in jobs' : j \in jobs \/ j.state = "active"
      BY <2>1, <3>1 DEF Fetch
    <3>3. QED
      BY <2>1, <3>2 DEF Fetch
  <2>2. ASSUME NEW j \in jobs, HandlerGet(w, j)
        PROVE  (GarbageNeverPublished /\ BytesComeFromUpload)'
    <3>1. j.photo \in Photo /\ uploaded[j.photo] = "image"
      BY <2>2 DEF HandlerGet, Decodes, TypeOK, JobRow
    <3>2. [j EXCEPT !.state = "read", !.seen = baked[j.photo]].photo = j.photo
      BY DEF TypeOK, JobRow
    <3>3. QED
      BY <2>2, <3>1, <3>2 DEF HandlerGet, Replace
  <2>3. ASSUME NEW j \in jobs, HandlerSave(w, j)
        PROVE  (GarbageNeverPublished /\ BytesComeFromUpload)'
    <3>1. j.photo \in Photo /\ uploaded[j.photo] = "image"
      BY <2>3 DEF HandlerSave, TypeOK, JobRow
    <3>2. Settle(j).state = "settled"
      BY DEF TypeOK, JobRow, Settle
    <3>3. QED
      BY <2>3, <3>1, <3>2 DEF HandlerSave, Replace, TypeOK
  <2>4. ASSUME NEW j \in jobs, HandlerFails(w, j) \/ HandlerTransient(w, j)
        PROVE  (GarbageNeverPublished /\ BytesComeFromUpload)'
    <3>1. RetryOrGiveUp(j)
      BY <2>4 DEF HandlerFails, HandlerTransient
    <3>2. \A k \in jobs' : k \in jobs \/ k.state # "read"
      BY <3>1, RetryOrGiveUpReads
    <3>3. QED
      BY <2>4, <3>2 DEF HandlerFails, HandlerTransient
  <2>5. ASSUME NEW j \in jobs, ReenqueueLost(w, j)
        PROVE  (GarbageNeverPublished /\ BytesComeFromUpload)'
    <3>1. Settle(j).state = "settled"
      BY DEF TypeOK, JobRow, Settle
    <3>2. QED
      BY <2>5, <3>1 DEF ReenqueueLost, Replace
  <2>6. CASE BatchComplete(w)
    BY <2>6 DEF BatchComplete
  <2>7. CASE WorkerCrash(w)
    <3>1. \A j \in jobs : [j EXCEPT !.state = "active", !.seen = {}].state = "active"
      BY DEF TypeOK, JobRow
    <3>2. \A j \in jobs' : j \in jobs \/ j.state = "active"
      BY <2>7, <3>1 DEF WorkerCrash
    <3>3. QED
      BY <2>7, <3>2 DEF WorkerCrash
  <2>8. QED
    BY <1>5, <2>1, <2>2, <2>3, <2>4, <2>5, <2>6, <2>7 DEF WorkerStep, HandlerStep
<1>6. ASSUME NEW j \in jobs, Expire(j)
      PROVE  (GarbageNeverPublished /\ BytesComeFromUpload)'
  <2>1. [j EXCEPT !.state = "created", !.retries = @ - 1].state = "created"
    BY DEF TypeOK, JobRow
  <2>2. \A k \in jobs' : k \in jobs \/ k.state = "created"
    BY <1>6, <2>1 DEF Expire, Replace
  <2>3. QED
    BY <1>6, <2>2 DEF Expire
<1>7. ASSUME NEW p \in Photo, GetStuck(p) \/ GetOld(p) \/ Regenerate(p)
      PROVE  (GarbageNeverPublished /\ BytesComeFromUpload)'
  BY <1>7, EnqueueReads DEF GetStuck, GetOld, AgeTo, Regenerate
<1>8. CASE SweepStep
  BY <1>8, EnqueueReads DEF SweepStep, SweepStart, SweepSend, SweepSkip, SweepLost
<1>9. CASE UNCHANGED vars
  BY <1>9 DEF vars
<1>10. QED
  BY <1>1, <1>2, <1>3, <1>4, <1>5, <1>6, <1>7, <1>8, <1>9 DEF Next

(* generateDerivatives.ts, F39, for any number of jobs, retries, edits and  *)
(* workers: a row is "ready" only if an image was uploaded under its key.   *)
THEOREM GarbageStaysHidden == Spec => []GarbageNeverPublished
<1>1. Init => GarbageInv
  BY InitType, GarbageInit DEF GarbageInv
<1>2. GarbageInv /\ [Next]_vars => GarbageInv'
  BY StepType, GarbageStep DEF GarbageInv
<1>3. GarbageInv => GarbageNeverPublished
  BY DEF GarbageInv
<1>4. QED
  BY <1>1, <1>2, <1>3, PTL DEF Spec
-----------------------------------------------------------------------------
(* A row in "processing" is in somebody's care.                             *)

(* What care rests on: which jobs are live, which requests have yet to      *)
(* enqueue, which photos were lost.                                         *)
LiveJobsKept ==
    \A j \in jobs : Live(j) =>
        j.photo \in lost' \/ \E k \in jobs' : k.photo = j.photo /\ Live(k)

InsertedKept ==
    \A c \in Caller : fin[c].stage = "inserted" =>
        \/ fin'[c] = fin[c]
        \/ \A p \in fin[c].photos :
              p \in lost' \/ \E k \in jobs' : k.photo = p /\ Live(k)

FlaggedKept ==
    \A e \in Edit : edit[e].stage = "flagged" =>
        \/ edit'[e] = edit[e]
        \/ EditPhoto[e] \in lost'
        \/ \E k \in jobs' : k.photo = EditPhoto[e] /\ Live(k)

NoneStartsProcessing ==
    \A p \in Photo : status'[p] = "processing" => status[p] = "processing"

(* A step that keeps all of them, and sends no row to "processing", leaves  *)
(* nobody without care.                                                     *)
LEMMA CareKept ==
    ASSUME ProcessingIsInCare, LiveJobsKept, InsertedKept, FlaggedKept, lost \subseteq lost',
           NEW p \in Photo, status[p] = "processing"
    PROVE  InCare(p)' \/ p \in lost'
<1>1. InCare(p) \/ p \in lost
  BY DEF ProcessingIsInCare
<1>2. CASE p \in lost
  BY <1>2
<1>3. CASE \E j \in jobs : j.photo = p /\ Live(j)
  BY <1>3 DEF InCare, Live, LiveJobsKept
<1>4. CASE \E c \in Caller : fin[c].stage = "inserted" /\ p \in fin[c].photos
  BY <1>4 DEF InCare, Live, InsertedKept
<1>5. CASE \E e \in Edit : EditPhoto[e] = p /\ edit[e].stage = "flagged"
  BY <1>5 DEF InCare, Live, FlaggedKept
<1>6. QED
  BY <1>1, <1>2, <1>3, <1>4, <1>5 DEF InCare

LEMMA CareStaysKept ==
    ASSUME ProcessingIsInCare, LiveJobsKept, InsertedKept, FlaggedKept, lost \subseteq lost',
           NoneStartsProcessing
    PROVE  ProcessingIsInCare'
BY CareKept DEF NoneStartsProcessing, ProcessingIsInCare

(* Finalize: the rows it inserts are its own care until it enqueues them.   *)
LEMMA FinalizeCare ==
    ASSUME TypeOK, ProcessingIsInCare, NEW c \in Caller, FinalizeStep(c)
    PROVE  ProcessingIsInCare'
<1> USE DEF rowVars, objectVars, queueVars, requestVars, historyVars
<1>1. CASE FinalizeInsert(c)
  <2>1. LiveJobsKept /\ FlaggedKept /\ UNCHANGED lost
    BY <1>1 DEF FinalizeInsert, LiveJobsKept, FlaggedKept
  <2>2. InsertedKept
    BY <1>1 DEF FinalizeInsert, InsertedKept, TypeOK
  <2>3. fin'[c].stage = "inserted" /\ fin'[c].photos = fin[c].photos
    BY <1>1 DEF FinalizeInsert, TypeOK, FinalizeCall
  <2>4. ASSUME NEW p \in Photo, status'[p] = "processing"
        PROVE  InCare(p)' \/ p \in lost'
    <3>1. CASE p \in fin[c].photos
      BY <2>3, <3>1 DEF InCare
    <3>2. CASE status[p] = "processing"
      BY <2>1, <2>2, <3>2, CareKept
    <3>3. QED
      BY <1>1, <2>4, <3>1, <3>2 DEF FinalizeInsert
  <2>5. QED
    BY <2>4 DEF ProcessingIsInCare
<1>2. CASE FinalizeEnqueue(c)
  <2>1. fin[c].photos \in SUBSET Photo
    BY DEF TypeOK, FinalizeCall
  <2>2. jobs \subseteq jobs' /\ \A p \in fin[c].photos : \E j \in jobs' : j.photo = p /\ Live(j)
    <3>1. Enqueue(fin[c].photos, RetryLimit) /\ RetryLimit \in 0..RetryLimit
      BY <1>2, PipelineAssumption DEF FinalizeEnqueue
    <3>2. QED
      BY <2>1, <3>1, EnqueueAdds, Zenon
  <2>3. LiveJobsKept /\ FlaggedKept /\ NoneStartsProcessing /\ UNCHANGED lost
    BY <1>2, <2>2 DEF FinalizeEnqueue, LiveJobsKept, FlaggedKept, NoneStartsProcessing
  <2>4. InsertedKept
    BY <1>2, <2>2 DEF FinalizeEnqueue, InsertedKept, TypeOK
  <2>5. QED
    BY <2>3, <2>4, CareStaysKept
<1>3. CASE FinalizeLost(c)
  <2>1. LiveJobsKept /\ FlaggedKept /\ NoneStartsProcessing /\ lost \subseteq lost'
    BY <1>3 DEF FinalizeLost, LiveJobsKept, FlaggedKept, NoneStartsProcessing
  <2>2. InsertedKept
    BY <1>3 DEF FinalizeLost, InsertedKept, TypeOK
  <2>3. QED
    BY <2>1, <2>2, CareStaysKept
<1>4. ASSUME fin[c].stage # "inserted", \E f : fin' = [fin EXCEPT ![c] = f],
             UNCHANGED <<status, jobs, edit, lost>>
      PROVE  ProcessingIsInCare'
  <2>1. LiveJobsKept /\ FlaggedKept /\ NoneStartsProcessing
    BY <1>4 DEF LiveJobsKept, FlaggedKept, NoneStartsProcessing
  <2>2. InsertedKept
    BY <1>4 DEF InsertedKept, TypeOK
  <2>3. QED
    BY <1>4, <2>1, <2>2, CareStaysKept
<1>5. ASSUME NEW S \in SUBSET Photo, FinalizeResolve(c, S) \/ FinalizeMisses(c, S)
      PROVE  ProcessingIsInCare'
  <2>1. fin[c].stage # "inserted" /\ \E f : fin' = [fin EXCEPT ![c] = f]
    BY <1>5 DEF FinalizeResolve, FinalizeMisses, ResolveTo
  <2>2. UNCHANGED <<status, jobs, edit, lost>>
    BY <1>5 DEF FinalizeResolve, FinalizeMisses, ResolveTo
  <2>3. QED
    BY <1>4, <2>1, <2>2
<1>6. CASE FinalizeRejected(c)
  <2>1. fin' = [fin EXCEPT ![c] = [fin[c] EXCEPT !.stage = "done"]]
    BY <1>6 DEF FinalizeRejected
  <2>2. fin[c].stage # "inserted" /\ UNCHANGED <<status, jobs, edit, lost>>
    BY <1>6 DEF FinalizeRejected
  <2>3. QED
    BY <1>4, <2>1, <2>2
<1>7. QED
  BY <1>1, <1>2, <1>3, <1>5, <1>6 DEF FinalizeStep

(* Edit: the row it flags is its own care until it enqueues it.             *)
LEMMA EditCare ==
    ASSUME TypeOK, ProcessingIsInCare, NEW e \in Edit, EditStep(e)
    PROVE  ProcessingIsInCare'
<1> USE DEF rowVars, objectVars, queueVars, requestVars, historyVars
<1>1. EditPhoto[e] \in Photo
  BY PipelineAssumption
<1>2. CASE EditFlag(e)
  <2>1. LiveJobsKept /\ InsertedKept /\ UNCHANGED lost
    BY <1>2 DEF EditFlag, LiveJobsKept, InsertedKept
  <2>2. FlaggedKept
    BY <1>2 DEF EditFlag, FlaggedKept, TypeOK
  <2>3. edit'[e].stage = "flagged"
    BY <1>2 DEF EditFlag, TypeOK, EditCall
  <2>4. ASSUME NEW p \in Photo, status'[p] = "processing"
        PROVE  InCare(p)' \/ p \in lost'
    <3>1. CASE p = EditPhoto[e]
      BY <2>3, <3>1 DEF InCare
    <3>2. CASE status[p] = "processing"
      BY <2>1, <2>2, <3>2, CareKept
    <3>3. QED
      BY <1>1, <1>2, <2>4, <3>1, <3>2 DEF EditFlag, TypeOK
  <2>5. QED
    BY <2>4 DEF ProcessingIsInCare
<1>3. CASE EditEnqueue(e)
  <2>1. jobs \subseteq jobs' /\ \E j \in jobs' : j.photo = EditPhoto[e] /\ Live(j)
    <3>1. Enqueue({EditPhoto[e]}, RetryLimit) /\ RetryLimit \in 0..RetryLimit
      BY <1>3, PipelineAssumption DEF EditEnqueue
    <3>2. {EditPhoto[e]} \in SUBSET Photo /\ EditPhoto[e] \in {EditPhoto[e]}
      BY <1>1
    <3>3. QED
      BY <3>1, <3>2, EnqueueAdds, Zenon
  <2>2. LiveJobsKept /\ InsertedKept /\ NoneStartsProcessing /\ UNCHANGED lost
    BY <1>3, <2>1 DEF EditEnqueue, LiveJobsKept, InsertedKept, NoneStartsProcessing
  <2>3. FlaggedKept
    BY <1>3, <2>1 DEF EditEnqueue, FlaggedKept, TypeOK
  <2>4. QED
    BY <2>2, <2>3, CareStaysKept
<1>4. CASE EditLost(e)
  <2>1. LiveJobsKept /\ InsertedKept /\ NoneStartsProcessing /\ lost \subseteq lost'
    BY <1>4 DEF EditLost, LiveJobsKept, InsertedKept, NoneStartsProcessing
  <2>2. FlaggedKept
    BY <1>4 DEF EditLost, FlaggedKept, TypeOK
  <2>3. QED
    BY <2>1, <2>2, CareStaysKept
<1>5. CASE EditFetch(e) \/ EditWrite(e)
  <2>1. LiveJobsKept /\ InsertedKept /\ NoneStartsProcessing /\ UNCHANGED lost
    BY <1>5 DEF EditFetch, EditWrite, LiveJobsKept, InsertedKept, NoneStartsProcessing
  <2>2. FlaggedKept
    BY <1>5 DEF EditFetch, EditWrite, FlaggedKept, TypeOK
  <2>3. QED
    BY <2>1, <2>2, CareStaysKept
<1>6. QED
  BY <1>2, <1>3, <1>4, <1>5 DEF EditStep

(* Handlers: a live job ends as a saved row, as a successor or as lost.     *)
LEMMA HandlerCare ==
    ASSUME TypeOK, ProcessingIsInCare, NEW w \in Worker, NEW j \in jobs, HandlerStep(w, j)
    PROVE  ProcessingIsInCare'
<1> USE DEF rowVars, objectVars, queueVars, requestVars, historyVars
<1>1. j \in JobRow /\ j.photo \in Photo
  BY DEF TypeOK, JobRow
<1>2. CASE HandlerGet(w, j)
  <2> DEFINE k == [j EXCEPT !.state = "read", !.seen = baked[j.photo]]
  <2>1. k.photo = j.photo /\ Live(k)
    BY <1>1 DEF JobRow, Live
  <2>2. jobs' = (jobs \ {j}) \cup {k}
    BY <1>2 DEF HandlerGet, Replace
  <2> HIDE DEF k
  <2>3. LiveJobsKept
    BY <2>1, <2>2 DEF LiveJobsKept
  <2>4. InsertedKept /\ FlaggedKept /\ NoneStartsProcessing /\ UNCHANGED lost
    BY <1>2 DEF HandlerGet, InsertedKept, FlaggedKept, NoneStartsProcessing
  <2>5. QED
    BY <2>3, <2>4, CareStaysKept
<1>3. CASE HandlerSave(w, j)
  <2>1. jobs' = (jobs \ {j}) \cup {Settle(j)} /\ UNCHANGED <<fin, edit, lost>>
    BY <1>3 DEF HandlerSave, Replace
  <2>2. status'[j.photo] # "processing"
    BY <1>1, <1>3 DEF HandlerSave, TypeOK, Status, Row
  <2>3. ASSUME NEW p \in Photo, status'[p] = "processing"
        PROVE  InCare(p)' \/ p \in lost'
    <3>1. p # j.photo /\ status[p] = "processing"
      BY <1>1, <1>3, <2>2, <2>3 DEF HandlerSave, TypeOK
    <3>2. InCare(p) \/ p \in lost
      BY <3>1 DEF ProcessingIsInCare
    <3>3. QED
      BY <2>1, <3>1, <3>2 DEF InCare, Live
  <2>4. QED
    BY <2>3 DEF ProcessingIsInCare
<1>4. CASE HandlerFails(w, j) \/ HandlerTransient(w, j)
  <2>1. RetryOrGiveUp(j) /\ UNCHANGED <<status, fin, edit>>
    BY <1>4 DEF HandlerFails, HandlerTransient
  <2>2. /\ lost \subseteq lost'
        /\ \A k \in jobs : k # j => k \in jobs'
        /\ j.photo \in lost' \/ \E k \in jobs' : k.photo = j.photo /\ Live(k)
    BY <2>1, RetryOrGiveUpType
  <2>3. LiveJobsKept
    BY <2>2 DEF LiveJobsKept
  <2>4. InsertedKept /\ FlaggedKept /\ NoneStartsProcessing
    BY <2>1 DEF InsertedKept, FlaggedKept, NoneStartsProcessing
  <2>5. QED
    BY <2>2, <2>3, <2>4, CareStaysKept
<1>5. CASE ReenqueueLost(w, j)
  <2>1. LiveJobsKept
    BY <1>5 DEF ReenqueueLost, Replace, LiveJobsKept
  <2>2. InsertedKept /\ FlaggedKept /\ NoneStartsProcessing /\ lost \subseteq lost'
    BY <1>5 DEF ReenqueueLost, InsertedKept, FlaggedKept, NoneStartsProcessing
  <2>3. QED
    BY <2>1, <2>2, CareStaysKept
<1>6. QED
  BY <1>2, <1>3, <1>4, <1>5 DEF HandlerStep

(* The queue: fetching, completing, dying and expiring lose no live job     *)
(* without recording its photo.                                             *)
LEMMA WorkerCare ==
    ASSUME TypeOK, ProcessingIsInCare, NEW w \in Worker, WorkerStep(w)
    PROVE  ProcessingIsInCare'
<1> USE DEF rowVars, objectVars, queueVars, requestVars, historyVars
<1>1. ASSUME NEW S \in SUBSET jobs, Fetch(w, S)
      PROVE  ProcessingIsInCare'
  <2> DEFINE taken(j) == [j EXCEPT !.state = "active"]
  <2>1. \A j \in S : taken(j).photo = j.photo /\ Live(taken(j))
    BY DEF TypeOK, JobRow, Live
  <2>2. jobs' = (jobs \ S) \cup {taken(j) : j \in S}
    BY <1>1 DEF Fetch
  <2> HIDE DEF taken
  <2>3. LiveJobsKept
    BY <2>1, <2>2 DEF LiveJobsKept
  <2>4. InsertedKept /\ FlaggedKept /\ NoneStartsProcessing /\ UNCHANGED lost
    BY <1>1 DEF Fetch, InsertedKept, FlaggedKept, NoneStartsProcessing
  <2>5. QED
    BY <2>3, <2>4, CareStaysKept
<1>2. ASSUME NEW j \in jobs, HandlerStep(w, j)
      PROVE  ProcessingIsInCare'
  BY <1>2, HandlerCare
<1>3. CASE BatchComplete(w)
  <2>1. LiveJobsKept
    BY <1>3 DEF BatchComplete, LiveJobsKept, Live
  <2>2. InsertedKept /\ FlaggedKept /\ NoneStartsProcessing /\ UNCHANGED lost
    BY <1>3 DEF BatchComplete, InsertedKept, FlaggedKept, NoneStartsProcessing
  <2>3. QED
    BY <2>1, <2>2, CareStaysKept
<1>4. CASE WorkerCrash(w)
  <2> DEFINE reset(j) == [j EXCEPT !.state = "active", !.seen = {}]
  <2>1. \A j \in jobs : reset(j).photo = j.photo /\ Live(reset(j))
    BY DEF TypeOK, JobRow, Live
  <2>2. jobs' = {IF InHand(w, j) THEN reset(j) ELSE j : j \in jobs}
    BY <1>4 DEF WorkerCrash
  <2> HIDE DEF reset
  <2>3. LiveJobsKept
    BY <2>1, <2>2 DEF LiveJobsKept
  <2>4. InsertedKept /\ FlaggedKept /\ NoneStartsProcessing /\ UNCHANGED lost
    BY <1>4 DEF WorkerCrash, InsertedKept, FlaggedKept, NoneStartsProcessing
  <2>5. QED
    BY <2>3, <2>4, CareStaysKept
<1>5. QED
  BY <1>1, <1>2, <1>3, <1>4 DEF WorkerStep

LEMMA ExpireCare ==
    ASSUME TypeOK, ProcessingIsInCare, NEW j \in jobs, Expire(j)
    PROVE  ProcessingIsInCare'
<1> DEFINE k == [j EXCEPT !.state = "created", !.retries = @ - 1]
<1>1. k.photo = j.photo /\ Live(k)
  BY DEF TypeOK, JobRow, Live
<1>2. \/ jobs' = (jobs \ {j}) \cup {k} /\ UNCHANGED lost
      \/ jobs' = jobs \ {j} /\ lost' = lost \cup {j.photo}
  BY DEF Expire, Replace
<1>3. UNCHANGED <<status, fin, edit>>
  BY DEF Expire, rowVars, requestVars
<1> HIDE DEF k
<1>4. LiveJobsKept /\ lost \subseteq lost'
  BY <1>1, <1>2 DEF LiveJobsKept
<1>5. InsertedKept /\ FlaggedKept /\ NoneStartsProcessing
  BY <1>3 DEF InsertedKept, FlaggedKept, NoneStartsProcessing
<1>6. QED
  BY <1>4, <1>5, CareStaysKept

(* Everything else touches no job but to add one, and no request.           *)
LEMMA OtherCare ==
    ASSUME TypeOK, ProcessingIsInCare,
           jobs \subseteq jobs', UNCHANGED <<fin, edit, lost>>, NoneStartsProcessing
    PROVE  ProcessingIsInCare'
BY CareStaysKept DEF LiveJobsKept, InsertedKept, FlaggedKept

LEMMA CareStep == TypeOK /\ ProcessingIsInCare /\ [Next]_vars => ProcessingIsInCare'
<1> SUFFICES ASSUME TypeOK, ProcessingIsInCare, [Next]_vars
             PROVE  ProcessingIsInCare'
  OBVIOUS
<1> USE DEF rowVars, objectVars, queueVars, requestVars, historyVars
<1>1. ASSUME NEW p \in Photo, ClientPut(p) \/ GetStuck(p) \/ GetOld(p)
      PROVE  ProcessingIsInCare'
  BY <1>1, OtherCare DEF ClientPut, GetStuck, GetOld, AgeTo, NoneStartsProcessing
<1>2. ASSUME NEW p \in Photo, DeleteStep(p)
      PROVE  ProcessingIsInCare'
  <2>1. NoneStartsProcessing
    BY <1>2 DEF DeleteStep, DeleteRow, DeleteObjects, DeleteObjectsLost, NoneStartsProcessing, TypeOK
  <2>2. QED
    BY <1>2, <2>1, OtherCare DEF DeleteStep, DeleteRow, DeleteObjects, DeleteObjectsLost
<1>3. ASSUME NEW p \in Photo, Regenerate(p)
      PROVE  ProcessingIsInCare'
  BY <1>3, OtherCare DEF Regenerate, Enqueue, NoneStartsProcessing
<1>4. CASE SweepStep
  BY <1>4, OtherCare
  DEF SweepStep, SweepStart, SweepSend, SweepSkip, SweepLost, Enqueue, NoneStartsProcessing
<1>5. CASE UNCHANGED vars
  BY <1>5, OtherCare DEF vars, NoneStartsProcessing
<1>6. QED
  BY <1>1, <1>2, <1>3, <1>4, <1>5, FinalizeCare, EditCare, WorkerCare, ExpireCare DEF Next

(* reconcileProcessing.ts:9-14 says how a photo gets stuck in "processing": *)
(* its job was lost.  For any number of requests, workers, redeliveries and *)
(* faults, that is the only way.                                            *)
THEOREM ProcessingStaysInCare == Spec => []ProcessingIsInCare
<1>1. Init => TypeOK /\ ProcessingIsInCare
  BY InitType DEF Init, ProcessingIsInCare
<1>2. TypeOK /\ ProcessingIsInCare /\ [Next]_vars => (TypeOK /\ ProcessingIsInCare)'
  BY StepType, CareStep
<1>3. QED
  BY <1>1, <1>2, PTL DEF Spec

-----------------------------------------------------------------------------
(* The pipeline implements PhotoLifecycle.                                  *)

readableBar == {p \in Photo : uploaded[p] = "image"}

LEMMA LifecycleInitHolds == Init => Lifecycle!LifecycleInit
BY DEF Init, Lifecycle!LifecycleInit

LEMMA LifecycleStep ==
    GarbageInv /\ [Next]_vars => [Lifecycle!LifecycleNext]_(Lifecycle!abstractVars)
<1> SUFFICES ASSUME GarbageInv, [Next]_vars
             PROVE  Lifecycle!LifecycleNext \/ UNCHANGED <<status, readableBar>>
  BY DEF Lifecycle!abstractVars, readableBar
<1> USE DEF rowVars, objectVars, queueVars, requestVars, historyVars
<1>1. ASSUME UNCHANGED <<status, uploaded>>
      PROVE  UNCHANGED <<status, readableBar>>
  BY <1>1 DEF readableBar
<1>2. ASSUME NEW p \in Photo, ClientPut(p)
      PROVE  Lifecycle!LifecycleNext \/ UNCHANGED <<status, readableBar>>
  <2>1. UNCHANGED status
    BY <1>2 DEF ClientPut
  <2>2. CASE uploaded' = [uploaded EXCEPT ![p] = "image"]
    <3>1. readableBar' = readableBar \cup {p}
      BY <2>2 DEF readableBar, GarbageInv, TypeOK
    <3>2. Lifecycle!Upload(p)
      BY <2>1, <3>1 DEF Lifecycle!Upload, readableBar
    <3>3. QED
      BY <3>2 DEF Lifecycle!LifecycleNext
  <2>3. CASE uploaded' = [uploaded EXCEPT ![p] = "garbage"]
    <3>1. readableBar' = readableBar
      BY <1>2, <2>3 DEF readableBar, GarbageInv, TypeOK, ClientPut
    <3>2. QED
      BY <2>1, <3>1
  <2>4. QED
    BY <1>2, <2>2, <2>3 DEF ClientPut
<1>3. ASSUME NEW c \in Caller, FinalizeStep(c)
      PROVE  Lifecycle!LifecycleNext \/ UNCHANGED <<status, readableBar>>
  <2>1. CASE FinalizeInsert(c)
    <3>1. fin[c].photos \in SUBSET Photo
      BY DEF GarbageInv, TypeOK, FinalizeCall
    <3>2. Lifecycle!Insert(fin[c].photos)
      BY <2>1 DEF FinalizeInsert, Row, Lifecycle!Insert
    <3>3. QED
      BY <3>1, <3>2 DEF Lifecycle!LifecycleNext
  <2>2. CASE ~FinalizeInsert(c)
    BY <1>1, <1>3, <2>2
    DEF FinalizeStep, FinalizeResolve, FinalizeMisses, ResolveTo, FinalizeRejected,
        FinalizeEnqueue, FinalizeLost
  <2>3. QED
    BY <2>1, <2>2
<1>4. ASSUME NEW e \in Edit, EditStep(e)
      PROVE  Lifecycle!LifecycleNext \/ UNCHANGED <<status, readableBar>>
  <2>1. CASE EditFlag(e) /\ Row(EditPhoto[e])
    <3>1. EditPhoto[e] \in Photo
      BY PipelineAssumption
    <3>2. uploaded[EditPhoto[e]] = "image"
      BY <2>1 DEF EditFlag, GarbageInv, BytesComeFromUpload
    <3>3. Lifecycle!Withdraw(EditPhoto[e])
      BY <2>1, <3>1, <3>2 DEF EditFlag, Row, Lifecycle!Withdraw
    <3>4. QED
      BY <3>1, <3>3 DEF Lifecycle!LifecycleNext
  <2>2. CASE ~(EditFlag(e) /\ Row(EditPhoto[e]))
    BY <1>1, <1>4, <2>2 DEF EditStep, EditFetch, EditWrite, EditFlag, EditEnqueue, EditLost
  <2>3. QED
    BY <2>1, <2>2
<1>5. ASSUME NEW p \in Photo, DeleteStep(p)
      PROVE  Lifecycle!LifecycleNext \/ UNCHANGED <<status, readableBar>>
  <2>1. CASE DeleteRow(p)
    <3>1. Lifecycle!Remove(p)
      BY <2>1 DEF DeleteRow, Row, Lifecycle!Remove
    <3>2. QED
      BY <3>1 DEF Lifecycle!LifecycleNext
  <2>2. CASE ~DeleteRow(p)
    BY <1>1, <1>5, <2>2 DEF DeleteStep, DeleteObjects, DeleteObjectsLost
  <2>3. QED
    BY <2>1, <2>2
<1>6. ASSUME NEW w \in Worker, WorkerStep(w)
      PROVE  Lifecycle!LifecycleNext \/ UNCHANGED <<status, readableBar>>
  <2>1. ASSUME NEW j \in jobs, HandlerSave(w, j), Row(j.photo)
        PROVE  Lifecycle!LifecycleNext
    <3>1. j.photo \in Photo /\ uploaded[j.photo] = "image"
      BY <2>1 DEF HandlerSave, GarbageInv, BytesComeFromUpload, TypeOK, JobRow
    <3>2. Lifecycle!Publish(j.photo)
      BY <2>1, <3>1 DEF HandlerSave, Row, Lifecycle!Publish
    <3>3. QED
      BY <3>1, <3>2 DEF Lifecycle!LifecycleNext
  <2>2. ASSUME NEW j \in jobs, HandlerStep(w, j), ~(HandlerSave(w, j) /\ Row(j.photo))
        PROVE  UNCHANGED <<status, uploaded>>
    BY <2>2 DEF HandlerStep, HandlerGet, HandlerSave, HandlerFails, HandlerTransient, ReenqueueLost
  <2>3. ASSUME NEW S \in SUBSET jobs, Fetch(w, S)
        PROVE  UNCHANGED <<status, uploaded>>
    BY <2>3 DEF Fetch
  <2>4. ASSUME BatchComplete(w) \/ WorkerCrash(w)
        PROVE  UNCHANGED <<status, uploaded>>
    BY <2>4 DEF BatchComplete, WorkerCrash
  <2>5. QED
    BY <1>1, <1>6, <2>1, <2>2, <2>3, <2>4 DEF WorkerStep
<1>7. ASSUME NEW j \in jobs, Expire(j)
      PROVE  UNCHANGED <<status, uploaded>>
  BY <1>7 DEF Expire
<1>8. ASSUME NEW p \in Photo, GetStuck(p) \/ GetOld(p) \/ Regenerate(p)
      PROVE  UNCHANGED <<status, uploaded>>
  BY <1>8 DEF GetStuck, GetOld, AgeTo, Regenerate
<1>9. ASSUME SweepStep
      PROVE  UNCHANGED <<status, uploaded>>
  BY <1>9 DEF SweepStep, SweepStart, SweepSend, SweepSkip, SweepLost
<1>10. CASE UNCHANGED vars
  BY <1>1, <1>10 DEF vars
<1>11. QED
  BY <1>1, <1>2, <1>3, <1>4, <1>5, <1>6, <1>7, <1>8, <1>9, <1>10 DEF Next

(* Whatever the queue, the storage and the processes do, a row lives the    *)
(* life PhotoLifecycle describes.                                           *)
THEOREM PipelineRefinesLifecycle == Spec => ImplementsLifecycle
<1>1. Init => Lifecycle!LifecycleInit
  BY LifecycleInitHolds
<1>2. Init => GarbageInv
  BY InitType, GarbageInit DEF GarbageInv
<1>3. GarbageInv /\ [Next]_vars => GarbageInv'
  BY StepType, GarbageStep DEF GarbageInv
<1>4. GarbageInv /\ [Next]_vars => [Lifecycle!LifecycleNext]_(Lifecycle!abstractVars)
  BY LifecycleStep
<1>5. QED
  BY <1>1, <1>2, <1>3, <1>4, PTL DEF Spec, ImplementsLifecycle, Lifecycle!LifecycleSpec

-----------------------------------------------------------------------------
(* A ready row describes its bytes.                                         *)

(* The deployment runs one worker process.  With two it is false: of two    *)
(* jobs of one photo the older may save last.                               *)
OneWorker == \A v, w \in Worker : v = w

\* A job that will read the bytes after every job in hand has saved.
Waiting(j) == j.state = "created" \/ (j.state = "active" /\ \A w \in Worker : ~InHand(w, j))

\* A job that read bytes which were overwritten since.
Stale(j) == j.state = "read" /\ j.seen # baked[j.photo]

EditComing(p) == \E e \in Edit : EditPhoto[e] = p /\ edit[e].stage \in {"written", "flagged"}

(* ReadyDescribesBytes is not inductive: what it says of a quiet photo was  *)
(* prepared while jobs and edits were at work.  A job with stale bytes in   *)
(* its hands is always followed by an edit or a job that reads after it has *)
(* saved; a row that describes other bytes, by an edit or a job that is not *)
(* stale.                                                                   *)
ReadsInHand == \A j \in jobs : j.state = "read" => \E w \in Worker : InHand(w, j)

StaleIsFollowed(p) ==
    (\E j \in jobs : j.photo = p /\ Stale(j))
        => EditComing(p) \/ \E j \in jobs : j.photo = p /\ Waiting(j)

ThumbIsFollowed(p) ==
    status[p] = "ready" /\ thumb[p] # baked[p]
        => EditComing(p) \/ \E j \in jobs : j.photo = p /\ Live(j) /\ ~Stale(j)

PhotoFresh(p) == stored[p] = "image" /\ p \notin lost => StaleIsFollowed(p) /\ ThumbIsFollowed(p)

FreshInv == ReadsInHand /\ \A p \in Photo : PhotoFresh(p)

(* A step that only adds jobs nobody has fetched, writes no bytes and keeps *)
(* the edit in flight, or has its job queued, or its photo lost.            *)
LEMMA FreshKept ==
    ASSUME FreshInv, NEW p \in Photo,
           jobs \subseteq jobs', \A j \in jobs' : j \in jobs \/ j.state = "created",
           batch' = batch, lost \subseteq lost',
           stored'[p] = "image" => stored[p] = "image" /\ baked'[p] = baked[p],
           status'[p] = "ready" => status[p] = "ready" /\ thumb'[p] = thumb[p],
           \/ p \in lost'
           \/ \E j \in jobs' : j.photo = p /\ j.state = "created"
           \/ EditComing(p) => EditComing(p)'
    PROVE  PhotoFresh(p)'
<1> SUFFICES ASSUME stored'[p] = "image", p \notin lost'
             PROVE  StaleIsFollowed(p)' /\ ThumbIsFollowed(p)'
  BY DEF PhotoFresh
<1>1. StaleIsFollowed(p) /\ ThumbIsFollowed(p) /\ baked'[p] = baked[p]
  BY DEF FreshInv, PhotoFresh
<1>2. CASE \E j \in jobs' : j.photo = p /\ j.state = "created"
  BY <1>2 DEF StaleIsFollowed, ThumbIsFollowed, Waiting, Live, Stale
<1>3. CASE EditComing(p) => EditComing(p)'
  <2>1. \A j \in jobs' : j.photo = p /\ Stale(j)' => j \in jobs /\ Stale(j)
    BY <1>1 DEF Stale
  <2>2. \A j \in jobs : j \in jobs' /\ (Waiting(j) => Waiting(j)')
                         /\ (j.photo = p /\ Live(j) /\ ~Stale(j) => Live(j)' /\ ~Stale(j)')
    BY <1>1 DEF Waiting, InHand, Live, Stale
  <2>3. StaleIsFollowed(p)'
    BY <1>1, <1>3, <2>1, <2>2, Zenon DEF StaleIsFollowed
  <2>4. ThumbIsFollowed(p)'
    BY <1>1, <1>3, <2>2 DEF ThumbIsFollowed
  <2> QED BY <2>3, <2>4
<1> QED BY <1>2, <1>3

LEMMA ReadsKept ==
    ASSUME FreshInv, \A j \in jobs' : j \in jobs \/ j.state # "read", batch' = batch
    PROVE  ReadsInHand'
BY DEF FreshInv, ReadsInHand, InHand

(* Steps of requests, of the clock and of the sweep.                        *)
LEMMA RequestFresh ==
    ASSUME TypeOK, FreshInv,
           jobs \subseteq jobs', \A j \in jobs' : j \in jobs \/ j.state = "created",
           batch' = batch, lost \subseteq lost', baked' = baked, stored' = stored, edit' = edit,
           \A p \in Photo : status'[p] = "ready" => status[p] = "ready" /\ thumb'[p] = thumb[p]
    PROVE  FreshInv'
<1>1. \A p \in Photo : EditComing(p) => EditComing(p)'
  BY DEF EditComing
<1>2. \A p \in Photo : PhotoFresh(p)'
  BY <1>1, FreshKept
<1>3. ReadsInHand'
  BY ReadsKept
<1> QED BY <1>2, <1>3 DEF FreshInv

LEMMA EnqueueGrows ==
    ASSUME NEW S, NEW r, Enqueue(S, r)
    PROVE  /\ jobs \subseteq jobs'
           /\ \A j \in jobs' : j \in jobs \/ j.state = "created"
           /\ \A p \in S : \E j \in jobs' : j.photo = p /\ j.state = "created"
<1>1. jobs' = jobs \cup {NewJob(NewIds(S)[p], p, 1, r) : p \in S}
  BY DEF Enqueue
<1>2. \A p \in S : LET j == NewJob(NewIds(S)[p], p, 1, r) IN j.photo = p /\ j.state = "created"
  BY DEF NewJob
<1> QED BY <1>1, <1>2

LEMMA FinalizeFresh ==
    ASSUME TypeOK, FreshInv, NEW c \in Caller, FinalizeStep(c) PROVE FreshInv'
<1> USE DEF rowVars, objectVars, queueVars, requestVars, historyVars
<1>1. CASE FinalizeInsert(c)
  <2>1. \A p \in Photo : status'[p] = "ready" => status[p] = "ready" /\ thumb'[p] = thumb[p]
    BY <1>1 DEF FinalizeInsert, TypeOK
  <2> QED BY <1>1, <2>1, RequestFresh DEF FinalizeInsert
<1>2. CASE FinalizeEnqueue(c)
  BY <1>2, EnqueueGrows, RequestFresh DEF FinalizeEnqueue
<1>3. CASE FinalizeLost(c)
  BY <1>3, RequestFresh DEF FinalizeLost
<1>4. CASE FinalizeRejected(c)
  BY <1>4, RequestFresh DEF FinalizeRejected
<1>5. ASSUME NEW S \in SUBSET Photo, FinalizeResolve(c, S) \/ FinalizeMisses(c, S) PROVE FreshInv'
  <2>1. UNCHANGED <<status, thumb, stored, baked, jobs, batch, edit, lost>>
    BY <1>5 DEF FinalizeResolve, FinalizeMisses, ResolveTo
  <2> QED BY <2>1, RequestFresh
<1> QED BY <1>1, <1>2, <1>3, <1>4, <1>5 DEF FinalizeStep

LEMMA EditFresh ==
    ASSUME TypeOK, FreshInv, NEW e \in Edit, EditStep(e) PROVE FreshInv'
<1> USE DEF rowVars, objectVars, queueVars, requestVars, historyVars
<1>1. EditPhoto[e] \in Photo /\ edit \in [Edit -> EditCall]
  BY PipelineAssumption DEF TypeOK
<1>2. CASE EditWrite(e)
  <2>1. /\ edit'[e].stage = "written" /\ \A f \in Edit : f # e => edit'[f] = edit[f]
        /\ UNCHANGED <<jobs, batch, lost, status, thumb>>
    BY <1>1, <1>2 DEF EditWrite, EditCall
  <2>2. EditComing(EditPhoto[e])'
    BY <2>1 DEF EditComing
  <2>3. \A p \in Photo : EditComing(p) => EditComing(p)'
    BY <2>1 DEF EditComing
  <2>4. PhotoFresh(EditPhoto[e])'
    BY <2>2 DEF PhotoFresh, StaleIsFollowed, ThumbIsFollowed
  <2>5. ASSUME NEW p \in Photo, p # EditPhoto[e] PROVE PhotoFresh(p)'
    <3>1. stored'[p] = stored[p] /\ baked'[p] = baked[p]
      BY <1>2, <2>5 DEF EditWrite, TypeOK
    <3> QED BY <2>1, <2>3, <3>1, FreshKept
  <2>6. ReadsInHand'
    BY <2>1, ReadsKept
  <2> QED BY <2>4, <2>5, <2>6 DEF FreshInv
<1>3. ASSUME NEW s, edit' = [edit EXCEPT ![e].stage = s], UNCHANGED <<stored, baked, batch>>,
             \A p \in Photo : status'[p] = "ready" => status[p] = "ready" /\ thumb'[p] = thumb[p],
             jobs \subseteq jobs', \A j \in jobs' : j \in jobs \/ j.state = "created", lost \subseteq lost',
             \/ s = "flagged"
             \/ edit[e].stage \notin {"written", "flagged"}
             \/ EditPhoto[e] \in lost'
             \/ \E j \in jobs' : j.photo = EditPhoto[e] /\ j.state = "created"
      PROVE  FreshInv'
  <2>1. edit'[e].stage = s /\ \A f \in Edit : f # e => edit'[f] = edit[f]
    BY <1>1, <1>3 DEF EditCall
  <2>2. ASSUME NEW p \in Photo PROVE PhotoFresh(p)'
    <3>1. \/ p \in lost'
          \/ \E j \in jobs' : j.photo = p /\ j.state = "created"
          \/ EditComing(p) => EditComing(p)'
      BY <1>3, <2>1 DEF EditComing
    <3> QED BY <1>3, <3>1, FreshKept
  <2>3. ReadsInHand'
    BY <1>3, ReadsKept
  <2> QED BY <2>2, <2>3 DEF FreshInv
<1>4. CASE EditFetch(e)
  <2>1. edit[e].stage = "idle" /\ \A f \in Edit : f # e => edit'[f] = edit[f]
    BY <1>4 DEF EditFetch
  <2>2. \A p \in Photo : EditComing(p) => EditComing(p)'
    BY <2>1 DEF EditComing
  <2>3. UNCHANGED <<status, thumb, stored, baked, jobs, batch, lost>>
    BY <1>4 DEF EditFetch
  <2>4. \A p \in Photo : PhotoFresh(p)'
    BY <2>2, <2>3, FreshKept
  <2> QED BY <2>3, <2>4, ReadsKept DEF FreshInv
<1>5. CASE EditFlag(e)
  <2>1. \A p \in Photo : status'[p] = "ready" => status[p] = "ready" /\ thumb'[p] = thumb[p]
    BY <1>1, <1>5 DEF EditFlag, TypeOK
  <2> QED BY <1>3, <1>5, <2>1 DEF EditFlag
<1>6. CASE EditEnqueue(e)
  <2>1. \E j \in jobs' : j.photo = EditPhoto[e] /\ j.state = "created"
    BY <1>6, EnqueueGrows DEF EditEnqueue
  <2> QED BY <1>3, <1>6, <2>1, EnqueueGrows DEF EditEnqueue
<1>7. CASE EditLost(e)
  <2>1. edit[e].stage = "fetched" \/ EditPhoto[e] \in lost'
    BY <1>7 DEF EditLost
  <2>2. lost \subseteq lost'
    BY <1>7 DEF EditLost
  <2> QED BY <1>3, <1>7, <2>1, <2>2 DEF EditLost
<1> QED BY <1>2, <1>4, <1>5, <1>6, <1>7 DEF EditStep

LEMMA ObjectFresh ==
    ASSUME TypeOK, GarbageInv, FreshInv, NEW q \in Photo, ClientPut(q) \/ DeleteStep(q) PROVE FreshInv'
<1> USE DEF rowVars, objectVars, queueVars, requestVars, historyVars
<1>1. CASE ClientPut(q)
  <2>1. /\ UNCHANGED <<status, thumb, jobs, batch, edit, lost, baked>> /\ uploaded[q] = "none"
        /\ \A p \in Photo : p # q => stored'[p] = stored[p]
    BY <1>1 DEF ClientPut
  <2>2. /\ status[q] # "ready" /\ \A j \in jobs : ~(j.photo = q /\ j.state = "read")
    BY <2>1 DEF GarbageInv, GarbageNeverPublished, BytesComeFromUpload
  <2>3. PhotoFresh(q)'
    BY <2>1, <2>2 DEF PhotoFresh, StaleIsFollowed, ThumbIsFollowed, Stale
  <2>4. \A p \in Photo : EditComing(p) => EditComing(p)'
    BY <2>1 DEF EditComing
  <2>5. \A p \in Photo : p # q => PhotoFresh(p)'
    BY <2>1, <2>4, FreshKept
  <2> QED BY <2>1, <2>3, <2>5, ReadsKept DEF FreshInv
<1>2. CASE DeleteStep(q)
  <2>1. UNCHANGED <<thumb, jobs, batch, edit, lost>>
    BY <1>2 DEF DeleteStep, DeleteRow, DeleteObjects, DeleteObjectsLost
  <2>2. \A p \in Photo : status'[p] = "ready" => status[p] = "ready"
    BY <1>2 DEF DeleteStep, DeleteRow, DeleteObjects, DeleteObjectsLost, TypeOK
  <2>3. \A p \in Photo : stored'[p] = "image" => stored[p] = "image" /\ baked'[p] = baked[p]
    BY <1>2 DEF DeleteStep, DeleteRow, DeleteObjects, DeleteObjectsLost, TypeOK
  <2>4. \A p \in Photo : EditComing(p) => EditComing(p)'
    BY <2>1 DEF EditComing
  <2>5. \A p \in Photo : PhotoFresh(p)'
    BY <2>1, <2>2, <2>3, <2>4, FreshKept
  <2> QED BY <2>1, <2>5, ReadsKept DEF FreshInv
<1> QED BY <1>1, <1>2

(* A job of photo q is replaced, by rows of q, and maybe saved: nothing     *)
(* changes for the other photos.                                            *)
LEMMA OthersFresh ==
    ASSUME FreshInv, NEW q, NEW p \in Photo, p # q,
           \A j \in jobs : j.photo = p => j \in jobs', \A j \in jobs' : j.photo = p => j \in jobs,
           batch' = batch, baked' = baked, stored' = stored, edit' = edit, lost \subseteq lost',
           status'[p] = status[p], thumb'[p] = thumb[p]
    PROVE  PhotoFresh(p)'
<1>1. EditComing(p)' <=> EditComing(p)
  BY DEF EditComing
<1>2. \A j \in jobs : j.photo = p => j \in jobs' /\ (Stale(j)' <=> Stale(j)) /\ (Waiting(j)' <=> Waiting(j))
  BY DEF Stale, Waiting, InHand
<1>3. \A j \in jobs' : j.photo = p => j \in jobs
  OBVIOUS
<1>4. PhotoFresh(p)
  BY DEF FreshInv
<1> QED BY <1>1, <1>2, <1>3, <1>4 DEF PhotoFresh, StaleIsFollowed, ThumbIsFollowed, Live

LEMMA HandlerFresh ==
    ASSUME TypeOK, FreshInv, NEW w \in Worker, NEW j \in jobs, HandlerStep(w, j) PROVE FreshInv'
<1> USE DEF rowVars, objectVars, queueVars, requestVars, historyVars
<1> DEFINE q == j.photo
<1>1. j \in JobRow /\ q \in Photo /\ Settle(j).state = "settled" /\ Settle(j).photo = q
  BY DEF TypeOK, JobRow, Settle
<1>2. InHand(w, j) /\ j.state \in {"active", "read"} /\ ~Waiting(j)
  BY DEF HandlerStep, HandlerGet, HandlerSave, HandlerFails, HandlerTransient, ReenqueueLost, Waiting
<1>3. batch' = batch /\ baked' = baked /\ stored' = stored /\ edit' = edit
      /\ \A p \in Photo : EditComing(p)' <=> EditComing(p)
  BY DEF HandlerStep, HandlerGet, HandlerSave, HandlerFails, HandlerTransient, ReenqueueLost, EditComing
<1>4. CASE HandlerGet(w, j)
  <2>0. PICK k : k = [j EXCEPT !.state = "read", !.seen = baked[q]]
    OBVIOUS
  <2>1. k.photo = q /\ k.state = "read" /\ k.seen = baked[q] /\ k.id = j.id
    BY <1>1, <2>0 DEF JobRow
  <2>2. jobs' = (jobs \ {j}) \cup {k} /\ UNCHANGED <<status, thumb, lost>>
    BY <1>4, <2>0 DEF HandlerGet, Replace
  <2>3. ReadsInHand'
    BY <1>2, <1>3, <2>1, <2>2 DEF FreshInv, ReadsInHand, InHand
  <2>4. \A p \in Photo : p # q => PhotoFresh(p)'
    BY <1>3, <2>1, <2>2, OthersFresh
  <2>5. ~Stale(k) /\ ~Stale(k)' /\ Live(k)
    BY <1>3, <2>1 DEF Stale, Live
  <2>6. \A i \in jobs : (Stale(i)' <=> Stale(i)) /\ (Waiting(i)' <=> Waiting(i))
    BY <1>3 DEF Stale, Waiting, InHand
  <2>7. PhotoFresh(q)'
    <3> SUFFICES ASSUME stored[q] = "image", q \notin lost PROVE StaleIsFollowed(q)' /\ ThumbIsFollowed(q)'
      BY <1>3, <2>2 DEF PhotoFresh
    <3>1. StaleIsFollowed(q)
      BY <1>1 DEF FreshInv, PhotoFresh
    <3>2. StaleIsFollowed(q)'
      BY <1>1, <1>2, <1>3, <2>2, <2>5, <2>6, <3>1 DEF StaleIsFollowed
    <3>3. ThumbIsFollowed(q)'
      BY <2>1, <2>2, <2>5 DEF ThumbIsFollowed, Live, Stale
    <3> QED BY <3>2, <3>3
  <2> QED BY <2>3, <2>4, <2>7 DEF FreshInv
<1>5. CASE HandlerSave(w, j)
  <2> DEFINE k == Settle(j)
  <2>1. /\ jobs' = (jobs \ {j}) \cup {k} /\ lost' = lost /\ j.state = "read"
        /\ status' = IF Row(q) THEN [status EXCEPT ![q] = "ready"] ELSE status
        /\ thumb' = IF Row(q) THEN [thumb EXCEPT ![q] = j.seen] ELSE thumb
    BY <1>5 DEF HandlerSave, Replace
  <2>2. k.photo = q /\ k.state = "settled"
    BY <1>1
  <2> HIDE DEF k
  <2>3. ReadsInHand'
    BY <1>3, <2>1, <2>2, ReadsKept
  <2>4. \A p \in Photo : p # q => PhotoFresh(p)'
    <3>1. \A p \in Photo : p # q => status'[p] = status[p] /\ thumb'[p] = thumb[p]
      BY <2>1
    <3> QED BY <1>3, <2>1, <2>2, <3>1, OthersFresh
  <2>5. \A i \in jobs : (Stale(i)' <=> Stale(i)) /\ (Waiting(i)' <=> Waiting(i))
    BY <1>3 DEF Stale, Waiting, InHand
  <2>6. PhotoFresh(q)'
    <3> SUFFICES ASSUME stored[q] = "image", q \notin lost PROVE StaleIsFollowed(q)' /\ ThumbIsFollowed(q)'
      BY <1>3, <2>1 DEF PhotoFresh
    <3>1. StaleIsFollowed(q)
      BY <1>1 DEF FreshInv, PhotoFresh
    <3>2. StaleIsFollowed(q)'
      BY <1>1, <1>2, <1>3, <2>1, <2>2, <2>5, <3>1 DEF StaleIsFollowed, Stale
    <3>3. CASE Stale(j)
      <4>1. EditComing(q) \/ \E i \in jobs : i.photo = q /\ Waiting(i)
        BY <3>1, <3>3 DEF StaleIsFollowed
      <4>2. \A i \in jobs : Waiting(i) => i \in jobs' /\ Live(i)' /\ ~Stale(i)'
        BY <1>2, <2>1 DEF Waiting, Live, Stale
      <4>3. ThumbIsFollowed(q)'
        BY <1>1, <1>3, <4>1, <4>2 DEF ThumbIsFollowed
      <4> QED BY <3>2, <4>3
    <3>4. CASE ~Stale(j)
      <4>1. j.seen = baked[q]
        BY <2>1, <3>4 DEF Stale
      <4>2. status'[q] = "ready" => thumb'[q] = baked'[q]
        BY <1>1, <1>3, <2>1, <4>1 DEF TypeOK, Row
      <4> QED BY <3>2, <4>2 DEF ThumbIsFollowed
    <3> QED BY <3>3, <3>4
  <2> QED BY <2>3, <2>4, <2>6 DEF FreshInv

<1>6. ASSUME \A i \in jobs : i # j => i \in jobs',
             \A i \in jobs' : i \in jobs \/ (i.photo = q /\ i.state # "read"),
             q \in lost' \/ \E i \in jobs' : i.photo = q /\ i.state = "created",
             lost \subseteq lost', UNCHANGED <<status, thumb>>
      PROVE  FreshInv'
  <2>1. ReadsInHand'
    BY <1>3, <1>6, ReadsKept
  <2>2. \A p \in Photo : p # q => PhotoFresh(p)'
    BY <1>1, <1>3, <1>6, OthersFresh
  <2>3. PhotoFresh(q)'
    BY <1>6 DEF PhotoFresh, StaleIsFollowed, ThumbIsFollowed, Waiting, Live, Stale
  <2> QED BY <2>1, <2>2, <2>3 DEF FreshInv
<1>7. CASE HandlerFails(w, j) \/ HandlerTransient(w, j)
  <2>1. RetryOrGiveUp(j) /\ UNCHANGED <<status, thumb>>
    BY <1>7 DEF HandlerFails, HandlerTransient
  <2>2. CASE MayRetry(j) /\ UNCHANGED lost
             /\ LET id == NewIds({q})[q] IN
                  jobs' = (jobs \ {j}) \cup {Settle(j), NewJob(id, q, NextAttempt(j), 0)}
    <3> DEFINE n == NewJob(NewIds({q})[q], q, NextAttempt(j), 0)
    <3>1. n.photo = q /\ n.state = "created"
      BY DEF NewJob
    <3>2. jobs' = (jobs \ {j}) \cup {Settle(j), n}
      BY <2>2
    <3> HIDE DEF n
    <3> QED BY <1>1, <1>6, <2>1, <2>2, <3>1, <3>2
  <2>3. CASE Replace(j, Settle(j)) /\ lost' = lost \cup {q}
    BY <1>1, <1>6, <2>1, <2>3 DEF Replace
  <2> QED BY <2>1, <2>2, <2>3, Zenon DEF RetryOrGiveUp
<1>8. CASE ReenqueueLost(w, j)
  BY <1>1, <1>6, <1>8 DEF ReenqueueLost, Replace
<1> QED BY <1>4, <1>5, <1>7, <1>8 DEF HandlerStep

(* The queue.  With one worker no job is read while a batch is fetched.     *)
LEMMA WorkerFresh ==
    ASSUME OneWorker, TypeOK, FreshInv, NEW w \in Worker, WorkerStep(w) PROVE FreshInv'
<1> USE DEF rowVars, objectVars, queueVars, requestVars, historyVars
<1>1. \A v \in Worker : v = w
  BY DEF OneWorker
<1>2. ASSUME UNCHANGED <<status, thumb, stored, baked, edit>>, lost \subseteq lost',
             \A j \in jobs' : j.state # "read",
             \A j \in jobs : Live(j) => \E k \in jobs' : k.photo = j.photo /\ Live(k)
      PROVE  FreshInv'
  <2>1. ASSUME NEW p \in Photo PROVE PhotoFresh(p)'
    <3>1. StaleIsFollowed(p)'
      BY <1>2 DEF StaleIsFollowed, Stale
    <3>2. EditComing(p)' <=> EditComing(p)
      BY <1>2 DEF EditComing
    <3>3. p \notin lost' /\ stored'[p] = "image" => ThumbIsFollowed(p)'
      <4>1. p \notin lost' /\ stored'[p] = "image" => ThumbIsFollowed(p)
        BY <1>2 DEF FreshInv, PhotoFresh
      <4>2. \A k \in jobs' : ~Stale(k)'
        BY <1>2 DEF Stale
      <4> QED BY <1>2, <3>2, <4>1, <4>2 DEF ThumbIsFollowed, Live
    <3> QED BY <3>1, <3>3 DEF PhotoFresh
  <2> QED BY <1>2, <2>1 DEF FreshInv, ReadsInHand
<1>3. ASSUME NEW S \in SUBSET jobs, Fetch(w, S) PROVE FreshInv'
  <2> DEFINE taken(j) == [j EXCEPT !.state = "active"]
  <2>1. \A j \in S : taken(j).photo = j.photo /\ taken(j).state = "active"
    BY DEF TypeOK, JobRow
  <2>2. jobs' = (jobs \ S) \cup {taken(j) : j \in S} /\ batch[w] = {}
        /\ UNCHANGED <<status, thumb, stored, baked, edit, lost>>
    BY <1>3 DEF Fetch
  <2> HIDE DEF taken
  <2>3. \A j \in jobs : j.state # "read"
    BY <1>1, <2>2 DEF FreshInv, ReadsInHand, InHand
  <2> QED BY <1>2, <2>1, <2>2, <2>3 DEF Live
<1>4. ASSUME NEW j \in jobs, HandlerStep(w, j) PROVE FreshInv'
  BY <1>4, HandlerFresh
<1>5. CASE BatchComplete(w)
  <2>1. /\ jobs' = {j \in jobs : ~InHand(w, j)}
        /\ \A j \in jobs : InHand(w, j) => j.state = "settled"
        /\ UNCHANGED <<status, thumb, stored, baked, edit, lost>>
    BY <1>5 DEF BatchComplete
  <2>2. \A j \in jobs : j.state # "read"
    BY <1>1, <2>1 DEF FreshInv, ReadsInHand
  <2>3. \A j \in jobs : Live(j) => j \in jobs' /\ j.photo = j.photo
    BY <2>1 DEF Live
  <2>4. \A j \in jobs : Live(j) => \E k \in jobs' : k.photo = j.photo /\ Live(k)
    BY <2>3
  <2>5. \A j \in jobs' : j.state # "read"
    BY <2>1, <2>2
  <2>6. UNCHANGED <<status, thumb, stored, baked, edit>> /\ lost \subseteq lost'
    BY <2>1
  <2> QED BY <1>2, <2>4, <2>5, <2>6
<1>6. CASE WorkerCrash(w)
  <2> DEFINE reset(j) == [j EXCEPT !.state = "active", !.seen = {}]
  <2>1. \A j \in jobs : reset(j).photo = j.photo /\ reset(j).state = "active"
    BY DEF TypeOK, JobRow
  <2>2. jobs' = {IF InHand(w, j) THEN reset(j) ELSE j : j \in jobs}
        /\ UNCHANGED <<status, thumb, stored, baked, edit, lost>>
    BY <1>6 DEF WorkerCrash
  <2> HIDE DEF reset
  <2>3. \A j \in jobs : j.state = "read" => InHand(w, j)
    BY <1>1 DEF FreshInv, ReadsInHand
  <2>4. \A j \in jobs' : j.state # "read"
    BY <2>1, <2>2, <2>3
  <2>5. \A j \in jobs : Live(j) => \E k \in jobs' : k.photo = j.photo /\ Live(k)
    BY <2>1, <2>2 DEF Live
  <2> QED BY <1>2, <2>2, <2>4, <2>5
<1> QED BY <1>3, <1>4, <1>5, <1>6 DEF WorkerStep

LEMMA ExpireFresh ==
    ASSUME TypeOK, FreshInv, NEW j \in jobs, Expire(j) PROVE FreshInv'
<1> DEFINE k == [j EXCEPT !.state = "created", !.retries = @ - 1]
           q == j.photo
<1>1. k.photo = q /\ k.state = "created" /\ j.state = "active" /\ q \in Photo
  BY DEF TypeOK, JobRow, Expire
<1>2. \/ jobs' = (jobs \ {j}) \cup {k} /\ UNCHANGED lost
      \/ jobs' = jobs \ {j} /\ lost' = lost \cup {q}
  BY DEF Expire, Replace
<1>3. UNCHANGED <<status, thumb, stored, baked, batch, edit>>
  BY DEF Expire, rowVars, objectVars, requestVars
<1> HIDE DEF k
<1>4. ReadsInHand'
  BY <1>1, <1>2, <1>3, ReadsKept
<1>5. \A p \in Photo : p # q => PhotoFresh(p)'
  BY <1>1, <1>2, <1>3, OthersFresh
<1>6. PhotoFresh(q)'
  BY <1>1, <1>2 DEF PhotoFresh, StaleIsFollowed, ThumbIsFollowed, Waiting, Live, Stale
<1> QED BY <1>4, <1>5, <1>6 DEF FreshInv

LEMMA FreshStep == OneWorker /\ GarbageInv /\ FreshInv /\ [Next]_vars => FreshInv'
<1> SUFFICES ASSUME OneWorker, GarbageInv, FreshInv, [Next]_vars PROVE FreshInv'
  OBVIOUS
<1> USE DEF rowVars, objectVars, queueVars, requestVars, historyVars
<1>0. TypeOK
  BY DEF GarbageInv
<1>1. CASE UNCHANGED vars
  BY <1>0, <1>1, RequestFresh DEF vars
<1>2. ASSUME NEW p \in Photo, GetStuck(p) \/ GetOld(p) PROVE FreshInv'
  BY <1>0, <1>2, RequestFresh DEF GetStuck, GetOld, AgeTo
<1>3. ASSUME NEW p \in Photo, Regenerate(p) PROVE FreshInv'
  BY <1>0, <1>3, EnqueueGrows, RequestFresh DEF Regenerate
<1>4. CASE SweepStep
  <2>1. CASE SweepStart \/ SweepLost
    BY <1>0, <2>1, RequestFresh DEF SweepStart, SweepLost
  <2>2. ASSUME NEW p \in Photo, SweepSend(p) PROVE FreshInv'
    BY <1>0, <2>2, EnqueueGrows, RequestFresh DEF SweepSend
  <2>3. ASSUME NEW p \in Photo, SweepSkip(p) PROVE FreshInv'
    BY <1>0, <2>3, RequestFresh DEF SweepSkip
  <2> QED BY <1>4, <2>1, <2>2, <2>3 DEF SweepStep
<1>5. ASSUME NEW p \in Photo, ClientPut(p) \/ DeleteStep(p) PROVE FreshInv'
  BY <1>0, <1>5, ObjectFresh
<1>6. ASSUME NEW c \in Caller, FinalizeStep(c) PROVE FreshInv'
  BY <1>0, <1>6, FinalizeFresh
<1>7. ASSUME NEW e \in Edit, EditStep(e) PROVE FreshInv'
  BY <1>0, <1>7, EditFresh
<1>8. ASSUME NEW w \in Worker, WorkerStep(w) PROVE FreshInv'
  BY <1>0, <1>8, WorkerFresh
<1>9. ASSUME NEW j \in jobs, Expire(j) PROVE FreshInv'
  BY <1>0, <1>9, ExpireFresh
<1> QED BY <1>1, <1>2, <1>3, <1>4, <1>5, <1>6, <1>7, <1>8, <1>9 DEF Next

(* photos/[id]/edit/route.ts:201-204, for any number of photos, edits, jobs *)
(* in a batch, retries and crashes of the one worker: a ready row nobody is *)
(* at work on describes the bytes at its key.                               *)
THEOREM ReadyAlwaysDescribesBytes == ASSUME OneWorker PROVE Spec => []ReadyDescribesBytes
<1>1. Init => GarbageInv /\ FreshInv
  <2>1. Init => FreshInv
    BY DEF Init, FreshInv, ReadsInHand, PhotoFresh
  <2> QED BY <2>1, InitType, GarbageInit DEF GarbageInv
<1>2. GarbageInv /\ FreshInv /\ [Next]_vars => (GarbageInv /\ FreshInv)'
  BY StepType, GarbageStep, FreshStep DEF GarbageInv
<1>3. FreshInv => ReadyDescribesBytes
  BY DEF FreshInv, PhotoFresh, ThumbIsFollowed, EditComing, Quiet, ReadyDescribesBytes
<1> QED BY <1>1, <1>2, <1>3, PTL DEF Spec

-----------------------------------------------------------------------------
(* A poison image keeps to itself.                                          *)

Unedited(p) == \A e \in Edit : EditPhoto[e] # p

(* PoisonStaysAlone is not inductive: bytes that arrive late could find a   *)
(* job that failed before.  None can have: until the browser has PUT them   *)
(* the photo is in no row, no request, no sweep and no queue; and, without  *)
(* a fault, every active job is in the hands of a worker, so that none      *)
(* expires.                                                                 *)
ActiveInHand == \A j \in jobs : j.state = "active" => \E w \in Worker : InHand(w, j)

NotStarted(p) ==
    /\ ~Row(p) /\ stored[p] = "none" /\ p \notin deleting /\ p \notin swept
    /\ \A c \in Caller : fin[c].stage \in {"resolved", "inserted"} => p \notin fin[c].photos

NoJobOf(p) == p \notin lost /\ \A j \in jobs : j.photo # p

FirstTry(p) == p \notin lost /\ \A j \in jobs : j.photo = p => j.attempt = 1

PhotoAlone(p) ==
    Unedited(p) => /\ uploaded[p] = "none" => NotStarted(p) /\ NoJobOf(p)
                   /\ stored[p] = "image" => FirstTry(p)

AloneInv == faults = 0 => ActiveInHand /\ \A p \in Photo : PhotoAlone(p)

(* A step that only adds first attempts of photos that have been uploaded.  *)
LEMMA AloneKept ==
    ASSUME AloneInv, faults = 0, uploaded' = uploaded, lost' = lost, batch' = batch,
           \A p \in Photo : stored'[p] = "image" /\ Unedited(p) => stored[p] = "image",
           \A p \in Photo : Unedited(p) /\ uploaded[p] = "none" => NotStarted(p)',
           \A j \in jobs' : \/ j \in jobs
                            \/ /\ j.state = "created" /\ j.attempt = 1
                               /\ Unedited(j.photo) => uploaded[j.photo] # "none"
    PROVE  AloneInv'
<1>1. ActiveInHand'
  BY DEF AloneInv, ActiveInHand, InHand
<1>2. ASSUME NEW p \in Photo PROVE PhotoAlone(p)'
  <2> SUFFICES ASSUME Unedited(p)
               PROVE  /\ uploaded[p] = "none" => NotStarted(p)' /\ NoJobOf(p)'
                      /\ stored'[p] = "image" => FirstTry(p)'
    BY DEF PhotoAlone, Unedited
  <2>1. /\ uploaded[p] = "none" => NotStarted(p) /\ NoJobOf(p)
        /\ stored[p] = "image" => FirstTry(p)
    BY DEF AloneInv, PhotoAlone
  <2> QED BY <2>1 DEF NoJobOf, FirstTry
<1> QED BY <1>1, <1>2 DEF AloneInv

LEMMA EnqueueFirst ==
    ASSUME NEW S, NEW r, Enqueue(S, r)
    PROVE  \A j \in jobs' : j \in jobs \/ (j.state = "created" /\ j.attempt = 1 /\ j.photo \in S)
<1>1. jobs' = jobs \cup {NewJob(NewIds(S)[p], p, 1, r) : p \in S}
  BY DEF Enqueue
<1>2. \A p \in S : LET j == NewJob(NewIds(S)[p], p, 1, r)
                   IN j.photo = p /\ j.state = "created" /\ j.attempt = 1
  BY DEF NewJob
<1> QED BY <1>1, <1>2

LEMMA NoFaultYet == ASSUME TypeOK, Fault PROVE faults' # 0
BY PipelineAssumption DEF TypeOK, Fault

(* Where NotStarted comes from, when nothing but a request moves.           *)
LEMMA FinalizeAlone ==
    ASSUME TypeOK, AloneInv, faults = 0, NEW c \in Caller, FinalizeStep(c), ~Fault PROVE AloneInv'
<1> USE DEF rowVars, objectVars, queueVars, requestVars, historyVars
<1>1. \A p \in Photo : Unedited(p) /\ uploaded[p] = "none" => NotStarted(p) /\ NoJobOf(p)
  BY DEF AloneInv, PhotoAlone
<1>2. CASE FinalizeInsert(c)
  <2>1. fin' = [fin EXCEPT ![c].stage = "inserted"] /\ fin[c].stage = "resolved"
        /\ status' = [p \in Photo |-> IF p \in fin[c].photos THEN "processing" ELSE status[p]]
        /\ UNCHANGED <<uploaded, stored, baked, jobs, batch, deleting, swept, lost>>
    BY <1>2 DEF FinalizeInsert
  <2>2. \A d \in Caller : fin'[d].photos = fin[d].photos /\ (d # c => fin'[d] = fin[d])
    BY <2>1 DEF TypeOK, FinalizeCall
  <2>3. \A p \in Photo : Unedited(p) /\ uploaded[p] = "none" => NotStarted(p)'
    BY <1>1, <2>1, <2>2 DEF NotStarted, Row
  <2> QED BY <2>1, <2>3, AloneKept
<1>3. ASSUME fin'[c].stage = "done", \A d \in Caller : d # c => fin'[d] = fin[d],
             UNCHANGED <<status, uploaded, stored, deleting, swept>>
      PROVE  \A p \in Photo : Unedited(p) /\ uploaded[p] = "none" => NotStarted(p)'
  BY <1>1, <1>3 DEF NotStarted, Row
<1>4. ASSUME fin' = [fin EXCEPT ![c].stage = "done"]
      PROVE  fin'[c].stage = "done" /\ \A d \in Caller : d # c => fin'[d] = fin[d]
  BY <1>4 DEF TypeOK, FinalizeCall
<1>5. CASE FinalizeRejected(c)
  <2>1. UNCHANGED <<status, uploaded, stored, jobs, batch, deleting, swept, lost>>
        /\ fin' = [fin EXCEPT ![c].stage = "done"]
    BY <1>5 DEF FinalizeRejected
  <2> QED BY <1>3, <1>4, <2>1, AloneKept
<1>6. CASE FinalizeEnqueue(c)
  <2>1. UNCHANGED <<status, uploaded, stored, batch, deleting, swept, lost>>
        /\ fin' = [fin EXCEPT ![c].stage = "done"] /\ fin[c].stage = "inserted"
    BY <1>6 DEF FinalizeEnqueue
  <2>2. fin[c].photos \subseteq Photo
    BY DEF TypeOK, FinalizeCall
  <2>3. \A j \in jobs' : j \in jobs \/ (j.state = "created" /\ j.attempt = 1 /\ j.photo \in fin[c].photos)
    BY <1>6, EnqueueFirst DEF FinalizeEnqueue
  <2>4. \A p \in fin[c].photos : Unedited(p) => uploaded[p] # "none"
    BY <1>1, <2>1, <2>2 DEF NotStarted
  <2> QED BY <1>3, <1>4, <2>1, <2>3, <2>4, AloneKept
<1>7. ASSUME NEW S \in SUBSET Photo, FinalizeResolve(c, S) PROVE AloneInv'
  <2>1. UNCHANGED <<status, uploaded, stored, jobs, batch, deleting, swept, lost>>
        /\ fin'[c].photos = Resolved(S) /\ \A d \in Caller : d # c => fin'[d] = fin[d]
    BY <1>7 DEF FinalizeResolve, ResolveTo, TypeOK
  <2>2. \A p \in Photo : Unedited(p) /\ uploaded[p] = "none" => NotStarted(p)'
    BY <1>1, <2>1 DEF NotStarted, Row, Resolved
  <2> QED BY <2>1, <2>2, AloneKept
<1> QED BY <1>2, <1>5, <1>6, <1>7 DEF FinalizeStep, FinalizeMisses, FinalizeLost

(* A step of the queue: what was a job of a photo stays one, at its first   *)
(* attempt unless its bytes do not decode.                                  *)
LEMMA AloneJobs ==
    ASSUME AloneInv, faults = 0, UNCHANGED <<uploaded, stored, fin, deleting, swept>>,
           \A p \in Photo : ~Row(p) => ~Row(p)', ActiveInHand',
           \A k \in jobs' : \E j \in jobs :
              j.photo = k.photo /\ (k.attempt = j.attempt \/ stored[k.photo] # "image"),
           \A p \in lost' : p \in lost \/ (stored[p] # "image" /\ \E j \in jobs : j.photo = p)
    PROVE  AloneInv'
<1>1. ASSUME NEW p \in Photo PROVE PhotoAlone(p)'
  <2> SUFFICES ASSUME Unedited(p)
               PROVE  /\ uploaded[p] = "none" => NotStarted(p)' /\ NoJobOf(p)'
                      /\ stored[p] = "image" => FirstTry(p)'
    BY DEF PhotoAlone, Unedited
  <2>1. /\ uploaded[p] = "none" => NotStarted(p) /\ NoJobOf(p)
        /\ stored[p] = "image" => FirstTry(p)
    BY DEF AloneInv, PhotoAlone
  <2>2. ASSUME NotStarted(p) PROVE NotStarted(p)'
    BY <2>2 DEF NotStarted
  <2>3. ASSUME NoJobOf(p) PROVE NoJobOf(p)'
    BY <2>3 DEF NoJobOf
  <2>4. ASSUME FirstTry(p), stored[p] = "image" PROVE FirstTry(p)'
    BY <2>4 DEF FirstTry
  <2> QED BY <2>1, <2>2, <2>3, <2>4
<1> QED BY <1>1 DEF AloneInv

LEMMA HandlerAlone ==
    ASSUME TypeOK, AloneInv, faults = 0, NEW w \in Worker, NEW j \in jobs, HandlerStep(w, j), ~Fault
    PROVE  AloneInv'
<1> USE DEF rowVars, objectVars, queueVars, requestVars, historyVars
<1>1. j \in JobRow /\ Settle(j).state = "settled" /\ Settle(j).photo = j.photo /\ Settle(j).attempt = j.attempt
      /\ j.photo \in Photo
  BY DEF TypeOK, JobRow, Settle
<1>2. ActiveInHand
  BY DEF AloneInv
<1>3. ASSUME NEW k, k.photo = j.photo, k.attempt = j.attempt, k.state # "active",
             jobs' = (jobs \ {j}) \cup {k}, \A p \in Photo : ~Row(p) => ~Row(p)',
             UNCHANGED <<uploaded, stored, fin, deleting, swept, batch, lost>>
      PROVE  AloneInv'
  <2>1. ActiveInHand'
    BY <1>2, <1>3 DEF ActiveInHand, InHand
  <2>2. \A k2 \in jobs' : \E j2 \in jobs : j2.photo = k2.photo /\ k2.attempt = j2.attempt
    BY <1>3
  <2> QED BY <1>3, <2>1, <2>2, AloneJobs
<1>4. CASE HandlerGet(w, j)
  <2>1. PICK k : k = [j EXCEPT !.state = "read", !.seen = baked[j.photo]]
    OBVIOUS
  <2>2. k.photo = j.photo /\ k.attempt = j.attempt /\ k.state = "read"
    BY <1>1, <2>1 DEF JobRow
  <2>3. jobs' = (jobs \ {j}) \cup {k} /\ UNCHANGED <<status, uploaded, stored, fin, deleting, swept, batch, lost>>
    BY <1>4, <2>1 DEF HandlerGet, Replace
  <2> QED BY <1>3, <2>2, <2>3 DEF Row
<1>5. CASE HandlerSave(w, j)
  <2>1. \A p \in Photo : ~Row(p) => ~Row(p)'
    BY <1>1, <1>5 DEF HandlerSave, Row
  <2>2. jobs' = (jobs \ {j}) \cup {Settle(j)} /\ UNCHANGED <<uploaded, stored, fin, deleting, swept, batch, lost>>
    BY <1>5 DEF HandlerSave, Replace
  <2> QED BY <1>1, <1>3, <2>1, <2>2
<1>6. CASE HandlerFails(w, j)
  <2>1. RetryOrGiveUp(j) /\ stored[j.photo] # "image"
        /\ UNCHANGED <<status, uploaded, stored, fin, deleting, swept, batch>>
    BY <1>6 DEF HandlerFails, Decodes
  <2>2. /\ \A k \in jobs' : k \in jobs \/ (k.photo = j.photo /\ k.state # "active")
        /\ \A p \in lost' : p \in lost \/ p = j.photo
    <3>1. CASE UNCHANGED lost
               /\ LET id == NewIds({j.photo})[j.photo] IN
                    jobs' = (jobs \ {j}) \cup {Settle(j), NewJob(id, j.photo, NextAttempt(j), 0)}
      <4> DEFINE n == NewJob(NewIds({j.photo})[j.photo], j.photo, NextAttempt(j), 0)
      <4>1. n.photo = j.photo /\ n.state = "created"
        BY DEF NewJob
      <4>2. jobs' = (jobs \ {j}) \cup {Settle(j), n}
        BY <3>1
      <4> HIDE DEF n
      <4> QED BY <1>1, <3>1, <4>1, <4>2
    <3>2. CASE Replace(j, Settle(j)) /\ lost' = lost \cup {j.photo}
      BY <1>1, <3>2 DEF Replace
    <3> QED BY <2>1, <3>1, <3>2, Zenon DEF RetryOrGiveUp
  <2>3. ActiveInHand'
    BY <1>2, <2>1, <2>2 DEF ActiveInHand, InHand
  <2>4. \A k \in jobs' : \E i \in jobs : i.photo = k.photo /\ (k.attempt = i.attempt \/ stored[k.photo] # "image")
    BY <2>1, <2>2
  <2> QED BY <2>1, <2>2, <2>3, <2>4, AloneJobs DEF Row
<1> QED BY <1>4, <1>5, <1>6 DEF HandlerStep, HandlerTransient, ReenqueueLost

LEMMA WorkerAlone ==
    ASSUME TypeOK, AloneInv, faults = 0, NEW w \in Worker, WorkerStep(w), ~Fault PROVE AloneInv'
<1> USE DEF rowVars, objectVars, queueVars, requestVars, historyVars
<1>1. ActiveInHand /\ batch \in [Worker -> SUBSET Job]
  BY DEF AloneInv, TypeOK
<1>2. ASSUME NEW S \in SUBSET jobs, Fetch(w, S) PROVE AloneInv'
  <2> DEFINE taken(j) == [j EXCEPT !.state = "active"]
  <2>1. \A j \in S : taken(j).photo = j.photo /\ taken(j).attempt = j.attempt /\ taken(j).id = j.id
    BY DEF TypeOK, JobRow
  <2>2. /\ jobs' = (jobs \ S) \cup {taken(j) : j \in S} /\ batch[w] = {}
        /\ batch' = [batch EXCEPT ![w] = {j.id : j \in S}]
        /\ UNCHANGED <<status, uploaded, stored, fin, deleting, swept, lost>>
    BY <1>2 DEF Fetch
  <2> HIDE DEF taken
  <2>3. ActiveInHand'
    <3> SUFFICES ASSUME NEW k \in jobs', k.state = "active" PROVE \E v \in Worker : k.id \in batch'[v]
      BY DEF ActiveInHand, InHand
    <3>1. CASE k \in jobs
      <4>1. PICK v \in Worker : k.id \in batch[v]
        BY <1>1, <3>1 DEF ActiveInHand, InHand
      <4>2. v # w
        BY <2>2, <4>1
      <4> QED BY <1>1, <2>2, <4>1, <4>2
    <3>2. CASE \E j \in S : k = taken(j)
      BY <1>1, <2>1, <2>2, <3>2
    <3> QED BY <2>2, <3>1, <3>2
  <2>4. \A k \in jobs' : \E j \in jobs : j.photo = k.photo /\ k.attempt = j.attempt
    BY <2>1, <2>2
  <2> QED BY <2>2, <2>3, <2>4, AloneJobs DEF Row
<1>3. ASSUME NEW j \in jobs, HandlerStep(w, j) PROVE AloneInv'
  BY <1>3, HandlerAlone
<1>4. CASE BatchComplete(w)
  <2>1. /\ jobs' = {j \in jobs : ~InHand(w, j)} /\ batch' = [batch EXCEPT ![w] = {}]
        /\ \A j \in jobs : InHand(w, j) => j.state = "settled"
        /\ UNCHANGED <<status, uploaded, stored, fin, deleting, swept, lost>>
    BY <1>4 DEF BatchComplete
  <2>2. ActiveInHand'
    <3> SUFFICES ASSUME NEW k \in jobs', k.state = "active" PROVE \E v \in Worker : k.id \in batch'[v]
      BY DEF ActiveInHand, InHand
    <3>1. PICK v \in Worker : k.id \in batch[v]
      BY <1>1, <2>1 DEF ActiveInHand, InHand
    <3>2. v # w
      BY <2>1, <3>1 DEF InHand
    <3> QED BY <1>1, <2>1, <3>1, <3>2
  <2>3. \A k \in jobs' : \E j \in jobs : j.photo = k.photo /\ k.attempt = j.attempt
    BY <2>1
  <2> QED BY <2>1, <2>2, <2>3, AloneJobs DEF Row
<1> QED BY <1>2, <1>3, <1>4 DEF WorkerStep, WorkerCrash

LEMMA ObjectAlone ==
    ASSUME TypeOK, AloneInv, faults = 0, NEW q \in Photo, ClientPut(q) \/ DeleteStep(q), ~Fault PROVE AloneInv'
<1> USE DEF rowVars, objectVars, queueVars, requestVars, historyVars
<1>1. \A p \in Photo : Unedited(p) /\ uploaded[p] = "none" => NotStarted(p) /\ NoJobOf(p)
  BY DEF AloneInv, PhotoAlone
<1>2. CASE ClientPut(q)
  <2>1. /\ uploaded[q] = "none" /\ UNCHANGED <<status, jobs, batch, fin, deleting, swept, lost>>
        /\ uploaded'[q] # "none" /\ \A p \in Photo : p # q => stored'[p] = stored[p] /\ uploaded'[p] = uploaded[p]
    BY <1>2 DEF ClientPut, TypeOK
  <2>2. ActiveInHand'
    BY <2>1 DEF AloneInv, ActiveInHand, InHand
  <2>3. PhotoAlone(q)'
    BY <1>1, <2>1 DEF PhotoAlone, Unedited, NoJobOf, FirstTry
  <2>4. ASSUME NEW p \in Photo, p # q PROVE PhotoAlone(p)'
    <3>1. PhotoAlone(p)
      BY DEF AloneInv
    <3> QED BY <2>1, <2>4, <3>1 DEF PhotoAlone, Unedited, NotStarted, NoJobOf, FirstTry, Row
  <2> QED BY <2>2, <2>3, <2>4 DEF AloneInv
<1>3. CASE DeleteStep(q)
  <2>1. UNCHANGED <<uploaded, jobs, batch, fin, swept, lost>>
    BY <1>3 DEF DeleteStep, DeleteRow, DeleteObjects, DeleteObjectsLost
  <2>2. \A p \in Photo : (stored'[p] = "image" => stored[p] = "image") /\ (stored[p] = "none" => stored'[p] = "none")
    BY <1>3 DEF DeleteStep, DeleteRow, DeleteObjects, DeleteObjectsLost, TypeOK
  <2>3. \A p \in Photo : ~Row(p) => ~Row(p)' /\ (p \notin deleting => p \notin deleting')
    BY <1>3 DEF DeleteStep, DeleteRow, DeleteObjects, DeleteObjectsLost, TypeOK, Row
  <2>4. \A p \in Photo : Unedited(p) /\ uploaded[p] = "none" => NotStarted(p)'
    BY <1>1, <2>1, <2>2, <2>3 DEF NotStarted
  <2> QED BY <2>1, <2>2, <2>4, AloneKept
<1> QED BY <1>2, <1>3

LEMMA EditAlone ==
    ASSUME TypeOK, AloneInv, faults = 0, NEW e \in Edit, EditStep(e), ~Fault PROVE AloneInv'
<1> USE DEF rowVars, objectVars, queueVars, requestVars, historyVars
<1>1. \A p \in Photo : Unedited(p) => p # EditPhoto[e]
  BY DEF Unedited
<1>2. UNCHANGED <<uploaded, batch, fin, deleting, swept, lost>>
  BY DEF EditStep, EditFetch, EditWrite, EditFlag, EditEnqueue, EditLost
<1>3. \A p \in Photo : Unedited(p) => status'[p] = status[p] /\ stored'[p] = stored[p]
  BY <1>1 DEF EditStep, EditFetch, EditWrite, EditFlag, EditEnqueue, EditLost, TypeOK
<1>4. \A j \in jobs' : j \in jobs \/ (j.state = "created" /\ j.attempt = 1 /\ j.photo = EditPhoto[e])
  BY EnqueueFirst DEF EditStep, EditFetch, EditWrite, EditFlag, EditEnqueue, EditLost
<1>5. \A p \in Photo : Unedited(p) /\ uploaded[p] = "none" => NotStarted(p)'
  BY <1>2, <1>3 DEF AloneInv, PhotoAlone, NotStarted, Row
<1>6. ~Unedited(EditPhoto[e])
  BY DEF Unedited
<1> QED BY <1>2, <1>3, <1>4, <1>5, <1>6, AloneKept

LEMMA AloneStep == TypeOK /\ AloneInv /\ [Next]_vars => AloneInv'
<1> SUFFICES ASSUME TypeOK, AloneInv, [Next]_vars, faults' = 0 PROVE AloneInv'
  BY DEF AloneInv
<1> USE DEF rowVars, objectVars, queueVars, requestVars, historyVars
<1>1. ~Fault
  BY NoFaultYet
<1>2. faults = 0
  <2>1. UNCHANGED faults
    BY <1>1 DEF Next, vars, ClientPut, DeleteStep, DeleteRow, DeleteObjects, DeleteObjectsLost, GetStuck, GetOld,
          AgeTo, Regenerate, FinalizeStep, FinalizeResolve, FinalizeMisses, FinalizeInsert, FinalizeRejected,
          FinalizeEnqueue, FinalizeLost, EditStep, EditFetch, EditWrite, EditFlag, EditEnqueue, EditLost,
          WorkerStep, Fetch, HandlerStep, HandlerGet, HandlerSave, HandlerFails, HandlerTransient, ReenqueueLost,
          BatchComplete, WorkerCrash, Expire, SweepStep, SweepStart, SweepSend, SweepSkip, SweepLost
  <2> QED BY <2>1
<1>3. \A p \in Photo : Unedited(p) /\ uploaded[p] = "none" => NotStarted(p) /\ NoJobOf(p)
  BY <1>2 DEF AloneInv, PhotoAlone
<1>4. ASSUME UNCHANGED <<status, uploaded, stored, jobs, batch, fin, deleting, swept, lost>> PROVE AloneInv'
  BY <1>2, <1>3, <1>4, AloneKept DEF NotStarted, Row
<1>5. CASE UNCHANGED vars
  BY <1>4, <1>5 DEF vars
<1>6. ASSUME NEW p \in Photo, ClientPut(p) \/ DeleteStep(p) PROVE AloneInv'
  BY <1>1, <1>2, <1>6, ObjectAlone
<1>7. ASSUME NEW p \in Photo, GetStuck(p) \/ GetOld(p) PROVE AloneInv'
  BY <1>4, <1>7 DEF GetStuck, GetOld, AgeTo
<1>8. ASSUME NEW p \in Photo, Regenerate(p) PROVE AloneInv'
  <2>1. UNCHANGED <<status, uploaded, stored, batch, fin, deleting, swept, lost>> /\ stored[p] # "none"
    BY <1>8 DEF Regenerate
  <2>2. \A j \in jobs' : j \in jobs \/ (j.state = "created" /\ j.attempt = 1 /\ j.photo = p)
    BY <1>8, EnqueueFirst DEF Regenerate
  <2> QED BY <1>2, <1>3, <2>1, <2>2, AloneKept DEF NotStarted, Row
<1>9. CASE SweepStep
  <2>1. CASE SweepStart
    <3>1. swept' = {p \in Photo : Stuck(p)} /\ UNCHANGED <<status, uploaded, stored, jobs, batch, fin, deleting, lost>>
      BY <2>1 DEF SweepStart
    <3>2. \A p \in Photo : ~Row(p) => p \notin swept'
      BY <3>1 DEF Row, Stuck
    <3> QED BY <1>2, <1>3, <3>1, <3>2, AloneKept DEF NotStarted, Row
  <2>2. ASSUME NEW p \in Photo, SweepSend(p) PROVE AloneInv'
    <3>1. UNCHANGED <<status, uploaded, stored, batch, fin, deleting, lost>> /\ stored[p] # "none" /\ swept' \subseteq swept
      BY <2>2 DEF SweepSend
    <3>2. \A j \in jobs' : j \in jobs \/ (j.state = "created" /\ j.attempt = 1 /\ j.photo = p)
      BY <2>2, EnqueueFirst DEF SweepSend
    <3> QED BY <1>2, <1>3, <3>1, <3>2, AloneKept DEF NotStarted, Row
  <2>3. ASSUME NEW p \in Photo, SweepSkip(p) PROVE AloneInv'
    <3>1. UNCHANGED <<status, uploaded, stored, jobs, batch, fin, deleting, lost>> /\ swept' \subseteq swept
      BY <2>3 DEF SweepSkip
    <3> QED BY <1>2, <1>3, <3>1, AloneKept DEF NotStarted, Row
  <2> QED BY <1>1, <1>9, <2>1, <2>2, <2>3 DEF SweepStep, SweepLost
<1>10. ASSUME NEW c \in Caller, FinalizeStep(c) PROVE AloneInv'
  BY <1>1, <1>2, <1>10, FinalizeAlone
<1>11. ASSUME NEW e \in Edit, EditStep(e) PROVE AloneInv'
  BY <1>1, <1>2, <1>11, EditAlone
<1>12. ASSUME NEW w \in Worker, WorkerStep(w) PROVE AloneInv'
  BY <1>1, <1>2, <1>12, WorkerAlone
<1>13. ASSUME NEW j \in jobs, Expire(j) PROVE AloneInv'
  BY <1>2, <1>13 DEF Expire, AloneInv, ActiveInHand
<1> QED BY <1>5, <1>6, <1>7, <1>8, <1>9, <1>10, <1>11, <1>12, <1>13 DEF Next

(* workers/index.ts, F6, for any number of photos in a batch, requests and  *)
(* workers: without a fault a photo whose bytes decode is never retried and *)
(* never given up, whatever its neighbours in the batch are.                *)
THEOREM PoisonAlwaysStaysAlone == Spec => []PoisonStaysAlone
<1>1. Init => TypeOK /\ AloneInv
  <2>1. Init => AloneInv
    BY DEF Init, AloneInv, ActiveInHand, PhotoAlone, NotStarted, NoJobOf, Row
  <2> QED BY <2>1, InitType
<1>2. TypeOK /\ AloneInv /\ [Next]_vars => (TypeOK /\ AloneInv)'
  BY StepType, AloneStep
<1>3. AloneInv => PoisonStaysAlone
  BY DEF AloneInv, PhotoAlone, Unedited, FirstTry, PoisonStaysAlone
<1> QED BY <1>1, <1>2, <1>3, PTL DEF Spec
=============================================================================
