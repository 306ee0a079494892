---------------------------- MODULE PhotoPipeline ----------------------------
(***************************************************************************)
(* The life of a photo between three stores that share no transaction: the *)
(* `photos` table, the MinIO bucket and the pg-boss derivatives queue.     *)
(*                                                                         *)
(* The browser PUTs bytes to a presigned URL, POST /api/upload/finalize    *)
(* inserts the row and enqueues a derivative job, a worker reads the bytes *)
(* back and flips the row to "ready".  POST /api/photos/[id]/edit rewrites *)
(* the bytes in place and sends the row round again; deletePhotoAction     *)
(* drops the row, then the bytes; a ten-minute sweep re-enqueues rows that *)
(* stay in "processing".  Every handler is cut where it awaits a store, so *)
(* the requests, the workers and the sweep interleave as they do in        *)
(* production, and a process may die at each cut.                          *)
(*                                                                         *)
(* Bytes are abstracted to the set of edits baked into them: the upload is *)
(* {}, an edit e turns content c into c \cup {e}.  That is enough to say   *)
(* which bytes a thumbhash describes and which edit was overwritten.       *)
(***************************************************************************)
EXTENDS Integers, FiniteSets

CONSTANTS
    Photo,          \* photo ids
    Caller,         \* finalize requests; each runs once
    Edit,           \* edit requests; each runs once
    EditPhoto,      \* EditPhoto[e]: the photo edit request e names
    Worker,         \* worker processes
    Job,            \* queue row ids: a bound on the jobs alive at a time
    Reserve,        \* ids producers leave free for the workers' re-enqueues
    BatchSize,      \* WORKER_BATCH_SIZE
    MaxAttempts,    \* DERIVATIVES_MAX_ATTEMPTS
    RetryLimit,     \* pg-boss redeliveries of a job whose worker died
    MaxFiles,       \* settings.uploads.max_files_per_album
    MaxFaults,      \* bound on crashes and failed calls
    MaxRegens,      \* bound on manual regenerations
    Aging           \* bound on time: the photos it may run out for

ASSUME PipelineAssumption ==
    /\ EditPhoto \in [Edit -> Photo]
    /\ BatchSize \in Nat \ {0}
    /\ MaxAttempts \in Nat \ {0}
    /\ Reserve \in Nat
    /\ RetryLimit \in Nat
    /\ MaxFiles \in Nat
    /\ MaxFaults \in Nat
    /\ MaxRegens \in Nat
    /\ Aging \subseteq Photo

VARIABLES
    \* photos rows
    status,         \* status[p]: "absent" | "processing" | "ready"
    age,            \* age[p]: time since created_at, in the sweep's classes
    thumb,          \* thumb[p]: the content the last worker pass described
    \* MinIO, key albums/<album>/<photo>/original.<ext>
    uploaded,       \* uploaded[p]: what the browser PUT
    stored,         \* stored[p]: what the key holds now
    baked,          \* baked[p]: the edits in the stored image
    \* pg-boss
    jobs,           \* the queue's rows
    batch,          \* batch[w]: ids of the jobs worker w has in hand
    \* requests and sweeps in flight
    fin,            \* fin[c]: finalize request c
    edit,           \* edit[e]: edit request e
    deleting,       \* photos whose row is gone and whose bytes are still to go
    swept,          \* rows the running sweep selected and has not handled yet
    \* history and budgets
    lost,           \* photos one of whose enqueues or jobs was lost or given up
    faults,
    regens

rowVars == <<status, age, thumb>>
objectVars == <<uploaded, stored, baked>>
queueVars == <<jobs, batch>>
requestVars == <<fin, edit, deleting, swept>>
historyVars == <<lost, faults, regens>>
vars == <<status, age, thumb, uploaded, stored, baked, jobs, batch,
          fin, edit, deleting, swept, lost, faults, regens>>

Status == {"absent", "processing", "ready"}
Age == {"fresh", "stuck", "old"}
Upload == {"none", "image", "garbage"}
Content == SUBSET Edit

(* A queue row: the job's data, the native retries it has left, and how far *)
(* its handler got.  "settled" is a handler that returned inside a batch    *)
(* that has not: pg-boss still holds the row as active.                     *)
JobRow == [id : Job, photo : Photo, attempt : 1..MaxAttempts,
           retries : 0..RetryLimit,
           state : {"created", "active", "read", "settled"}, seen : Content]

FinalizeCall == [stage : {"idle", "resolved", "inserted", "done"},
                 photos : SUBSET Photo]
EditCall == [stage : {"idle", "fetched", "written", "flagged", "acked", "failed"},
             base : Content]

TypeOK ==
    /\ status \in [Photo -> Status]
    /\ age \in [Photo -> Age]
    /\ thumb \in [Photo -> Content]
    /\ uploaded \in [Photo -> Upload]
    /\ stored \in [Photo -> Upload]
    /\ baked \in [Photo -> Content]
    /\ jobs \subseteq JobRow
    /\ batch \in [Worker -> SUBSET Job]
    /\ fin \in [Caller -> FinalizeCall]
    /\ edit \in [Edit -> EditCall]
    /\ deleting \subseteq Photo
    /\ swept \subseteq Photo
    /\ lost \subseteq Photo
    /\ faults \in 0..MaxFaults
    /\ regens \in 0..MaxRegens

Init ==
    /\ status = [p \in Photo |-> "absent"]
    /\ age = [p \in Photo |-> "fresh"]
    /\ thumb = [p \in Photo |-> {}]
    /\ uploaded = [p \in Photo |-> "none"]
    /\ stored = [p \in Photo |-> "none"]
    /\ baked = [p \in Photo |-> {}]
    /\ jobs = {}
    /\ batch = [w \in Worker |-> {}]
    /\ fin = [c \in Caller |-> [stage |-> "idle", photos |-> {}]]
    /\ edit = [e \in Edit |-> [stage |-> "idle", base |-> {}]]
    /\ deleting = {}
    /\ swept = {}
    /\ lost = {}
    /\ faults = 0
    /\ regens = 0

Row(p) == status[p] # "absent"
Rows == {p \in Photo : Row(p)}

(* A crash, an expired deadline or a refused call, up to the bound.         *)
Fault ==
    /\ faults < MaxFaults
    /\ faults' = faults + 1

-----------------------------------------------------------------------------
(* The queue.                                                               *)

FreeIds == Job \ {j.id : j \in jobs}
Allocations(S) == {f \in [S -> FreeIds] : \A p, q \in S : f[p] = f[q] => p = q}
NewIds(S) == CHOOSE f \in Allocations(S) : TRUE

NewJob(id, p, n, r) ==
    [id |-> id, photo |-> p, attempt |-> n, retries |-> r,
     state |-> "created", seen |-> {}]

(* boss.send of one job, boss.insert of several: all of S, or none.         *)
Enqueue(S, r) ==
    /\ Cardinality(FreeIds) >= Reserve + Cardinality(S)
    /\ Allocations(S) # {}
    /\ jobs' = jobs \cup {NewJob(NewIds(S)[p], p, 1, r) : p \in S}

Live(j) == j.state \in {"created", "active", "read"}
InHand(w, j) == j.id \in batch[w]

-----------------------------------------------------------------------------
(* Upload and finalize.                                                     *)

(* The browser's PUT.  Presign checks the declared content type only, so    *)
(* the bytes may be anything.                                               *)
ClientPut(p) ==
    /\ uploaded[p] = "none"
    /\ \E kind \in {"image", "garbage"} :
        /\ uploaded' = [uploaded EXCEPT ![p] = kind]
        /\ stored' = [stored EXCEPT ![p] = kind]
    /\ UNCHANGED <<rowVars, baked, queueVars, requestVars, historyVars>>

(* The count check of finalize, against the rows the request reads.         *)
FitsAlbum(S) == Cardinality(Rows) + Cardinality(S) <= MaxFiles

(* discoverOriginal drops the photos with no object behind them ...         *)
Resolved(S) == {p \in S : stored[p] # "none"}

ResolveTo(c, S, T) ==
    /\ fin[c].stage = "idle"
    /\ S # {}
    /\ FitsAlbum(S)
    /\ fin' = [fin EXCEPT ![c] =
                [stage |-> IF T = {} THEN "done" ELSE "resolved", photos |-> T]]
    /\ UNCHANGED <<rowVars, objectVars, queueVars, edit, deleting, swept,
                   lost, regens>>

FinalizeResolve(c, S) == ResolveTo(c, S, Resolved(S)) /\ UNCHANGED faults

(* ... and those whose HEAD failed for any other reason.                    *)
FinalizeMisses(c, S) == Fault /\ \E T \in SUBSET Resolved(S) \ {Resolved(S)} : ResolveTo(c, S, T)

(* One transaction: a primary-key conflict rejects the whole batch.         *)
FinalizeInsert(c) ==
    /\ fin[c].stage = "resolved"
    /\ \A p \in fin[c].photos : ~Row(p)
    /\ status' = [p \in Photo |-> IF p \in fin[c].photos THEN "processing" ELSE status[p]]
    /\ age' = [p \in Photo |-> IF p \in fin[c].photos THEN "fresh" ELSE age[p]]
    /\ thumb' = [p \in Photo |-> IF p \in fin[c].photos THEN {} ELSE thumb[p]]
    /\ fin' = [fin EXCEPT ![c].stage = "inserted"]
    /\ UNCHANGED <<objectVars, queueVars, edit, deleting, swept, historyVars>>

FinalizeRejected(c) ==
    /\ fin[c].stage = "resolved"
    /\ \E p \in fin[c].photos : Row(p)
    /\ fin' = [fin EXCEPT ![c].stage = "done"]
    /\ UNCHANGED <<rowVars, objectVars, queueVars, edit, deleting, swept,
                   historyVars>>

\* Mutant: one boss.send for the request instead of one job per photo.
FinalizeEnqueueFirst(c) ==
    /\ fin[c].stage = "inserted"
    /\ \E p \in fin[c].photos : Enqueue({p}, RetryLimit)
    /\ fin' = [fin EXCEPT ![c].stage = "done"]
    /\ UNCHANGED <<rowVars, objectVars, batch, edit, deleting, swept, historyVars>>

FinalizeEnqueue(c) ==
    /\ fin[c].stage = "inserted"
    /\ Enqueue(fin[c].photos, RetryLimit)
    /\ fin' = [fin EXCEPT ![c].stage = "done"]
    /\ UNCHANGED <<rowVars, objectVars, batch, edit, deleting, swept, historyVars>>

(* The request dies, or boss.insert throws: the rows stay, the jobs do not  *)
(* exist.                                                                   *)
FinalizeLost(c) ==
    /\ Fault
    /\ fin[c].stage \in {"resolved", "inserted"}
    /\ lost' = IF fin[c].stage = "inserted" THEN lost \cup fin[c].photos ELSE lost
    /\ fin' = [fin EXCEPT ![c].stage = "done"]
    /\ UNCHANGED <<rowVars, objectVars, queueVars, edit, deleting, swept, regens>>

-----------------------------------------------------------------------------
(* Edit: read the bytes, write them back to the same key, flag the row,     *)
(* enqueue.  Four awaits, no lock, no version check.                        *)

EditFetch(e) ==
    LET p == EditPhoto[e] IN
    /\ edit[e].stage = "idle"
    /\ Row(p)
    /\ stored[p] = "image"
    /\ edit' = [edit EXCEPT ![e] = [stage |-> "fetched", base |-> baked[p]]]
    /\ UNCHANGED <<rowVars, objectVars, queueVars, fin, deleting, swept, historyVars>>

EditWrite(e) ==
    LET p == EditPhoto[e] IN
    /\ edit[e].stage = "fetched"
    /\ stored' = [stored EXCEPT ![p] = "image"]
    /\ baked' = [baked EXCEPT ![p] = edit[e].base \cup {e}]
    /\ edit' = [edit EXCEPT ![e].stage = "written"]
    /\ UNCHANGED <<rowVars, uploaded, queueVars, fin, deleting, swept, historyVars>>

\* Mutant: the edit answers once the bytes are written and leaves the row alone.
EditFlagNothing(e) ==
    /\ edit[e].stage = "written"
    /\ edit' = [edit EXCEPT ![e].stage = "acked"]
    /\ UNCHANGED <<rowVars, objectVars, queueVars, fin, deleting, swept, historyVars>>

(* UPDATE ... WHERE id: no row, no effect.                                  *)
EditFlag(e) ==
    LET p == EditPhoto[e] IN
    /\ edit[e].stage = "written"
    /\ status' = IF Row(p) THEN [status EXCEPT ![p] = "processing"] ELSE status
    /\ edit' = [edit EXCEPT ![e].stage = "flagged"]
    /\ UNCHANGED <<age, thumb, objectVars, queueVars, fin, deleting, swept,
                   historyVars>>

EditEnqueue(e) ==
    /\ edit[e].stage = "flagged"
    /\ Enqueue({EditPhoto[e]}, RetryLimit)
    /\ edit' = [edit EXCEPT ![e].stage = "acked"]
    /\ UNCHANGED <<rowVars, objectVars, batch, fin, deleting, swept, historyVars>>

(* The request dies, a storage or database call throws, or a quota refuses. *)
EditLost(e) ==
    /\ Fault
    /\ edit[e].stage \in {"fetched", "written", "flagged"}
    /\ lost' = IF edit[e].stage = "fetched" THEN lost ELSE lost \cup {EditPhoto[e]}
    /\ edit' = [edit EXCEPT ![e].stage = "failed"]
    /\ UNCHANGED <<rowVars, objectVars, queueVars, fin, deleting, swept, regens>>

-----------------------------------------------------------------------------
(* deletePhotoAction: the row first, the objects after it.                  *)

DeleteRow(p) ==
    /\ Row(p)
    /\ status' = [status EXCEPT ![p] = "absent"]
    /\ deleting' = deleting \cup {p}
    /\ UNCHANGED <<age, thumb, objectVars, queueVars, fin, edit, swept, historyVars>>

DeleteObjects(p) ==
    /\ p \in deleting
    /\ deleting' = deleting \ {p}
    /\ stored' = [stored EXCEPT ![p] = "none"]
    /\ baked' = [baked EXCEPT ![p] = {}]
    /\ UNCHANGED <<rowVars, uploaded, queueVars, fin, edit, swept, historyVars>>

(* deleteObjectsByPrefix swallows a failed batch; a crash has the same end. *)
DeleteObjectsLost(p) ==
    /\ Fault
    /\ p \in deleting
    /\ deleting' = deleting \ {p}
    /\ UNCHANGED <<rowVars, objectVars, queueVars, fin, edit, swept, lost, regens>>

-----------------------------------------------------------------------------
(* The derivatives worker.  pg-boss hands it up to BatchSize jobs and polls *)
(* again only when the whole batch has returned.                            *)

Fetch(w, S) ==
    /\ batch[w] = {}
    /\ S # {} /\ Cardinality(S) <= BatchSize
    /\ S \subseteq {j \in jobs : j.state = "created"}
    /\ jobs' = (jobs \ S) \cup {[j EXCEPT !.state = "active"] : j \in S}
    /\ batch' = [batch EXCEPT ![w] = {j.id : j \in S}]
    /\ UNCHANGED <<rowVars, objectVars, requestVars, historyVars>>

Replace(j, k) == jobs' = (jobs \ {j}) \cup {k}
Settle(j) == [j EXCEPT !.state = "settled"]

\* Mutant: whatever was uploaded is accepted, as before F39.
DecodesAnything(p) == stored[p] # "none"

(* readDimensions throws on bytes sharp cannot read.                        *)
Decodes(p) == stored[p] = "image"

HandlerGet(w, j) ==
    /\ InHand(w, j)
    /\ j.state = "active"
    /\ Decodes(j.photo)
    /\ Replace(j, [j EXCEPT !.state = "read", !.seen = baked[j.photo]])
    /\ UNCHANGED <<rowVars, objectVars, batch, requestVars, historyVars>>

\* Mutant: the metadata is upserted, so a deleted row comes back.
HandlerUpserts(w, j) ==
    /\ InHand(w, j)
    /\ j.state = "read"
    /\ status' = [status EXCEPT ![j.photo] = "ready"]
    /\ thumb' = [thumb EXCEPT ![j.photo] = j.seen]
    /\ Replace(j, Settle(j))
    /\ UNCHANGED <<age, objectVars, batch, requestVars, historyVars>>

(* finalizePhotoMetadata: UPDATE ... WHERE id, whatever has happened to the *)
(* row or to the bytes since they were read.                                *)
HandlerSave(w, j) ==
    /\ InHand(w, j)
    /\ j.state = "read"
    /\ status' = IF Row(j.photo) THEN [status EXCEPT ![j.photo] = "ready"] ELSE status
    /\ thumb' = IF Row(j.photo) THEN [thumb EXCEPT ![j.photo] = j.seen] ELSE thumb
    /\ Replace(j, Settle(j))
    /\ UNCHANGED <<age, objectVars, batch, requestVars, historyVars>>

\* Mutant: the re-enqueue forgets to carry attempt + 1.
SameAttempt(j) == j.attempt

NextAttempt(j) == j.attempt + 1

\* Mutant: the cap is off by one.
MayRetryOnceMore(j) == j.attempt <= MaxAttempts

MayRetry(j) == j.attempt < MaxAttempts

(* The catch block: re-enqueue this job alone with attempt + 1, or give up. *)
RetryOrGiveUp(j) ==
    \/ /\ MayRetry(j)
       /\ Allocations({j.photo}) # {}
       /\ LET id == NewIds({j.photo})[j.photo] IN
            jobs' = (jobs \ {j}) \cup {Settle(j), NewJob(id, j.photo, NextAttempt(j), 0)}
       /\ UNCHANGED lost
    \/ /\ ~MayRetry(j)
       /\ Replace(j, Settle(j))
       /\ lost' = lost \cup {j.photo}

\* Mutant: the failure is logged and the job completes.
HandlerFailsQuietly(w, j) ==
    /\ InHand(w, j)
    /\ j.state = "active"
    /\ ~Decodes(j.photo)
    /\ Replace(j, Settle(j))
    /\ UNCHANGED <<rowVars, objectVars, batch, requestVars, historyVars>>

\* Mutant: the first rejection is re-thrown, as before F6: pg-boss fails and
\* retries every job of the batch.
HandlerFailsBatch(w, j) ==
    /\ InHand(w, j)
    /\ j.state = "active"
    /\ ~Decodes(j.photo)
    /\ jobs' = {k \in jobs : ~InHand(w, k)} \cup
                {[k EXCEPT !.state = "created", !.seen = {}, !.attempt = NextAttempt(k)]
                    : k \in {k \in jobs : InHand(w, k) /\ MayRetry(k)}}
    /\ batch' = [batch EXCEPT ![w] = {}]
    /\ UNCHANGED <<rowVars, objectVars, requestVars, historyVars>>

(* No object at the key, or bytes that do not decode.                       *)
HandlerFails(w, j) ==
    /\ InHand(w, j)
    /\ j.state = "active"
    /\ ~Decodes(j.photo)
    /\ RetryOrGiveUp(j)
    /\ UNCHANGED <<rowVars, objectVars, batch, requestVars, faults, regens>>

(* MinIO or the database fails under a handler that had good bytes.         *)
HandlerTransient(w, j) ==
    /\ Fault
    /\ InHand(w, j)
    /\ j.state \in {"active", "read"}
    /\ RetryOrGiveUp(j)
    /\ UNCHANGED <<rowVars, objectVars, batch, requestVars, regens>>

(* The handler fails and so does the send of its successor (logged only).   *)
ReenqueueLost(w, j) ==
    /\ Fault
    /\ InHand(w, j)
    /\ j.state \in {"active", "read"}
    /\ Replace(j, Settle(j))
    /\ lost' = lost \cup {j.photo}
    /\ UNCHANGED <<rowVars, objectVars, batch, requestVars, regens>>

(* Promise.allSettled: the batch completes when every handler returned.     *)
BatchComplete(w) ==
    /\ batch[w] # {}
    /\ \A j \in jobs : InHand(w, j) => j.state = "settled"
    /\ jobs' = {j \in jobs : ~InHand(w, j)}
    /\ batch' = [batch EXCEPT ![w] = {}]
    /\ UNCHANGED <<rowVars, objectVars, requestVars, historyVars>>

(* The worker dies with a batch in hand: pg-boss still holds every job of   *)
(* it as active, the handlers' progress is gone.                            *)
WorkerCrash(w) ==
    /\ Fault
    /\ batch[w] # {}
    /\ jobs' = {IF InHand(w, j) THEN [j EXCEPT !.state = "active", !.seen = {}] ELSE j
                  : j \in jobs}
    /\ batch' = [batch EXCEPT ![w] = {}]
    /\ UNCHANGED <<rowVars, objectVars, requestVars, lost, regens>>

(* pg-boss maintenance expires an active job nobody is running: redeliver   *)
(* it while native retries last, fail it for good after that.               *)
Expire(j) ==
    /\ j.state = "active"
    /\ \A w \in Worker : ~InHand(w, j)
    /\ \/ /\ j.retries > 0
          /\ Replace(j, [j EXCEPT !.state = "created", !.retries = @ - 1])
          /\ UNCHANGED lost
       \/ /\ j.retries = 0
          /\ jobs' = jobs \ {j}
          /\ lost' = lost \cup {j.photo}
    /\ UNCHANGED <<rowVars, objectVars, batch, requestVars, faults, regens>>

-----------------------------------------------------------------------------
(* Time, the reconcile sweep and the manual regeneration.                   *)

AgeTo(p, a) ==
    /\ p \in Aging
    /\ Row(p)
    /\ age' = [age EXCEPT ![p] = a]
    /\ UNCHANGED <<status, thumb, objectVars, queueVars, requestVars, historyVars>>

(* created_at falls behind STUCK_AFTER, then behind GIVE_UP_AFTER.          *)
GetStuck(p) == age[p] = "fresh" /\ AgeTo(p, "stuck")
GetOld(p) == age[p] = "stuck" /\ AgeTo(p, "old")

\* Mutant: the comparison with STUCK_AFTER is the wrong way round.
StuckEarly(p) == status[p] = "processing" /\ age[p] = "fresh"

(* The sweep's window is on created_at.                                     *)
Stuck(p) == status[p] = "processing" /\ age[p] = "stuck"

SweepStart ==
    /\ swept = {}
    /\ {p \in Photo : Stuck(p)} # {}
    /\ swept' = {p \in Photo : Stuck(p)}
    /\ UNCHANGED <<rowVars, objectVars, queueVars, fin, edit, deleting, historyVars>>

SweepSend(p) ==
    /\ p \in swept
    /\ stored[p] # "none"
    /\ Enqueue({p}, 0)
    /\ swept' = swept \ {p}
    /\ UNCHANGED <<rowVars, objectVars, batch, fin, edit, deleting, historyVars>>

SweepSkip(p) ==
    /\ p \in swept
    /\ stored[p] = "none"
    /\ swept' = swept \ {p}
    /\ UNCHANGED <<rowVars, objectVars, queueVars, fin, edit, deleting, historyVars>>

(* A HEAD that failed makes a row look like a phantom for this sweep; a     *)
(* send that throws ends the sweep.                                         *)
SweepLost ==
    /\ Fault
    /\ swept # {}
    /\ \E S \in SUBSET swept : S # swept /\ swept' = S
    /\ UNCHANGED <<rowVars, objectVars, queueVars, fin, edit, deleting, lost, regens>>

(* One turn of the loop of regenerateAlbumDerivativesAction, over rows      *)
(* listed before it: one of them may be on its way out by now.              *)
Regenerate(p) ==
    /\ regens < MaxRegens
    /\ Row(p) \/ p \in deleting
    /\ stored[p] # "none"
    /\ Enqueue({p}, RetryLimit)
    /\ regens' = regens + 1
    /\ UNCHANGED <<rowVars, objectVars, batch, requestVars, lost, faults>>

-----------------------------------------------------------------------------
FinalizeStep(c) ==
    \/ \E S \in SUBSET Photo : FinalizeResolve(c, S) \/ FinalizeMisses(c, S)
    \/ FinalizeInsert(c) \/ FinalizeRejected(c) \/ FinalizeEnqueue(c)
    \/ FinalizeLost(c)

EditStep(e) ==
    EditFetch(e) \/ EditWrite(e) \/ EditFlag(e) \/ EditEnqueue(e) \/ EditLost(e)

DeleteStep(p) == DeleteRow(p) \/ DeleteObjects(p) \/ DeleteObjectsLost(p)

HandlerStep(w, j) ==
    \/ HandlerGet(w, j) \/ HandlerSave(w, j) \/ HandlerFails(w, j)
    \/ HandlerTransient(w, j) \/ ReenqueueLost(w, j)

WorkerStep(w) ==
    \/ \E S \in SUBSET jobs : Fetch(w, S)
    \/ \E j \in jobs : HandlerStep(w, j)
    \/ BatchComplete(w)
    \/ WorkerCrash(w)

SweepStep ==
    SweepStart \/ (\E p \in Photo : SweepSend(p) \/ SweepSkip(p)) \/ SweepLost

Next ==
    \/ \E p \in Photo : ClientPut(p) \/ DeleteStep(p) \/ GetStuck(p) \/ GetOld(p) \/ Regenerate(p)
    \/ \E c \in Caller : FinalizeStep(c)
    \/ \E e \in Edit : EditStep(e)
    \/ \E w \in Worker : WorkerStep(w)
    \/ \E j \in jobs : Expire(j)
    \/ SweepStep

Spec == Init /\ [][Next]_vars

(* What the deployment keeps running: the request handlers that were not   *)
(* cut off, the worker (restart: unless-stopped), pg-boss maintenance and   *)
(* the ten-minute cron.  Nothing obliges a browser to upload, an admin to   *)
(* edit or delete, or a row to outlive the sweep's window.  A producer's    *)
(* send is strongly fair because only the bound on Job ever disables it.    *)
WorkerProgress(w) ==
    \/ \E S \in SUBSET jobs : Fetch(w, S)
    \/ \E j \in jobs : HandlerGet(w, j) \/ HandlerSave(w, j) \/ HandlerFails(w, j)
    \/ BatchComplete(w)

Fairness ==
    /\ \A c \in Caller : /\ WF_vars(FinalizeInsert(c) \/ FinalizeRejected(c))
                         /\ SF_vars(FinalizeEnqueue(c))
    /\ \A e \in Edit : /\ WF_vars(EditWrite(e) \/ EditFlag(e))
                       /\ SF_vars(EditEnqueue(e))
    /\ \A w \in Worker : WF_vars(WorkerProgress(w))
    /\ WF_vars(\E j \in jobs : Expire(j))
    /\ \A p \in Photo : /\ WF_vars(DeleteObjects(p))
                        /\ WF_vars(GetStuck(p))
                        /\ SF_vars(SweepSend(p))
                        /\ WF_vars(SweepSkip(p))
    /\ WF_vars(SweepStart)

FairSpec == Spec /\ Fairness

-----------------------------------------------------------------------------
(* Properties.                                                              *)

(* generateDerivatives.ts, F39: bytes that do not decode never become a     *)
(* photo a viewer is shown, however jobs are retried, redelivered, raced by *)
(* an edit or re-enqueued by the sweep.                                     *)
GarbageNeverPublished ==
    \A p \in Photo : status[p] = "ready" => uploaded[p] = "image"

(* A photo somebody will still flip to "ready": its job is in the queue or  *)
(* in a worker's hands, or the request that flagged it has yet to enqueue.  *)
InCare(p) ==
    \/ \E j \in jobs : j.photo = p /\ Live(j)
    \/ \E c \in Caller : fin[c].stage = "inserted" /\ p \in fin[c].photos
    \/ \E e \in Edit : EditPhoto[e] = p /\ edit[e].stage = "flagged"

(* finalize and edit enqueue after they write the row, and the worker       *)
(* settles a job only after its successor is queued: a row is "processing"  *)
(* with nobody on its way to it only if a fault lost that somebody.         *)
ProcessingIsInCare ==
    \A p \in Photo : status[p] = "processing" => InCare(p) \/ p \in lost

(* workers/index.ts, F6: a poison image keeps to itself.  Without a fault a *)
(* photo whose bytes decode is never given up and never retried, whatever   *)
(* shares its finalize request or its batch (photos nobody edits: an edit   *)
(* that outlives a delete can bring bytes back under a job that failed).    *)
PoisonStaysAlone ==
    \A p \in Photo :
        faults = 0 /\ stored[p] = "image" /\ (\A e \in Edit : EditPhoto[e] # p)
            => p \notin lost /\ \A j \in jobs : j.photo = p => j.attempt = 1

(* No job and no edit can change what the row says about the bytes.         *)
Quiet(p) ==
    /\ ~\E j \in jobs : j.photo = p /\ Live(j)
    /\ ~\E e \in Edit : EditPhoto[e] = p /\ edit[e].stage \in {"written", "flagged"}

(* photos/[id]/edit/route.ts:201-204: the derivative job an edit enqueues   *)
(* refreshes the metadata, so once everything has drained a ready row       *)
(* describes the bytes at its key, unless a fault lost that job.            *)
ReadyDescribesBytes ==
    \A p \in Photo :
        status[p] = "ready" /\ stored[p] = "image" /\ Quiet(p) /\ p \notin lost
            => thumb[p] = baked[p]

(* reconcileProcessing.ts: whatever job or request was lost, a row younger  *)
(* than GIVE_UP_AFTER with a decodable original comes back.                 *)
Rescued ==
    \A p \in Photo :
        (status[p] = "processing" /\ stored[p] = "image")
            ~> (status[p] # "processing" \/ stored[p] # "image" \/ age[p] = "old")

(* reconcileProcessing.ts:19-21: a poison image is not retried for ever.    *)
(* Once it stays older than GIVE_UP_AFTER its attempts end, and from some   *)
(* point on the queue holds no job of it.                                   *)
PoisonIsGivenUp ==
    \A p \in Photo :
        <>[](uploaded[p] = "garbage" /\ age[p] = "old") => <>[](\A j \in jobs : j.photo # p)

(* jobs.ts:8-10 and reconcileProcessing.ts:6-14, for a row an edit sent     *)
(* back to "processing" more than a day after its upload.                   *)
OldEditComesBack ==
    \A e \in Edit :
        (edit[e].stage = "flagged" /\ age[EditPhoto[e]] = "old")
            ~> status[EditPhoto[e]] # "processing"

(* The pipeline implements the row's life of PhotoLifecycle.                *)
Lifecycle == INSTANCE PhotoLifecycle WITH
    readable <- {p \in Photo : uploaded[p] = "image"}

ImplementsLifecycle == Lifecycle!LifecycleSpec
=============================================================================
