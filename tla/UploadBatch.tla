----------------------------- MODULE UploadBatch ------------------------------
(* Uploads as the browser drives them: the batches of components/admin/     *)
(* Dropzone.tsx, their presign (api/upload/presign) and their finalize      *)
(* (api/upload/finalize), with the caps both routes check against one album.*)
(*                                                                          *)
(* A file weighs one unit.  Both routes check the byte caps of the album    *)
(* and of the gallery, here one number, ByteCap (the gallery's refuses one  *)
(* unit sooner); only presign checks the quotas of the user, UserCap.  A    *)
(* client may understate sizes to presign, not to finalize.                 *)
EXTENDS Naturals, FiniteSets

CONSTANTS
    Batch, File,
    FileOf,         \* the files dropped together
    Liar,           \* batches whose client understates its sizes to presign
    Slots,          \* concurrency
    FileCap,        \* uploads.max_files_per_album
    ByteCap, UserCap,
    MaxUploadFaults \* PUTs, HEADs and answers that fail

ASSUME UploadAssumption ==
    /\ FileOf \in [Batch -> SUBSET File] /\ Liar \subseteq Batch
    /\ \A b, c \in Batch : b # c => FileOf[b] \cap FileOf[c] = {}
    /\ {Slots, FileCap, ByteCap, UserCap, MaxUploadFaults} \subseteq Nat /\ Slots > 0
    /\ \A b \in Batch : IsFiniteSet(FileOf[b])

VARIABLES
    upRow,      \* the status each file shows
    batch,      \* each call of onDrop
    stored,     \* originals in MinIO
    album,      \* photo rows
    trouble,    \* files that failed by themselves (ghost)
    raced,      \* two finalize requests checked a cap before either inserted (ghost)
    upFaults

uploadVars == <<upRow, batch, stored, album, trouble, raced, upFaults>>

Undropped == [pc |-> "idle", eligible |-> {}, queue |-> {}, busy |-> {}, found |-> {},
              outcome |-> "none"]

UploadTypeOK ==
    /\ upRow \in [File -> {"none", "pending", "uploading", "uploaded", "error"}]
    /\ batch \in [Batch -> [pc : {"idle", "measure", "presign", "put", "finalize", "head",
                                   "quota", "insert", "answer", "done"},
                            eligible : SUBSET File, queue : SUBSET File, busy : SUBSET File,
                            found : SUBSET File,
                            outcome : {"none", "ok", "refused", "threw"}]]
    /\ stored \subseteq File /\ album \subseteq File /\ trouble \subseteq File
    /\ raced \in BOOLEAN /\ upFaults \in 0..MaxUploadFaults

UploadInit ==
    /\ upRow = [f \in File |-> "none"]
    /\ batch = [b \in Batch |-> Undropped]
    /\ stored = {} /\ album = {} /\ trouble = {}
    /\ raced = FALSE /\ upFaults = 0

-----------------------------------------------------------------------------
ServerSame == UNCHANGED <<stored, album, raced>>

UpFault == upFaults < MaxUploadFaults /\ upFaults' = upFaults + 1
NoUpFault == UNCHANGED upFaults

\* Mutant: the failure handler of a batch reaches every row on the page.
TouchedAnywhere(b, statuses) == {f \in File : upRow[f] \in statuses}

\* updateBatch: only rows of this batch.
Touched(b, statuses) == {f \in FileOf[b] : upRow[f] \in statuses}

SetRows(fs, status) == [f \in File |-> IF f \in fs THEN status ELSE upRow[f]]

\* The batch is over; rows that were in one of the statuses show its error.
FailBatch(b, outcome, statuses) ==
    /\ upRow' = SetRows(Touched(b, statuses), "error")
    /\ batch' = [batch EXCEPT ![b].pc = "done", ![b].outcome = outcome, ![b].found = {}]
    /\ UNCHANGED trouble

Drop(b) ==
    /\ batch[b].pc = "idle"
    /\ upRow' = SetRows(FileOf[b], "pending")
    /\ batch' = [batch EXCEPT ![b].pc = "measure"]
    /\ ServerSame /\ NoUpFault /\ UNCHANGED trouble

\* Promise.all over measure(): what could not be read is out.
Measure(b) ==
    /\ batch[b].pc = "measure"
    /\ \E bad \in SUBSET FileOf[b] :
         /\ IF bad = {} THEN NoUpFault ELSE UpFault
         /\ upRow' = SetRows(bad, "error")
         /\ trouble' = trouble \cup bad
         /\ batch' = [batch EXCEPT ![b].eligible = FileOf[b] \ bad,
                                   ![b].pc = IF bad = FileOf[b] THEN "done" ELSE "presign"]
    /\ ServerSame

Incoming(b) == IF b \in Liar THEN 0 ELSE Cardinality(batch[b].eligible)

\* presign: the caps of the settings, then the user's quotas; every photo of
\* the album is his.
PresignAllows(b) ==
    /\ Cardinality(batch[b].eligible) <= FileCap
    /\ Cardinality(album) + Incoming(b) <= ByteCap
    /\ Cardinality(album) + Incoming(b) <= UserCap

Presign(b) ==
    /\ batch[b].pc = "presign"
    /\ \/ /\ PresignAllows(b) /\ NoUpFault
          /\ upRow' = SetRows(batch[b].eligible, "uploading")
          /\ batch' = [batch EXCEPT ![b].pc = "put", ![b].queue = batch[b].eligible]
          /\ UNCHANGED trouble
       \/ ~PresignAllows(b) /\ NoUpFault /\ FailBatch(b, "refused", {"pending"})
       \/ UpFault /\ FailBatch(b, "threw", {"pending", "uploading"})
    /\ ServerSame

\* A worker of the batch takes the next file.
Take(b) ==
    /\ batch[b].pc = "put" /\ Cardinality(batch[b].busy) < Slots
    /\ \E f \in batch[b].queue :
         batch' = [batch EXCEPT ![b].queue = @ \ {f}, ![b].busy = @ \cup {f}]
    /\ ServerSame /\ NoUpFault /\ UNCHANGED <<upRow, trouble>>

PutOk(b) ==
    /\ \E f \in batch[b].busy :
         /\ stored' = stored \cup {f}
         /\ upRow' = SetRows({f}, "uploaded")
         /\ batch' = [batch EXCEPT ![b].busy = @ \ {f}]
    /\ NoUpFault /\ UNCHANGED <<album, raced, trouble>>

\* The PUT fails, or only its answer is lost.
PutFails(b) ==
    /\ UpFault
    /\ \E f \in batch[b].busy :
         /\ stored' \in {stored, stored \cup {f}}
         /\ upRow' = SetRows({f}, "error") /\ trouble' = trouble \cup {f}
         /\ batch' = [batch EXCEPT ![b].busy = @ \ {f}]
    /\ UNCHANGED <<album, raced>>

-----------------------------------------------------------------------------
(* The finalize request: every eligible file is in it, whatever its PUT did.*)

Step(b, pc) == batch' = [batch EXCEPT ![b].pc = pc]
Refuse(b) == batch' = [batch EXCEPT ![b].pc = "answer", ![b].outcome = "refused"]

FinalizeCount(b) ==
    /\ batch[b].pc = "put" /\ batch[b].queue = {} /\ batch[b].busy = {}
    /\ IF Cardinality(album) + Cardinality(batch[b].eligible) > FileCap
       THEN Refuse(b) ELSE Step(b, "head")
    /\ ServerSame /\ NoUpFault /\ UNCHANGED <<upRow, trouble>>

\* discoverOriginal: a HEAD that fails reads as a file never uploaded.
FinalizeHeads(b) ==
    /\ batch[b].pc = "head"
    /\ LET there == batch[b].eligible \cap stored IN
       \E missed \in SUBSET there :
         /\ IF missed = {} THEN NoUpFault ELSE UpFault
         /\ trouble' = trouble \cup missed
         /\ batch' = [batch EXCEPT ![b].found = there \ missed,
                        ![b].pc = IF there = missed THEN "answer" ELSE "quota",
                        ![b].outcome = IF there = missed THEN "ok" ELSE @]
    /\ ServerSame /\ UNCHANGED upRow

\* Mutant (before F9): the true sizes are not checked again.
FitsUnchecked(b) == TRUE

Fits(b) == Cardinality(album) + Cardinality(batch[b].found) <= ByteCap

FinalizeQuota(b) ==
    /\ batch[b].pc = "quota"
    /\ IF Fits(b) THEN Step(b, "insert") ELSE Refuse(b)
    /\ ServerSame /\ NoUpFault /\ UNCHANGED <<upRow, trouble>>

\* Another request has read a count this insert makes stale.
StaleElsewhere(b) == \E c \in Batch \ {b} : batch[c].pc \in {"head", "quota", "insert"}

\* insertPhotosBatch; enqueueing the jobs may still fail, and the client is
\* told the whole finalize did.
FinalizeInsertRows(b) ==
    /\ batch[b].pc = "insert"
    /\ album' = album \cup batch[b].found
    /\ raced' = (raced \/ StaleElsewhere(b))
    /\ \E enqueued \in BOOLEAN :
         /\ IF enqueued THEN NoUpFault ELSE UpFault
         /\ batch' = [batch EXCEPT ![b].pc = "answer",
                                   ![b].outcome = IF enqueued THEN "ok" ELSE "refused"]
    /\ UNCHANGED <<upRow, stored, trouble>>

\* The answer arrives, or is lost: then uploaded rows stay as they are.
FinalizeAnswer(b) ==
    /\ batch[b].pc = "answer"
    /\ \/ /\ NoUpFault
          /\ \/ batch[b].outcome = "ok" /\ FailBatch(b, "ok", {})
             \/ batch[b].outcome = "refused" /\ FailBatch(b, "refused", {"uploaded"})
       \/ UpFault /\ FailBatch(b, "threw", {"pending", "uploading"})
    /\ ServerSame

UploadNext ==
    \E b \in Batch : \/ Drop(b) \/ Measure(b) \/ Presign(b) \/ Take(b) \/ PutOk(b) \/ PutFails(b)
                     \/ FinalizeCount(b) \/ FinalizeHeads(b) \/ FinalizeQuota(b)
                     \/ FinalizeInsertRows(b) \/ FinalizeAnswer(b)

UploadSpec == UploadInit /\ [][UploadNext]_uploadVars

-----------------------------------------------------------------------------
(* Properties.                                                              *)

\* What the panel says of a file is about that file: a row shows an error
\* only if its own file or its own batch failed, however batches overlap;
\* when a batch is over none of its rows is still in flight; and a row that
\* stays "uploaded" is a photo of the album, unless its HEAD failed or the
\* finalize answer was lost (Dropzone.tsx 315-470).
RowsTellTheTruth ==
    \A b \in Batch : \A f \in FileOf[b] :
      /\ upRow[f] = "error" => f \in trouble \/ batch[b].outcome \in {"refused", "threw"}
      /\ batch[b].pc = "done" => upRow[f] \in {"uploaded", "error"}
      /\ (batch[b].pc = "done" /\ upRow[f] = "uploaded") =>
           f \in album \/ f \in trouble \/ batch[b].outcome = "threw"

\* Neither cap is passed, by clients that lie about sizes or presign
\* together, as long as no two finalize requests overlap (F4, F9).
CapsHold == ~raced => Cardinality(album) <= ByteCap /\ Cardinality(album) <= FileCap
=============================================================================
