---------------------------- MODULE Office_proofs -----------------------------
(***************************************************************************)
(* Theorems about modules of the office run, for any of their constants:    *)
(* UploadBatch, PhotoEditor and SettingsCache, each in a section of its     *)
(* own; and about what MCOffice composes of them and of the modules proved  *)
(* elsewhere.                                                               *)
(***************************************************************************)
EXTENDS MCOffice, Access_proofs, Export_proofs, Scripts_proofs, Pages_proofs, TLAPS

UploadPc == {"idle", "measure", "presign", "put", "finalize", "head", "quota", "insert", "answer", "done"}
Batches == [pc : UploadPc, eligible : SUBSET File, queue : SUBSET File, busy : SUBSET File,
            found : SUBSET File, outcome : {"none", "ok", "refused", "threw"}]

\* Where a row of the batch can stand at each step of the batch.
RowAt(b, f) ==
    /\ batch[b].pc = "idle" => upRow[f] = "none"
    /\ batch[b].pc = "measure" => upRow[f] = "pending"
    /\ batch[b].pc = "presign" => upRow[f] = IF f \in batch[b].eligible THEN "pending" ELSE "error"
    /\ (batch[b].pc = "put" /\ f \in batch[b].queue \cup batch[b].busy) => upRow[f] = "uploading"
    /\ (batch[b].pc = "put" /\ f \notin batch[b].queue \cup batch[b].busy) => upRow[f] \in {"uploaded", "error"}
    /\ batch[b].pc \in {"head", "quota", "insert", "answer", "done"} => upRow[f] \in {"uploaded", "error"}

\* A row in error, and one that is uploaded, has its reason.
ReasonOf(b, f) ==
    /\ upRow[f] = "error" => f \in trouble \/ batch[b].outcome \in {"refused", "threw"}
    /\ upRow[f] = "uploaded" => f \in stored \cap batch[b].eligible
    /\ (upRow[f] = "uploaded" /\ batch[b].pc \in {"quota", "insert"}) => f \in batch[b].found \cup trouble
    /\ (upRow[f] = "uploaded" /\ batch[b].pc \in {"answer", "done"}) =>
         \/ batch[b].outcome = "ok" /\ f \in album \cup trouble
         \/ batch[b].outcome = "refused" /\ batch[b].pc = "answer"
         \/ batch[b].outcome = "threw"

BatchShape(b) ==
    /\ batch[b].eligible \subseteq FileOf[b]
    /\ batch[b].queue \subseteq batch[b].eligible /\ batch[b].busy \subseteq batch[b].eligible
    /\ batch[b].queue \cap batch[b].busy = {} /\ batch[b].found \subseteq batch[b].eligible
    /\ batch[b].pc # "put" => batch[b].queue = {} /\ batch[b].busy = {}
    /\ batch[b].pc \notin {"answer", "done"} => batch[b].outcome = "none"
    /\ batch[b].pc = "answer" => batch[b].outcome \in {"ok", "refused"}

BatchOK(b) == BatchShape(b) /\ \A f \in FileOf[b] : RowAt(b, f) /\ ReasonOf(b, f)

\* What a finalize request has counted still holds, until another inserts.
CountHolds(b) ==
    /\ batch[b].pc \in {"head", "quota", "insert"} =>
         Cardinality(album) + Cardinality(batch[b].eligible) <= FileCap
    /\ batch[b].pc = "insert" => Cardinality(album) + Cardinality(batch[b].found) <= ByteCap

UploadInv ==
    /\ UploadTypeOK /\ IsFiniteSet(album)
    /\ \A b \in Batch : BatchOK(b)
    /\ CapsHold
    /\ ~raced => \A b \in Batch : CountHolds(b)

LEMMA UploadBegins == UploadInit => UploadInv
<1> SUFFICES ASSUME UploadInit PROVE UploadInv
  OBVIOUS
<1> USE DEF UploadInit
<1>1. UploadTypeOK
  <2>1. \A b \in Batch : batch[b] = Undropped
    OBVIOUS
  <2>2. MaxUploadFaults \in Nat
    BY UploadAssumption
  <2>3. Undropped \in Batches
    BY DEF Undropped, Batches, UploadPc
  <2>4. batch \in [Batch -> Batches]
    BY <2>3
  <2>5. upRow \in [File -> {"none"}] /\ upFaults \in 0..MaxUploadFaults
    BY <2>2
  <2> QED BY <2>4, <2>5 DEF UploadTypeOK, Batches, UploadPc
<1>2. IsFiniteSet(album) /\ Cardinality(album) = 0
  BY FS_EmptySet
<1>3. ASSUME NEW b \in Batch PROVE BatchOK(b)
  BY UploadAssumption DEF BatchOK, BatchShape, RowAt, ReasonOf, Undropped
<1>4. CapsHold
  BY <1>2, UploadAssumption DEF CapsHold
<1>5. ASSUME NEW b \in Batch PROVE CountHolds(b)
  BY DEF CountHolds, Undropped
<1> QED BY <1>1, <1>2, <1>3, <1>4, <1>5 DEF UploadInv

\* The steps of one batch.
BatchNext(b) ==
    \/ Drop(b) \/ Measure(b) \/ Presign(b) \/ Take(b) \/ PutOk(b) \/ PutFails(b)
    \/ FinalizeCount(b) \/ FinalizeHeads(b) \/ FinalizeQuota(b)
    \/ FinalizeInsertRows(b) \/ FinalizeAnswer(b)

\* What a finalize request finds in MinIO.
Headed(b, missed, pc, outcome) ==
    [pc |-> pc, eligible |-> batch[b].eligible, queue |-> batch[b].queue, busy |-> batch[b].busy,
     found |-> (batch[b].eligible \cap stored) \ missed, outcome |-> outcome]

LEMMA Heads ==
  ASSUME batch \in [Batch -> Batches], NEW b \in Batch, FinalizeHeads(b)
  PROVE  \E missed \in SUBSET (batch[b].eligible \cap stored), pc \in {"answer", "quota"}, outcome \in {"none", "ok", "refused", "threw"} :
           /\ trouble' = trouble \cup missed
           /\ batch' = [batch EXCEPT ![b] = Headed(b, missed, pc, outcome)]
           /\ pc = "answer" => outcome = "ok" /\ missed = batch[b].eligible \cap stored
           /\ pc = "quota" => outcome = batch[b].outcome
<1>1. PICK missed \in SUBSET (batch[b].eligible \cap stored) :
         /\ trouble' = trouble \cup missed
         /\ batch' = [batch EXCEPT ![b].found = (batch[b].eligible \cap stored) \ missed,
               ![b].pc = IF batch[b].eligible \cap stored = missed THEN "answer" ELSE "quota",
               ![b].outcome = IF batch[b].eligible \cap stored = missed THEN "ok" ELSE batch[b].outcome]
  BY DEF FinalizeHeads
<1>2. CASE batch[b].eligible \cap stored = missed
  <2>1. batch' = [batch EXCEPT ![b].found = (batch[b].eligible \cap stored) \ missed,
                               ![b].pc = "answer", ![b].outcome = "ok"]
    BY <1>1, <1>2
  <2>2. batch' = [batch EXCEPT ![b] = Headed(b, missed, "answer", "ok")]
    <3>1. batch[b] = [pc |-> batch[b].pc, eligible |-> batch[b].eligible, queue |-> batch[b].queue,
                      busy |-> batch[b].busy, found |-> batch[b].found, outcome |-> batch[b].outcome]
      BY DEF Batches
    <3>2. batch'[b] = Headed(b, missed, "answer", "ok")
      BY <2>1, <3>1 DEF Headed
    <3>3. \A c \in Batch \ {b} : batch'[c] = batch[c]
      BY <2>1
    <3>4. DOMAIN batch' = Batch /\ batch' = [c \in Batch |-> batch'[c]]
      BY <2>1
    <3> QED BY <3>2, <3>3, <3>4
  <2> QED BY <1>1, <1>2, <2>2
<1>3. CASE batch[b].eligible \cap stored # missed
  <2>1. batch' = [batch EXCEPT ![b].found = (batch[b].eligible \cap stored) \ missed,
                               ![b].pc = "quota", ![b].outcome = batch[b].outcome]
    BY <1>1, <1>3
  <2>2. batch' = [batch EXCEPT ![b] = Headed(b, missed, "quota", batch[b].outcome)]
    <3>1. batch[b] = [pc |-> batch[b].pc, eligible |-> batch[b].eligible, queue |-> batch[b].queue,
                      busy |-> batch[b].busy, found |-> batch[b].found, outcome |-> batch[b].outcome]
      BY DEF Batches
    <3>2. batch'[b] = Headed(b, missed, "quota", batch[b].outcome)
      BY <2>1, <3>1 DEF Headed
    <3>3. \A c \in Batch \ {b} : batch'[c] = batch[c]
      BY <2>1
    <3>4. DOMAIN batch' = Batch /\ batch' = [c \in Batch |-> batch'[c]]
      BY <2>1
    <3> QED BY <3>2, <3>3, <3>4
  <2>3. batch[b].outcome \in {"none", "ok", "refused", "threw"}
    BY DEF Batches
  <2> QED BY <1>1, <1>3, <2>2, <2>3
<1> QED BY <1>2, <1>3

LEMMA HeadsTyped ==
  ASSUME UploadTypeOK, NEW b \in Batch, FinalizeHeads(b) PROVE UploadTypeOK'
<1>1. batch \in [Batch -> Batches] /\ batch[b] \in Batches
  BY DEF UploadTypeOK, Batches, UploadPc
<1>2. PICK missed \in SUBSET (batch[b].eligible \cap stored), pc \in {"answer", "quota"}, outcome \in {"none", "ok", "refused", "threw"} :
           /\ trouble' = trouble \cup missed
           /\ batch' = [batch EXCEPT ![b] = Headed(b, missed, pc, outcome)]
           /\ pc = "answer" => outcome = "ok" /\ missed = batch[b].eligible \cap stored
           /\ pc = "quota" => outcome = batch[b].outcome
  BY <1>1, Heads
<1>3. Headed(b, missed, pc, outcome) \in Batches
  BY <1>1, <1>2 DEF Batches, UploadPc, Headed
<1>4. batch' \in [Batch -> Batches]
  BY <1>1, <1>2, <1>3
<1>5. trouble' \subseteq File
  BY <1>1, <1>2 DEF Batches, UploadTypeOK
<1>6. upFaults' \in 0..MaxUploadFaults
  <2>1. NoUpFault \/ UpFault
    BY DEF FinalizeHeads
  <2>2. MaxUploadFaults \in Nat /\ upFaults \in 0..MaxUploadFaults
    BY UploadAssumption DEF UploadTypeOK
  <2> QED BY <2>1, <2>2 DEF UpFault, NoUpFault
<1>7. UNCHANGED <<upRow, stored, album, raced>>
  BY DEF FinalizeHeads, ServerSame
<1> QED BY <1>4, <1>5, <1>6, <1>7 DEF UploadTypeOK, Batches, UploadPc

LEMMA UploadTyped ==
  ASSUME UploadInv, NEW b \in Batch, BatchNext(b) PROVE UploadTypeOK'
<1> USE DEF UploadInv, UploadTypeOK, BatchOK, BatchShape, UpFault, NoUpFault, ServerSame
<1>0. FileOf[b] \subseteq File /\ MaxUploadFaults \in Nat
  BY UploadAssumption
<1>1. CASE Drop(b)
  BY <1>0, <1>1 DEF Drop, SetRows
<1>2. CASE Measure(b)
  BY <1>0, <1>2 DEF Measure, SetRows
<1>3. CASE Presign(b)
  BY <1>0, <1>3 DEF Presign, SetRows, FailBatch, Touched
<1>4. CASE Take(b)
  <2>1. batch \in [Batch -> Batches]
    BY DEF Batches, UploadPc
  <2>2. PICK f \in batch[b].queue :
         batch' = [batch EXCEPT ![b].queue = batch[b].queue \ {f}, ![b].busy = batch[b].busy \cup {f}]
    BY <1>4 DEF Take
  <2>3. batch' \in [Batch -> Batches]
    BY <2>1, <2>2 DEF Batches
  <2> QED BY <1>4, <2>3 DEF Take, Batches, UploadPc
<1>5. CASE PutOk(b)
  BY <1>0, <1>5 DEF PutOk, SetRows
<1>6. CASE PutFails(b)
  BY <1>0, <1>6 DEF PutFails, SetRows
<1>7. CASE FinalizeCount(b)
  <2>1. batch \in [Batch -> Batches]
    BY DEF Batches, UploadPc
  <2>2. \/ batch' = [batch EXCEPT ![b].pc = "answer", ![b].outcome = "refused"]
        \/ batch' = [batch EXCEPT ![b].pc = "head"]
    BY <1>7 DEF FinalizeCount, Refuse, Step
  <2>3. batch' \in [Batch -> Batches]
    BY <2>1, <2>2 DEF Batches, UploadPc
  <2> QED BY <1>7, <2>3 DEF FinalizeCount, Batches, UploadPc
<1>8. CASE FinalizeHeads(b)
  BY <1>8, HeadsTyped
<1>9. CASE FinalizeQuota(b)
  BY <1>0, <1>9 DEF FinalizeQuota, Refuse, Step
<1>10. CASE FinalizeInsertRows(b)
  BY <1>0, <1>10 DEF FinalizeInsertRows
<1>11. CASE FinalizeAnswer(b)
  BY <1>0, <1>11 DEF FinalizeAnswer, SetRows, FailBatch, Touched
<1> QED BY <1>1, <1>2, <1>3, <1>4, <1>5, <1>6, <1>7, <1>8, <1>9, <1>10, <1>11 DEF BatchNext

\* A step of one batch leaves the rows and the records of the others alone,
\* and what is stored, a photo or in trouble stays so.
LEMMA OthersUntouched ==
  ASSUME UploadInv, NEW b \in Batch, BatchNext(b), NEW c \in Batch, c # b
  PROVE  /\ batch'[c] = batch[c]
         /\ \A f \in FileOf[c] : upRow'[f] = upRow[f]
         /\ stored \subseteq stored' /\ album \subseteq album' /\ trouble \subseteq trouble'
<1> USE DEF UploadInv, UploadTypeOK, BatchOK, BatchShape, ServerSame
<1>0. /\ FileOf[c] \subseteq File /\ FileOf[b] \subseteq File
      /\ \A f \in FileOf[c] : f \notin FileOf[b]
      /\ batch[b].eligible \subseteq FileOf[b] /\ batch[b].busy \subseteq FileOf[b]
  BY UploadAssumption
<1>1. CASE Drop(b)
  BY <1>0, <1>1 DEF Drop, SetRows
<1>2. CASE Measure(b)
  BY <1>0, <1>2 DEF Measure, SetRows
<1>3. CASE Presign(b)
  BY <1>0, <1>3 DEF Presign, SetRows, FailBatch, Touched
<1>4. CASE Take(b)
  BY <1>0, <1>4 DEF Take
<1>5. CASE PutOk(b)
  BY <1>0, <1>5 DEF PutOk, SetRows
<1>6. CASE PutFails(b)
  BY <1>0, <1>6 DEF PutFails, SetRows
<1>7. CASE FinalizeCount(b)
  BY <1>0, <1>7 DEF FinalizeCount, Refuse, Step
<1>8. CASE FinalizeHeads(b)
  BY <1>0, <1>8 DEF FinalizeHeads
<1>9. CASE FinalizeQuota(b)
  BY <1>0, <1>9 DEF FinalizeQuota, Refuse, Step
<1>10. CASE FinalizeInsertRows(b)
  BY <1>0, <1>10 DEF FinalizeInsertRows
<1>11. CASE FinalizeAnswer(b)
  BY <1>0, <1>11 DEF FinalizeAnswer, SetRows, FailBatch, Touched
<1> QED BY <1>1, <1>2, <1>3, <1>4, <1>5, <1>6, <1>7, <1>8, <1>9, <1>10, <1>11 DEF BatchNext

\* The batch that steps keeps its own rows in order.
\* A PUT that ends, with either status.
LEMMA PutRows ==
  ASSUME UploadInv, NEW b \in Batch, NEW f \in batch[b].busy, batch[b].pc = "put",
         batch'[b] = [batch[b] EXCEPT !.busy = batch[b].busy \ {f}],
         UNCHANGED album,
         \/ upRow' = SetRows({f}, "uploaded") /\ trouble' = trouble /\ stored' = stored \cup {f}
         \/ /\ upRow' = SetRows({f}, "error") /\ trouble' = trouble \cup {f}
            /\ stored' \in {stored, stored \cup {f}}
  PROVE  BatchOK(b)'
<1>1. batch[b] \in Batches /\ BatchShape(b) /\ FileOf[b] \subseteq File
  BY UploadAssumption DEF UploadInv, UploadTypeOK, Batches, UploadPc, BatchOK
<1>2. BatchShape(b)'
  BY <1>1 DEF BatchShape, Batches
<1>3. ASSUME NEW g \in FileOf[b] PROVE RowAt(b, g)' /\ ReasonOf(b, g)'
  <2>1. RowAt(b, g) /\ ReasonOf(b, g) /\ g \in File
    BY <1>1 DEF UploadInv, BatchOK
  <2>2. CASE g = f
    <3>1. \/ upRow'[g] = "uploaded" /\ g \in stored'
          \/ upRow'[g] = "error" /\ g \in trouble'
      BY <2>1, <2>2 DEF SetRows
    <3>2. g \in batch[b].eligible
      BY <1>1, <2>2 DEF BatchShape
    <3>3. batch'[b].pc = "put" /\ batch'[b].eligible = batch[b].eligible /\ g \notin batch'[b].busy
      BY <1>1, <2>2 DEF Batches
    <3>4. g \notin batch'[b].queue
      BY <1>1, <2>2 DEF Batches, BatchShape
    <3> QED BY <3>1, <3>2, <3>3, <3>4 DEF RowAt, ReasonOf
  <2>3. CASE g # f
    <3>1. upRow'[g] = upRow[g] /\ stored \subseteq stored' /\ trouble \subseteq trouble'
      BY <2>1, <2>3 DEF SetRows
    <3> QED BY <1>1, <2>1, <2>3, <3>1 DEF RowAt, ReasonOf, Batches
  <2> QED BY <2>2, <2>3
<1> QED BY <1>2, <1>3 DEF BatchOK

LEMMA HeadsRows ==
  ASSUME UploadInv, NEW b \in Batch, FinalizeHeads(b) PROVE BatchOK(b)'
<1>1. batch \in [Batch -> Batches] /\ batch[b] \in Batches
  BY DEF UploadInv, UploadTypeOK, Batches, UploadPc
<1>2. PICK missed \in SUBSET (batch[b].eligible \cap stored), pc \in {"answer", "quota"}, outcome \in {"none", "ok", "refused", "threw"} :
           /\ trouble' = trouble \cup missed
           /\ batch' = [batch EXCEPT ![b] = Headed(b, missed, pc, outcome)]
           /\ pc = "answer" => outcome = "ok" /\ missed = batch[b].eligible \cap stored
           /\ pc = "quota" => outcome = batch[b].outcome
  BY <1>1, Heads
<1>3. batch'[b] = Headed(b, missed, pc, outcome)
  BY <1>1, <1>2 DEF Headed
<1>4. batch[b].pc = "head" /\ UNCHANGED <<upRow, stored, album>>
  BY DEF FinalizeHeads, ServerSame
<1>5. BatchShape(b) /\ \A f \in FileOf[b] : RowAt(b, f) /\ ReasonOf(b, f)
  BY DEF UploadInv, BatchOK
<1>6. batch[b].outcome = "none"
  BY <1>4, <1>5 DEF BatchShape
<1>7. BatchShape(b)'
  BY <1>2, <1>3, <1>4, <1>5, <1>6 DEF BatchShape, Headed
<1>8. ASSUME NEW f \in FileOf[b] PROVE RowAt(b, f)' /\ ReasonOf(b, f)'
  <2>1. upRow[f] \in {"uploaded", "error"} /\ (upRow[f] = "uploaded" => f \in stored \cap batch[b].eligible)
    BY <1>4, <1>5 DEF RowAt, ReasonOf
  <2>2. upRow[f] = "error" => f \in trouble
    BY <1>5, <1>6 DEF ReasonOf
  <2>3. RowAt(b, f)'
    BY <1>2, <1>3, <1>4, <2>1 DEF RowAt, Headed
  <2>4. upRow'[f] = upRow[f] /\ trouble' = trouble \cup missed
    BY <1>2, <1>4
  <2>5. /\ batch'[b].pc = pc /\ batch'[b].outcome = outcome /\ batch'[b].eligible = batch[b].eligible
        /\ batch'[b].found = (batch[b].eligible \cap stored) \ missed
    BY <1>3 DEF Headed
  <2>6. ReasonOf(b, f)'
    BY <1>2, <1>4, <2>1, <2>2, <2>4, <2>5 DEF ReasonOf
  <2> QED BY <2>3, <2>6
<1> QED BY <1>7, <1>8 DEF BatchOK

LEMMA OwnRows ==
  ASSUME UploadInv, NEW b \in Batch, BatchNext(b) PROVE BatchOK(b)'
<1> USE DEF UploadInv, UploadTypeOK, BatchOK, BatchShape, RowAt, ReasonOf, ServerSame
<1>0. FileOf[b] \subseteq File /\ batch[b].eligible \subseteq FileOf[b] /\ batch[b].busy \subseteq FileOf[b]
  BY UploadAssumption
<1>1. CASE Drop(b)
  BY <1>0, <1>1 DEF Drop, SetRows
<1>2. CASE Measure(b)
  BY <1>0, <1>2 DEF Measure, SetRows
<1>3. CASE Presign(b)
  BY <1>0, <1>3 DEF Presign, SetRows, FailBatch, Touched
<1>4. CASE Take(b)
  BY <1>0, <1>4 DEF Take
<1>5. CASE PutOk(b)
  <2>1. PICK f \in batch[b].busy :
          /\ stored' = stored \cup {f} /\ upRow' = SetRows({f}, "uploaded")
          /\ batch' = [batch EXCEPT ![b].busy = batch[b].busy \ {f}]
    BY <1>5 DEF PutOk
  <2>2. batch'[b] = [batch[b] EXCEPT !.busy = batch[b].busy \ {f}] /\ batch[b].pc = "put"
        /\ UNCHANGED <<album, trouble>>
    BY <1>5, <2>1 DEF PutOk
  <2> QED BY <1>0, <2>1, <2>2, PutRows
<1>6. CASE PutFails(b)
  <2>1. PICK f \in batch[b].busy :
          /\ stored' \in {stored, stored \cup {f}} /\ upRow' = SetRows({f}, "error")
          /\ trouble' = trouble \cup {f}
          /\ batch' = [batch EXCEPT ![b].busy = batch[b].busy \ {f}]
    BY <1>6 DEF PutFails
  <2>2. batch'[b] = [batch[b] EXCEPT !.busy = batch[b].busy \ {f}] /\ batch[b].pc = "put"
        /\ UNCHANGED album
    BY <1>6, <2>1 DEF PutFails
  <2> QED BY <1>0, <2>1, <2>2, PutRows
<1>7. CASE FinalizeCount(b)
  BY <1>0, <1>7 DEF FinalizeCount, Refuse, Step
<1>8. CASE FinalizeHeads(b)
  BY <1>8, HeadsRows
<1>9. CASE FinalizeQuota(b)
  BY <1>0, <1>9 DEF FinalizeQuota, Refuse, Step
<1>10. CASE FinalizeInsertRows(b)
  BY <1>0, <1>10 DEF FinalizeInsertRows
<1>11. CASE FinalizeAnswer(b)
  BY <1>0, <1>11 DEF FinalizeAnswer, SetRows, FailBatch, Touched
<1> QED BY <1>1, <1>2, <1>3, <1>4, <1>5, <1>6, <1>7, <1>8, <1>9, <1>10, <1>11 DEF BatchNext

LEMMA SmallSets ==
  ASSUME UploadInv, NEW b \in Batch
  PROVE  /\ IsFiniteSet(batch[b].eligible) /\ IsFiniteSet(batch[b].found)
         /\ Cardinality(album) \in Nat /\ Cardinality(batch[b].eligible) \in Nat
         /\ Cardinality(batch[b].found) \in Nat
         /\ Cardinality(batch[b].found) <= Cardinality(batch[b].eligible)
<1>1. IsFiniteSet(FileOf[b])
  BY UploadAssumption
<1>2. batch[b].eligible \subseteq FileOf[b] /\ batch[b].found \subseteq batch[b].eligible
  BY DEF UploadInv, BatchOK, BatchShape
<1>3. IsFiniteSet(batch[b].eligible)
  BY <1>1, <1>2, FS_Subset
<1>4. IsFiniteSet(batch[b].found) /\ Cardinality(batch[b].found) <= Cardinality(batch[b].eligible)
  BY <1>2, <1>3, FS_Subset
<1> QED BY <1>3, <1>4, FS_CardinalityType DEF UploadInv

\* Rows are only ever inserted by a request whose counts still hold.
LEMMA CapsStep ==
  ASSUME UploadInv, NEW b \in Batch, BatchNext(b), \A c \in Batch \ {b} : batch'[c] = batch[c],
         UploadTypeOK'
  PROVE  IsFiniteSet(album') /\ CapsHold' /\ (~raced' => \A c \in Batch : CountHolds(c)')
<1>0. UploadTypeOK /\ FileCap \in Nat /\ ByteCap \in Nat
  BY UploadAssumption DEF UploadInv
<1>1. CASE FinalizeInsertRows(b)
  <2>1. album' = album \cup batch[b].found /\ raced' = (raced \/ StaleElsewhere(b))
        /\ batch'[b].pc = "answer" /\ batch[b].pc = "insert"
    BY <1>0, <1>1 DEF FinalizeInsertRows, UploadTypeOK
  <2>2. /\ IsFiniteSet(album')
        /\ Cardinality(album') <= Cardinality(album) + Cardinality(batch[b].found)
        /\ Cardinality(album') \in Nat
    <3>1. IsFiniteSet(album')
      BY <2>1, SmallSets, FS_Union DEF UploadInv
    <3>2. Cardinality(album') = Cardinality(album) + Cardinality(batch[b].found)
                                - Cardinality(album \cap batch[b].found)
      BY <2>1, SmallSets, FS_Union DEF UploadInv
    <3>3. Cardinality(album \cap batch[b].found) \in Nat
      BY SmallSets, FS_Intersection, FS_CardinalityType
    <3>4. Cardinality(album') \in Nat
      BY <3>1, FS_CardinalityType
    <3> QED BY <3>1, <3>2, <3>3, <3>4, SmallSets
  <2>3. CapsHold'
    <3> SUFFICES ASSUME ~raced'
                 PROVE  Cardinality(album') <= ByteCap /\ Cardinality(album') <= FileCap
      BY DEF CapsHold
    <3>1. ~raced /\ CountHolds(b)
      BY <1>0, <2>1 DEF UploadInv, UploadTypeOK
    <3>2. /\ Cardinality(album) + Cardinality(batch[b].found) <= ByteCap
          /\ Cardinality(album) + Cardinality(batch[b].eligible) <= FileCap
      BY <2>1, <3>1 DEF CountHolds
    <3> QED BY <1>0, <2>2, <3>2, SmallSets
  <2>4. ASSUME ~raced', NEW c \in Batch PROVE CountHolds(c)'
    <3>1. CASE c = b
      BY <2>1, <3>1 DEF CountHolds
    <3>2. CASE c # b
      <4>1. batch[c].pc \notin {"head", "quota", "insert"}
        BY <1>0, <2>1, <2>4, <3>2 DEF StaleElsewhere, UploadTypeOK
      <4>2. batch'[c].pc = batch[c].pc
        BY <3>2
      <4> QED BY <4>1, <4>2 DEF CountHolds
    <3> QED BY <3>1, <3>2
  <2> QED BY <2>2, <2>3, <2>4
<1>2. CASE ~FinalizeInsertRows(b)
  <2>1. UNCHANGED <<album, raced>>
    BY <1>2 DEF BatchNext, Drop, Measure, Presign, Take, PutOk, PutFails, FinalizeCount,
                FinalizeHeads, FinalizeQuota, FinalizeAnswer, ServerSame
  <2>0. /\ FinalizeCount(b) => batch'[b].pc \in {"answer", "head"}
        /\ FinalizeHeads(b) => batch'[b].pc \in {"answer", "quota"}
        /\ FinalizeQuota(b) => batch'[b].pc \in {"answer", "insert"}
        /\ Drop(b) \/ Measure(b) \/ Presign(b) \/ Take(b) \/ PutOk(b) \/ PutFails(b) \/ FinalizeAnswer(b)
             => batch'[b].pc \in {"measure", "presign", "put", "done"}
    <3>1. batch \in [Batch -> Batches]
      BY <1>0 DEF UploadTypeOK, Batches, UploadPc
    <3>2. FinalizeCount(b) => batch'[b].pc \in {"answer", "head"}
      BY <3>1 DEF FinalizeCount, Refuse, Step, Batches
    <3>3. FinalizeHeads(b) => batch'[b].pc \in {"answer", "quota"}
      BY <3>1, Heads DEF Headed
    <3>4. FinalizeQuota(b) => batch'[b].pc \in {"answer", "insert"}
      BY <3>1 DEF FinalizeQuota, Refuse, Step, Batches
    <3>5. Drop(b) => batch'[b].pc = "measure"
      BY <3>1 DEF Drop, Batches
    <3>6. Measure(b) => batch'[b].pc \in {"done", "presign"}
      BY <3>1 DEF Measure, Batches
    <3>7. Presign(b) => batch'[b].pc \in {"put", "done"}
      BY <3>1 DEF Presign, FailBatch, Batches
    <3>8. Take(b) \/ PutOk(b) \/ PutFails(b) => batch'[b].pc = "put"
      <4>1. PutOk(b) \/ PutFails(b) => batch[b].pc = "put"
        BY DEF UploadInv, BatchOK, BatchShape, PutOk, PutFails
      <4> QED BY <3>1, <4>1 DEF Take, PutOk, PutFails, Batches
    <3>9. FinalizeAnswer(b) => batch'[b].pc = "done"
      BY <3>1 DEF FinalizeAnswer, FailBatch, Batches
    <3> QED BY <3>2, <3>3, <3>4, <3>5, <3>6, <3>7, <3>8, <3>9
  <2>2. ASSUME ~raced, CountHolds(b) PROVE CountHolds(b)'
    <3>1. CASE batch'[b].pc \notin {"head", "quota", "insert"}
      BY <3>1 DEF CountHolds
    <3>2. CASE batch'[b].pc = "head"
      <4>1. FinalizeCount(b)
        BY <1>2, <2>0, <3>2 DEF BatchNext
      <4>2. CASE FinalizeCount(b)
        <5>1. /\ Cardinality(album) + Cardinality(batch[b].eligible) <= FileCap
              /\ batch'[b] = [batch[b] EXCEPT !.pc = "head"]
          BY <1>0, <3>2, <4>2, SmallSets DEF FinalizeCount, Step, Refuse, UploadTypeOK
        <5> QED BY <1>0, <2>1, <5>1, <3>2 DEF CountHolds, UploadTypeOK
      <4> QED BY <4>1, <4>2
    <3>3. CASE batch'[b].pc = "quota"
      <4>1. FinalizeHeads(b)
        BY <1>2, <2>0, <3>3 DEF BatchNext
      <4>2. batch[b].pc = "head" /\ batch'[b].eligible = batch[b].eligible
        <5>1. batch \in [Batch -> Batches]
          BY <1>0 DEF UploadTypeOK, Batches, UploadPc
        <5>2. batch[b].pc = "head"
          BY <4>1 DEF FinalizeHeads
        <5>3. PICK missed, pc, outcome : batch' = [batch EXCEPT ![b] = Headed(b, missed, pc, outcome)]
          BY <4>1, <5>1, Heads
        <5> QED BY <5>1, <5>2, <5>3 DEF Headed
      <4> QED BY <2>1, <2>2, <3>3, <4>2 DEF CountHolds
    <3>4. CASE batch'[b].pc = "insert"
      <4>1. FinalizeQuota(b)
        BY <1>2, <2>0, <3>4 DEF BatchNext
      <4>2. /\ Fits(b) /\ batch[b].pc = "quota"
            /\ batch'[b] = [batch[b] EXCEPT !.pc = "insert"]
        BY <1>0, <3>4, <4>1 DEF FinalizeQuota, Step, Refuse, UploadTypeOK
      <4> QED BY <1>0, <2>1, <2>2, <4>2 DEF CountHolds, Fits, UploadTypeOK
    <3> QED BY <3>1, <3>2, <3>3, <3>4
  <2>3. ASSUME ~raced, NEW c \in Batch \ {b} PROVE CountHolds(c)'
    BY <2>1, <2>3 DEF CountHolds, UploadInv
  <2> QED BY <2>1, <2>2, <2>3 DEF UploadInv, CapsHold
<1> QED BY <1>1, <1>2

LEMMA UploadStep == UploadInv /\ [UploadNext]_uploadVars => UploadInv'
<1> SUFFICES ASSUME UploadInv, [UploadNext]_uploadVars PROVE UploadInv'
  OBVIOUS
<1>1. CASE UNCHANGED uploadVars
  BY <1>1 DEF uploadVars, UploadInv, UploadTypeOK, BatchOK, BatchShape, RowAt, ReasonOf, CapsHold, CountHolds
<1>2. ASSUME NEW b \in Batch, BatchNext(b) PROVE UploadInv'
  <2>1. UploadTypeOK'
    BY <1>2, UploadTyped
  <2>2. \A c \in Batch \ {b} : batch'[c] = batch[c]
    BY <1>2, OthersUntouched
  <2>3. ASSUME NEW c \in Batch PROVE BatchOK(c)'
    <3>1. CASE c = b
      BY <1>2, <3>1, OwnRows
    <3>2. CASE c # b
      <4>1. /\ batch'[c] = batch[c] /\ \A f \in FileOf[c] : upRow'[f] = upRow[f]
            /\ stored \subseteq stored' /\ album \subseteq album' /\ trouble \subseteq trouble'
        BY <1>2, <3>2, OthersUntouched
      <4>2. BatchOK(c)
        BY DEF UploadInv
      <4> QED BY <4>1, <4>2 DEF BatchOK, BatchShape, RowAt, ReasonOf
    <3> QED BY <3>1, <3>2
  <2>4. IsFiniteSet(album') /\ CapsHold' /\ (~raced' => \A c \in Batch : CountHolds(c)')
    BY <1>2, <2>1, <2>2, CapsStep
  <2> QED BY <2>1, <2>3, <2>4 DEF UploadInv
<1> QED BY <1>1, <1>2 DEF UploadNext, BatchNext

\* What the panel says of a file is true.
LEMMA RowsAreTrue == UploadInv => RowsTellTheTruth
BY DEF UploadInv, BatchOK, RowAt, ReasonOf, RowsTellTheTruth

(* However many batches upload at once: a row of the panel shows an error    *)
(* only for a reason of its own file or batch, and one that stays uploaded   *)
(* is in the album (Dropzone.tsx); the caps are passed only where finalize   *)
(* requests overlapped (finalize/route.ts).                                  *)
THEOREM UploadHolds == UploadSpec => [](UploadTypeOK /\ RowsTellTheTruth /\ CapsHold)
<1>1. UploadInv => UploadTypeOK /\ RowsTellTheTruth /\ CapsHold
  BY RowsAreTrue DEF UploadInv
<1> QED BY UploadBegins, UploadStep, <1>1, PTL DEF UploadSpec

-----------------------------------------------------------------------------
(* The editor.                                                              *)

LEMMA EditorConstants ==
    /\ Scale \in Nat /\ Scale > 0 /\ MinBox \in Nat /\ MinBox >= 1 /\ MinBox <= Scale
    /\ FirstAt \in Nat /\ FirstLen \in Nat /\ FirstAt + FirstLen <= Scale
    /\ MaxEdits \in Nat
BY EditorAssumption

\* Rounding a coordinate moves an edge by half a pixel at most.
LEMMA PixelsNear ==
    ASSUME NEW n \in Nat, NEW side \in Nat
    PROVE  /\ Pixels(n, side) \in Nat
           /\ 2 * (Scale * Pixels(n, side)) <= 2 * (n * side) + Scale
           /\ 2 * (n * side) < 2 * (Scale * Pixels(n, side)) + Scale
<1> DEFINE a == 2 * n * side + Scale
           q == a \div (2 * Scale)
<1>1. n * side \in Nat /\ a \in Nat /\ 2 * Scale \in Nat /\ 2 * Scale > 0 /\ a = 2 * (n * side) + Scale
  BY EditorConstants
<1>2. \A x \in Nat, y \in Nat : y > 0 =>
         x \div y \in Nat /\ y * (x \div y) <= x /\ x < y * (x \div y) + y
  OBVIOUS
<1>3. q \in Nat /\ 2 * Scale * q <= a /\ a < 2 * Scale * q + 2 * Scale
  BY <1>1, <1>2
<1>4. 2 * Scale * q = 2 * (Scale * q) /\ Scale * q \in Nat
  BY <1>3, EditorConstants
<1> QED BY <1>1, <1>3, <1>4, EditorConstants DEF Pixels

Inside(span) == span.at + span.len <= Scale
InImage == {b \in CropBox : \A a \in Axis : Inside(b[a])}

\* What the route extracts of a box in the image is a region of the image,
\* if it is not empty.
RegionOK(c) ==
    /\ c.left >= 0 /\ c.width >= 1 /\ c.left + c.width <= c.side
    /\ Scale * (c.left + c.width) - (c.span.at + c.span.len) * c.side \in -Scale..Scale
    /\ Scale * c.left - c.span.at * c.side \in -Scale..Scale

LEMMA ExtractInside ==
    ASSUME NEW span \in Span, Inside(span), NEW side \in Nat, Extract(span, side).width > 0
    PROVE  RegionOK(Extract(span, side)) /\ Extract(span, side).width \in Nat
<1> DEFINE left == Pixels(span.at, side)
           wide == Pixels(span.len, side)
           width == Extract(span, side).width
<1>1. span.at \in Nat /\ span.len \in Nat /\ span.at + span.len <= Scale
  BY EditorConstants DEF Span, Inside
<1>2. /\ left \in Nat /\ 2 * (Scale * left) <= 2 * (span.at * side) + Scale
      /\ 2 * (span.at * side) < 2 * (Scale * left) + Scale
  BY <1>1, PixelsNear
<1>3. /\ wide \in Nat /\ 2 * (Scale * wide) <= 2 * (span.len * side) + Scale
      /\ 2 * (span.len * side) < 2 * (Scale * wide) + Scale
  BY <1>1, PixelsNear
<1>4. /\ Extract(span, side).left = left /\ Extract(span, side).side = side /\ Extract(span, side).span = span
      /\ width = IF wide > side - left THEN side - left ELSE wide
  BY DEF Extract
<1> HIDE DEF left, wide, width
<1>5. /\ (span.at + span.len) * side = span.at * side + span.len * side
      /\ (span.at + span.len) * side <= Scale * side
      /\ span.at * side \in Nat /\ span.len * side \in Nat /\ Scale * side \in Nat
  BY <1>1, EditorConstants
<1>6. /\ Scale * left \in Nat /\ Scale * wide \in Nat /\ Scale * (left + wide) = Scale * left + Scale * wide
  BY <1>2, <1>3, EditorConstants
<1>7. width \in Nat /\ width > 0 /\ left + width <= side
  BY <1>2, <1>3, <1>4 DEF width
<1>8. CASE wide > side - left
  <2>1. left + width = side
    BY <1>2, <1>3, <1>4, <1>8
  <2>2. Scale * side <= Scale * (left + wide)
    BY <1>2, <1>3, <1>8, EditorConstants
  <2>3. Scale * (left + width) = Scale * side
    BY <2>1
  <2>4. /\ Scale * (left + width) - (span.at + span.len) * side \in -Scale..Scale
        /\ Scale * left - span.at * side \in -Scale..Scale
    BY <1>2, <1>3, <1>5, <1>6, <2>2, <2>3, EditorConstants
  <2> QED BY <1>2, <1>4, <1>7, <2>4 DEF RegionOK, width
<1>9. CASE ~(wide > side - left)
  <2>1. width = wide
    BY <1>4, <1>9
  <2> QED BY <1>1, <1>2, <1>3, <1>4, <1>5, <1>6, <1>7, <2>1, EditorConstants DEF RegionOK, width
<1> QED BY <1>7, <1>8, <1>9 DEF width

LEMMA DraggedInside ==
    ASSUME NEW span \in Span, Inside(span), NEW edge \in {"move", "low", "high"}, NEW d \in Int
    PROVE  Pulled(span, edge, d) \in Span /\ Inside(Pulled(span, edge, d))
<1>1. span.at \in 0..Scale /\ span.len \in 0..Scale /\ span.at + span.len <= Scale
  BY DEF Span, Inside
<1>2. \A v \in Int : Clamp01(v) \in 0..Scale
  BY EditorConstants DEF Clamp01
<1>3. \A at \in 0..Scale, len \in 0..Scale : Fitted(at, len) \in Span /\ Inside(Fitted(at, len))
  BY EditorConstants DEF Fitted, Span, Inside
<1>4. CASE edge = "move"
  <2>1. Pulled(span, edge, d) = [span EXCEPT !.at = IF Clamp01(span.at + d) + span.len > Scale
                                                      THEN Scale - span.len ELSE Clamp01(span.at + d)]
    BY <1>4 DEF Pulled
  <2>2. Clamp01(span.at + d) \in 0..Scale
    BY <1>1, <1>2
  <2> QED BY <1>1, <2>1, <2>2, EditorConstants DEF Span, Inside
<1>5. CASE edge = "low"
  <2>1. Clamp01(span.at + d) \in 0..Scale /\ Clamp01(span.len - d) \in 0..Scale
    BY <1>1, <1>2
  <2> QED BY <1>3, <1>5, <2>1 DEF Pulled
<1>6. CASE edge = "high"
  <2>1. Clamp01(span.len + d) \in 0..Scale
    BY <1>1, <1>2
  <2> QED BY <1>1, <1>3, <1>6, <2>1 DEF Pulled
<1> QED BY <1>4, <1>5, <1>6

-----------------------------------------------------------------------------
Cut == [left : Int, width : Nat \ {0}, span : Span, side : Nat]
Editors == [open : BOOLEAN, rotate : Turns, crop : SUBSET InImage, brightness : BOOLEAN,
            pending : BOOLEAN, err : BOOLEAN]
Saves == [pc : {"none", "sent", "answered"}, rotate : Turns, crop : SUBSET InImage, brightness : BOOLEAN,
          mine : BOOLEAN, why : {"ok", "other", "empty"},
          cut : SUBSET {c \in [Axis -> Cut] : \A a \in Axis : RegionOK(c[a])}]

EditorInv ==
    /\ size \in [Axis -> Nat \ {0}] /\ edits \in 0..MaxEdits
    /\ editor \in Editors /\ save \in Saves

LEMMA Blank == ClosedEditor \in Editors /\ NoSave \in Saves
BY EditorConstants DEF ClosedEditor, NoSave, Editors, Saves, Turns

LEMMA EditorBegins == EditorInit => EditorInv
<1>1. ASSUME EditorInit PROVE size \in [Axis -> Nat \ {0}] /\ edits \in 0..MaxEdits
  <2>1. size \in [Axis -> Extent] /\ edits = 0
    BY <1>1 DEF EditorInit
  <2>2. Extent \subseteq Nat \ {0}
    BY EditorAssumption
  <2>3. size \in [Axis -> Nat \ {0}]
    BY <2>1, <2>2
  <2>4. 0 \in 0..MaxEdits
    BY EditorConstants
  <2> QED BY <2>1, <2>3, <2>4
<1> QED BY <1>1, Blank DEF EditorInv, EditorInit

LEMMA DialogMoves ==
    ASSUME EditorInv, OpenEditor \/ CropTab \/ PickOthers \/ DragBox \/ CloseEditor \/ Save \/ SaveAnswered
    PROVE  EditorInv'
<1> USE DEF EditorInv
<1>1. CASE OpenEditor
  BY <1>1, Blank DEF OpenEditor, Editors
<1>2. CASE CropTab
  <2>1. [a \in Axis |-> [at |-> FirstAt, len |-> FirstLen]] \in InImage
    BY EditorConstants DEF InImage, CropBox, Span, Inside
  <2> QED BY <1>2, <2>1 DEF CropTab, Editors
<1>3. CASE PickOthers
  BY <1>3 DEF PickOthers, Editors
<1>4. CASE DragBox
  <2>1. PICK b \in editor.crop, a \in Axis, d \in -Scale..Scale,
             edge \in [Axis -> {"low", "high"}] \cup {[c \in Axis |-> "move"]} :
          editor' = [editor EXCEPT !.crop = {[c \in Axis |-> Pulled(b[c], edge[c], IF c = a THEN d ELSE 0)]}]
    BY <1>4 DEF DragBox
  <2>2. b \in InImage
    BY <2>1 DEF Editors
  <2>3. ASSUME NEW c \in Axis
        PROVE  /\ Pulled(b[c], edge[c], IF c = a THEN d ELSE 0) \in Span
               /\ Inside(Pulled(b[c], edge[c], IF c = a THEN d ELSE 0))
    <3>1. b[c] \in Span /\ Inside(b[c]) /\ edge[c] \in {"move", "low", "high"}
      BY <2>2 DEF InImage, CropBox
    <3>2. (IF c = a THEN d ELSE 0) \in Int
      BY EditorConstants
    <3> QED BY <3>1, <3>2, DraggedInside
  <2>4. [c \in Axis |-> Pulled(b[c], edge[c], IF c = a THEN d ELSE 0)] \in InImage
    BY <2>3 DEF InImage, CropBox
  <2> QED BY <1>4, <2>1, <2>4 DEF DragBox, Editors
<1>5. CASE CloseEditor
  BY <1>5, Blank DEF CloseEditor, Saves
<1>6. CASE Save
  <2>1. CASE UNCHANGED <<save, edits>> /\ editor' = [editor EXCEPT !.err = TRUE] /\ UNCHANGED size
    BY <2>1 DEF Editors
  <2>2. CASE /\ edits < MaxEdits /\ edits' = edits + 1 /\ UNCHANGED size
             /\ editor' = [editor EXCEPT !.err = FALSE, !.pending = TRUE]
             /\ save' = [NoSave EXCEPT !.pc = "sent", !.mine = TRUE, !.rotate = editor.rotate,
                                      !.crop = editor.crop, !.brightness = editor.brightness]
    <3>1. editor' \in Editors
      BY <2>2 DEF Editors
    <3>2. save' \in Saves
      BY <2>2, Blank DEF Editors, Saves
    <3> QED BY <2>2, <3>1, <3>2, EditorConstants
  <2> QED BY <1>6, <2>1, <2>2 DEF Save
<1>7. CASE SaveAnswered
  BY <1>7, Blank DEF SaveAnswered, Editors
<1> QED BY <1>1, <1>2, <1>3, <1>4, <1>5, <1>6, <1>7

LEMMA RouteMoves == ASSUME EditorInv, PostEdit PROVE EditorInv'
<1>0. /\ editor' \in Editors /\ edits' \in 0..MaxEdits /\ save \in Saves
      /\ size \in [Axis -> Nat \ {0}] /\ "x" \in Axis /\ "y" \in Axis
  BY DEF EditorInv, PostEdit, Axis
<1>1. ASSUME NEW why \in {"other", "empty"}, RefuseEdit(why) PROVE EditorInv'
  BY <1>0, <1>1 DEF RefuseEdit, Saves, EditorInv
<1>2. ASSUME NEW cut, WriteOriginal(cut),
             \/ cut = {}
             \/ \E c \in [Axis -> Cut] : cut = {c} /\ \A a \in Axis : RegionOK(c[a])
      PROVE EditorInv'
  <2>1. save' \in Saves
    BY <1>0, <1>2 DEF WriteOriginal, Saves
  <2> DEFINE kept == [a \in Axis |-> IF cut = {} THEN size[a] ELSE (CHOOSE c \in cut : TRUE)[a].width]
  <2>2. kept \in [Axis -> Nat \ {0}]
    <3>1. CASE cut = {}
      BY <1>0, <3>1
    <3>2. CASE cut # {}
      <4>1. PICK c \in [Axis -> Cut] : cut = {c}
        BY <1>2, <3>2
      <4>2. (CHOOSE d \in cut : TRUE) = c
        BY <4>1
      <4> QED BY <3>2, <4>1, <4>2 DEF Cut
    <3> QED BY <3>1, <3>2
  <2>3. size' = IF save.rotate \in {1, 3} THEN [x |-> kept["y"], y |-> kept["x"]] ELSE kept
    BY <1>2 DEF WriteOriginal
  <2>4. kept["x"] \in Nat \ {0} /\ kept["y"] \in Nat \ {0}
    BY <1>0, <2>2
  <2> HIDE DEF kept
  <2>5. [x |-> kept["y"], y |-> kept["x"]] \in [Axis -> Nat \ {0}]
    BY <2>4 DEF Axis
  <2> QED BY <1>0, <2>1, <2>2, <2>3, <2>5 DEF EditorInv
<1>3. ASSUME NEW b \in save.crop, \A a \in Axis : ~([x \in Axis |-> Extract(b[x], size[x])][a].width <= 0)
      PROVE  /\ [a \in Axis |-> Extract(b[a], size[a])] \in [Axis -> Cut]
             /\ \A a \in Axis : RegionOK([x \in Axis |-> Extract(b[x], size[x])][a])
  <2>1. b \in InImage
    BY <1>0 DEF Saves
  <2>2. ASSUME NEW a \in Axis PROVE Extract(b[a], size[a]) \in Cut /\ RegionOK(Extract(b[a], size[a]))
    <3>1. b[a] \in Span /\ Inside(b[a]) /\ size[a] \in Nat
      BY <1>0, <2>1 DEF InImage, CropBox
    <3>2. Pixels(b[a].at, size[a]) \in Nat /\ Pixels(b[a].len, size[a]) \in Nat
      <4>1. b[a].at \in Nat /\ b[a].len \in Nat
        BY <3>1, EditorConstants DEF Span
      <4> QED BY <3>1, <4>1, PixelsNear
    <3>3. Extract(b[a], size[a]).width > 0
      <4>1. ~(Extract(b[a], size[a]).width <= 0)
        BY <1>3
      <4>2. Extract(b[a], size[a]).width \in Int
        BY <3>1, <3>2 DEF Extract
      <4> QED BY <4>1, <4>2
    <3>4. RegionOK(Extract(b[a], size[a])) /\ Extract(b[a], size[a]).width \in Nat
      BY <3>1, <3>3, ExtractInside
    <3> QED BY <3>1, <3>2, <3>3, <3>4 DEF Cut, Extract
  <2> QED BY <2>2
<1>4. ASSUME NEW b \in save.crop PROVE Verdict(b) \in {"empty", "ok"}
  <2>1. b \in InImage
    BY <1>0 DEF Saves
  <2>2. ASSUME NEW a \in Axis PROVE ~(b[a].at + b[a].len > Scale)
    BY <2>1, EditorConstants DEF InImage, CropBox, Inside, Span
  <2> QED BY <2>2 DEF Verdict
<1> QED BY <1>1, <1>2, <1>3, <1>4 DEF PostEdit

LEMMA EditorMoves == EditorInv /\ [EditorNext]_editorVars => EditorInv'
<1> SUFFICES ASSUME EditorInv, [EditorNext]_editorVars PROVE EditorInv'
  OBVIOUS
<1>1. CASE UNCHANGED editorVars
  BY <1>1 DEF editorVars, EditorInv
<1>2. CASE OtherEdit
  <2>1. size' \in [Axis -> Nat \ {0}]
    BY <1>2, EditorAssumption DEF OtherEdit
  <2> QED BY <1>2, <2>1, EditorConstants DEF OtherEdit, EditorInv
<1> QED BY <1>1, <1>2, DialogMoves, RouteMoves DEF EditorNext

LEMMA EditorProperties == EditorInv => EditorTypeOK /\ ExtractStaysInside
<1> SUFFICES ASSUME EditorInv PROVE EditorTypeOK /\ ExtractStaysInside
  OBVIOUS
<1>1. EditorTypeOK
  BY DEF EditorInv, EditorTypeOK, Editors, Saves, InImage
<1>2. \A b \in editor.crop : \A a \in Axis : b[a].at >= 0 /\ b[a].len >= 0 /\ b[a].at + b[a].len <= Scale
  BY EditorConstants DEF EditorInv, Editors, InImage, CropBox, Span, Inside
<1>3. save.why # "bounds"
  BY DEF EditorInv, Saves
<1>4. \A cut \in save.cut : \A a \in Axis : RegionOK(cut[a])
  BY DEF EditorInv, Saves
<1> QED BY <1>1, <1>2, <1>3, <1>4 DEF ExtractStaysInside, RegionOK

(* Whatever is drawn and turned in the editor, the rectangle the server cuts *)
(* is inside the original and within a pixel of the box (PhotoEditor.tsx,    *)
(* photos/[id]/edit/route.ts).                                               *)
THEOREM CropsStayInside == EditorSpec => [](EditorTypeOK /\ ExtractStaysInside)
<1> QED BY EditorBegins, EditorMoves, EditorProperties, PTL DEF EditorSpec

-----------------------------------------------------------------------------
(* The settings cache.                                                      *)

Calls == [pc : {"idle", "query", "fill", "answered", "upsert", "bust"}, clear : BOOLEAN, start : Clock,
          section : Section, value : Settings, save : Value]
Truth == [Section -> [Value -> Clock \cup {-1}]]

SettingsTyped ==
    /\ clock \in Clock /\ rows \in Settings /\ saves \in 0..MaxSaves
    /\ memo \in [expires : -1..(MaxClock + SettingsTTL), value : Settings]
    /\ caller \in [Caller -> Calls]
    /\ truth \in Truth

\* Every section of v was in its row at t or later.
HeldSince(v, t) == \A s \in Section : truth[s][v[s]] # -1 /\ t <= truth[s][v[s]]

CallRecent(c) ==
    /\ caller[c].pc \in {"query", "fill"} => caller[c].start <= clock /\ clock - caller[c].start <= SlowSettings
    /\ caller[c].pc = "fill" => HeldSince(caller[c].value, caller[c].start)
    /\ caller[c].pc = "answered" => HeldSince(caller[c].value, clock - Stalest)

SettingsInv ==
    /\ SettingsTyped
    /\ HeldSince(rows, clock) /\ \A s \in Section, v \in Value : truth[s][v] <= clock
    /\ memo.expires # -1 => HeldSince(memo.value, memo.expires - SettingsTTL)
    /\ \A c \in Caller : CallRecent(c)

(* The bounds are numbers, and the first records typed.                     *)
LEMMA SettingsConstants ==
    /\ SettingsTTL \in Nat /\ SettingsTTL > 0 /\ SlowSettings \in Nat /\ MaxClock \in Nat /\ MaxSaves \in Nat
    /\ Clock \subseteq Nat /\ Clock \cup {-1} \subseteq Int /\ 0 \in Clock /\ Stalest \in Nat
    /\ SlowSettings <= Stalest /\ SettingsTTL - 1 <= Stalest
BY SettingsAssumption DEF Clock, Stalest

LEMMA RestingTyped ==
    /\ Empty.value \in Settings /\ Empty.expires = -1
    /\ Empty \in [expires : -1..(MaxClock + SettingsTTL), value : Settings]
    /\ Resting \in Calls /\ Resting.pc = "idle"
<1>1. Empty.value \in Settings /\ Empty.expires = -1
  BY SettingsConstants DEF Empty, Settings, Value
<1>2. [save |-> 0, on |-> FALSE] \in Value /\ Telegram \in Section
  BY SettingsConstants, SettingsAssumption DEF Value
<1>3. Resting \in Calls /\ Resting.pc = "idle"
  BY <1>1, <1>2, SettingsConstants DEF Resting, Calls
<1>4. Empty \in [expires : -1..(MaxClock + SettingsTTL), value : Settings]
  BY <1>1, SettingsConstants DEF Empty
<1> QED BY <1>1, <1>3, <1>4

(* What was noted of the past stays noted: later, if anything.              *)
LEMMA HeldStays ==
    ASSUME SettingsTyped, \A s \in Section, v \in Value : truth[s][v] # -1 => truth'[s][v] # -1 /\ truth[s][v] <= truth'[s][v],
           truth' \in Truth, NEW v \in Settings, NEW t \in Int, HeldSince(v, t)
    PROVE  \A s \in Section : truth'[s][v[s]] # -1 /\ t <= truth'[s][v[s]]
<1> TAKE s \in Section
<1>1. v[s] \in Value
  BY DEF Settings
<1>2. truth[s][v[s]] \in Int /\ truth'[s][v[s]] \in Int
  <2>1. truth[s][v[s]] \in Clock \cup {-1} /\ truth'[s][v[s]] \in Clock \cup {-1}
    BY <1>1 DEF SettingsTyped, Truth
  <2> QED BY <2>1, SettingsConstants
<1> QED BY <1>1, <1>2 DEF HeldSince

(* A call's own step that writes no row.                                    *)
LEMMA CallStep ==
    ASSUME SettingsInv, NEW c \in Caller,
           Load(c) \/ Query(c) \/ Fill(c) \/ UseAnswer(c) \/ SubmitForm(c) \/ Bust(c) \/ SaveFails(c)
    PROVE  SettingsInv'
<1>1. UNCHANGED <<clock, rows, truth>>
  BY DEF Load, Query, Fill, UseAnswer, SubmitForm, Bust, SaveFails, SettingsSame
<1>2. /\ clock \in Nat /\ caller \in [Caller -> Calls] /\ caller[c] \in Calls /\ CallRecent(c)
      /\ memo \in [expires : -1..(MaxClock + SettingsTTL), value : Settings] /\ rows \in Settings
      /\ HeldSince(rows, clock) /\ saves \in 0..MaxSaves
  BY SettingsConstants DEF SettingsInv, SettingsTyped
<1>3. \A v, t : HeldSince(v, t)' <=> HeldSince(v', t')
  BY <1>1 DEF HeldSince
<1>9. ASSUME NEW x \in Calls, caller' = [caller EXCEPT ![c] = x], saves' \in 0..MaxSaves,
             memo' \in [expires : -1..(MaxClock + SettingsTTL), value : Settings],
             memo'.expires # -1 => HeldSince(memo'.value, memo'.expires - SettingsTTL),
             x.pc \in {"query", "fill"} => x.start <= clock /\ clock - x.start <= SlowSettings,
             x.pc = "fill" => HeldSince(x.value, x.start),
             x.pc = "answered" => HeldSince(x.value, clock - Stalest)
      PROVE  SettingsInv'
  <2>1. SettingsTyped'
    BY <1>1, <1>2, <1>9 DEF SettingsInv, SettingsTyped
  <2>2. ASSUME NEW d \in Caller PROVE CallRecent(d)'
    <3>1. CASE d = c
      BY <1>1, <1>2, <1>9, <3>1 DEF CallRecent, HeldSince
    <3>2. CASE d # c
      <4>1. caller'[d] = caller[d] /\ CallRecent(d)
        BY <1>2, <1>9, <3>2 DEF SettingsInv
      <4> QED BY <1>1, <4>1 DEF CallRecent, HeldSince
    <3> QED BY <3>1, <3>2
  <2> QED BY <1>1, <1>2, <1>9, <2>1, <2>2 DEF SettingsInv, HeldSince
<1>10. memo.expires # -1 => HeldSince(memo.value, memo.expires - SettingsTTL)
  BY DEF SettingsInv
<1>11. CASE Load(c)
  <2>1. PICK clear \in BOOLEAN :
         caller' = [caller EXCEPT ![c] =
           IF memo.expires > clock
           THEN [Resting EXCEPT !.pc = "answered", !.clear = clear, !.value = memo.value]
           ELSE [Resting EXCEPT !.pc = "query", !.clear = clear, !.start = clock]]
    BY <1>11 DEF Load
  <2>2. UNCHANGED <<memo, saves>>
    BY <1>11 DEF Load, SettingsSame
  <2>3. CASE memo.expires > clock
    <3> DEFINE x == [Resting EXCEPT !.pc = "answered", !.clear = clear, !.value = memo.value]
    <3>1. x \in Calls /\ x.pc = "answered" /\ x.value = memo.value
      BY <1>2, RestingTyped DEF Calls
    <3>2. HeldSince(memo.value, clock - Stalest)
      <4>1. HeldSince(memo.value, memo.expires - SettingsTTL) /\ memo.expires \in Int /\ memo.value \in Settings
        BY <1>2, <1>10, <2>3
      <4>2. clock - Stalest <= memo.expires - SettingsTTL
        BY <1>2, <2>3, <4>1, SettingsConstants
      <4>5. clock - Stalest \in Int /\ memo.expires - SettingsTTL \in Int
        BY <1>2, <4>1, SettingsConstants
      <4>3. \A s \in Section : truth[s][memo.value[s]] \in Clock \cup {-1}
        BY <4>1 DEF SettingsInv, SettingsTyped, Truth, Settings
      <4>4. \A s \in Section : truth[s][memo.value[s]] \in Int
        BY <4>3, SettingsConstants
      <4> QED BY <4>1, <4>2, <4>4, <4>5 DEF HeldSince
    <3>3. caller' = [caller EXCEPT ![c] = x]
      BY <2>1, <2>3
    <3> HIDE DEF x
    <3> QED BY <1>2, <1>9, <1>10, <2>2, <3>1, <3>2, <3>3
  <2>4. CASE ~(memo.expires > clock)
    <3> DEFINE x == [Resting EXCEPT !.pc = "query", !.clear = clear, !.start = clock]
    <3>1. x \in Calls /\ x.pc = "query" /\ x.start = clock
      BY RestingTyped DEF Calls, SettingsInv, SettingsTyped
    <3>2. caller' = [caller EXCEPT ![c] = x]
      BY <2>1, <2>4
    <3>3. x.start <= clock /\ clock - x.start <= SlowSettings
      BY <1>2, <3>1, SettingsConstants
    <3> HIDE DEF x
    <3> QED BY <1>2, <1>9, <1>10, <2>2, <3>1, <3>2, <3>3
  <2> QED BY <2>3, <2>4
<1>12. CASE Query(c)
  <2> DEFINE x == [caller[c] EXCEPT !.pc = "fill", !.value = rows]
  <2>1. /\ caller[c].pc = "query" /\ UNCHANGED <<memo, saves>> /\ caller' = [caller EXCEPT ![c] = x]
    BY <1>2, <1>12 DEF Query, SettingsSame, Calls
  <2>2. x \in Calls /\ x.pc = "fill" /\ x.value = rows /\ x.start = caller[c].start /\ x.start \in Nat
    BY <1>2, SettingsConstants DEF Calls
  <2>3. HeldSince(rows, x.start)
    <3>1. x.start <= clock
      BY <1>2, <2>1, <2>2 DEF CallRecent
    <3>2. \A s \in Section : truth[s][rows[s]] \in Clock \cup {-1}
      BY <1>2 DEF SettingsInv, SettingsTyped, Truth, Settings
    <3> QED BY <1>2, <2>2, <3>1, <3>2, SettingsConstants DEF HeldSince
  <2> HIDE DEF x
  <2> QED BY <1>2, <1>9, <1>10, <2>1, <2>2, <2>3 DEF CallRecent
<1>13. CASE Fill(c)
  <2> DEFINE x == [caller[c] EXCEPT !.pc = "answered"]
  <2>1. /\ caller[c].pc = "fill" /\ UNCHANGED saves /\ caller' = [caller EXCEPT ![c] = x]
        /\ memo' = [expires |-> caller[c].start + SettingsTTL, value |-> caller[c].value]
    BY <1>2, <1>13 DEF Fill, Calls
  <2>2. /\ x \in Calls /\ x.pc = "answered" /\ x.value = caller[c].value /\ x.value \in Settings
        /\ caller[c].start \in Clock
    BY <1>2, SettingsConstants DEF Calls
  <2>3. /\ memo'.expires - SettingsTTL = caller[c].start /\ memo'.expires \in -1..(MaxClock + SettingsTTL)
        /\ memo'.value = x.value
    BY <2>1, <2>2, SettingsConstants DEF Clock
  <2>4. HeldSince(x.value, clock - Stalest)
    <3>1. clock - Stalest <= caller[c].start /\ HeldSince(x.value, caller[c].start)
      BY <1>2, <2>1, <2>2, SettingsConstants DEF CallRecent
    <3>2. \A s \in Section : truth[s][x.value[s]] \in Clock \cup {-1}
      BY <2>2 DEF SettingsInv, SettingsTyped, Truth, Settings
    <3> QED BY <1>2, <2>2, <3>1, <3>2, SettingsConstants DEF HeldSince
  <2>5. memo' \in [expires : -1..(MaxClock + SettingsTTL), value : Settings]
    BY <2>1, <2>2, <2>3
  <2> HIDE DEF x
  <2> QED BY <1>2, <1>9, <2>1, <2>2, <2>3, <2>4, <2>5 DEF CallRecent
<1>14. ASSUME NEW x \in Calls, caller' = [caller EXCEPT ![c] = x], x.pc \in {"idle", "upsert"},
              memo' = memo \/ memo' = Empty, saves' \in 0..MaxSaves
       PROVE  SettingsInv'
  BY <1>2, <1>9, <1>10, <1>14, RestingTyped
<1>15. CASE UseAnswer(c)
  <2>1. caller[c].value[Telegram] \in Value
    BY <1>2, SettingsAssumption DEF Calls, Settings
  <2> DEFINE y == [Resting EXCEPT !.pc = "upsert", !.save = [caller[c].value[Telegram] EXCEPT !.on = FALSE]]
  <2>2. y \in Calls /\ y.pc = "upsert"
    BY <2>1, RestingTyped DEF Calls, Value
  <2>3. caller' = [caller EXCEPT ![c] = IF caller[c].clear THEN y ELSE Resting] /\ UNCHANGED <<memo, saves>>
    BY <1>15 DEF UseAnswer, SettingsSame
  <2> HIDE DEF y
  <2> QED BY <1>2, <1>14, <2>2, <2>3, RestingTyped
<1>16. CASE SubmitForm(c)
  <2>1. PICK s \in Section, on \in BOOLEAN :
         caller' = [caller EXCEPT ![c] = [Resting EXCEPT !.pc = "upsert", !.section = s,
                                               !.save = [save |-> saves + 1, on |-> on]]]
    BY <1>16 DEF SubmitForm
  <2>2. saves' = saves + 1 /\ saves' \in 0..MaxSaves /\ memo' = memo
    <3>1. saves' = saves + 1 /\ saves < MaxSaves /\ memo' = memo
      BY <1>16 DEF SubmitForm
    <3> QED BY <1>2, <3>1, SettingsConstants
  <2> DEFINE x == [Resting EXCEPT !.pc = "upsert", !.section = s, !.save = [save |-> saves + 1, on |-> on]]
  <2>3. x \in Calls /\ x.pc = "upsert"
    BY <2>2, RestingTyped DEF Calls, Value
  <2>4. caller' = [caller EXCEPT ![c] = x]
    BY <2>1
  <2> HIDE DEF x
  <2> QED BY <1>14, <2>2, <2>3, <2>4
<1>17. CASE Bust(c) \/ SaveFails(c)
  BY <1>2, <1>14, <1>17, RestingTyped DEF Bust, SaveFails, SettingsSame
<1> QED BY <1>11, <1>12, <1>13, <1>15, <1>16, <1>17

(* A save notes the value it writes; the clock notes what stands.           *)
LEMMA NotedStep ==
    ASSUME SettingsInv, (\E c \in Caller : Upsert(c)) \/ ClockTick PROVE SettingsInv'
<1>1. /\ clock \in Nat /\ clock \in Clock /\ caller \in [Caller -> Calls] /\ rows \in Settings /\ truth \in Truth
      /\ \A s \in Section : rows[s] \in Value
      /\ \A s \in Section, v \in Value : truth[s][v] \in Int /\ truth[s][v] <= clock
      /\ memo \in [expires : -1..(MaxClock + SettingsTTL), value : Settings] /\ saves \in 0..MaxSaves
  <2>1. SettingsTyped
    BY DEF SettingsInv
  <2>2. \A s \in Section, v \in Value : truth[s][v] \in Clock \cup {-1}
    BY <2>1 DEF SettingsTyped, Truth
  <2> QED BY <2>1, <2>2, SettingsConstants DEF SettingsInv, SettingsTyped, Settings
<1>2. ASSUME truth' \in Truth, rows' \in Settings, clock' \in Clock, caller' \in [Caller -> Calls],
             UNCHANGED <<memo, saves>>, clock <= clock',
             \A s \in Section, v \in Value : truth'[s][v] = truth[s][v] \/ truth'[s][v] = clock',
             \A s \in Section : truth'[s][rows'[s]] = clock',
             \A c \in Caller : caller'[c].pc \in {"query", "fill", "answered"} => caller'[c] = caller[c],
             clock' = clock \/ \A c \in Caller : caller[c].pc # "answered" /\
                (caller[c].pc \in {"query", "fill"} => clock' - caller[c].start <= SlowSettings)
      PROVE  SettingsInv'
  <2>1. SettingsTyped'
    BY <1>1, <1>2 DEF SettingsTyped
  <2>9. clock' \in Nat
    BY <1>2, SettingsConstants
  <2>2. clock' \in Nat /\ \A s \in Section, v \in Value : truth[s][v] <= truth'[s][v] /\ truth'[s][v] <= clock'
    <3> SUFFICES ASSUME NEW s \in Section, NEW v \in Value
                 PROVE truth[s][v] <= truth'[s][v] /\ truth'[s][v] <= clock'
      BY <2>9
    <3>1. truth[s][v] \in Int /\ truth[s][v] <= clock /\ (truth'[s][v] = truth[s][v] \/ truth'[s][v] = clock')
      BY <1>1, <1>2
    <3> QED BY <1>1, <1>2, <2>9, <3>1
  <2>3. \A s \in Section, v \in Value : truth[s][v] # -1 => truth'[s][v] # -1
    BY <1>1, <1>2, <2>2
  <2>4. ASSUME NEW v \in Settings, NEW t \in Int, HeldSince(v, t)
        PROVE  \A s \in Section : truth'[s][v[s]] # -1 /\ t <= truth'[s][v[s]]
    BY <1>2, <2>2, <2>3, <2>4, HeldStays DEF SettingsInv
  <2>5. HeldSince(rows, clock)'
    <3>1. \A s \in Section : rows'[s] \in Value
      BY <1>2 DEF Settings
    <3> QED BY <1>2, <2>2, <3>1 DEF HeldSince
  <2>6. memo'.expires # -1 => HeldSince(memo.value, memo.expires - SettingsTTL)'
    <3>1. memo.expires - SettingsTTL \in Int /\ memo.value \in Settings
      BY <1>1, SettingsConstants
    <3> QED BY <1>2, <2>4, <3>1 DEF SettingsInv, HeldSince
  <2>7. ASSUME NEW c \in Caller PROVE CallRecent(c)'
    <3>0. caller[c] \in Calls /\ caller[c].start \in Nat /\ caller[c].value \in Settings /\ CallRecent(c)
      BY <1>1, SettingsConstants DEF Calls, SettingsInv
    <3>1. CASE caller'[c].pc \in {"query", "fill"}
      <4>1. caller'[c] = caller[c]
        BY <1>2, <3>1
      <4>2. caller[c].start <= clock /\ clock - caller[c].start <= SlowSettings
        BY <3>0, <3>1, <4>1 DEF CallRecent
      <4>3. caller[c].start <= clock' /\ clock' - caller[c].start <= SlowSettings
        BY <1>1, <1>2, <2>2, <3>0, <3>1, <4>1, <4>2
      <4>4. caller[c].pc = "fill" => HeldSince(caller[c].value, caller[c].start)
        BY <3>0 DEF CallRecent
      <4>5. caller[c].pc = "fill" => \A s \in Section : truth'[s][caller[c].value[s]] # -1 /\ caller[c].start <= truth'[s][caller[c].value[s]]
        BY <2>4, <3>0, <4>4
      <4> QED BY <3>1, <4>1, <4>3, <4>5 DEF CallRecent, HeldSince
    <3>2. CASE caller'[c].pc = "answered"
      <4>1. caller'[c] = caller[c] /\ clock' = clock
        BY <1>2, <3>2
      <4>2. HeldSince(caller[c].value, clock - Stalest) /\ clock - Stalest \in Int
        BY <1>1, <3>0, <3>2, <4>1, SettingsConstants DEF CallRecent
      <4>3. \A s \in Section : truth'[s][caller[c].value[s]] # -1 /\ clock - Stalest <= truth'[s][caller[c].value[s]]
        BY <2>4, <3>0, <4>2
      <4>4. HeldSince(caller[c].value, clock - Stalest)'
        BY <4>1, <4>3 DEF HeldSince, Stalest
      <4> QED BY <3>2, <4>4 DEF CallRecent
    <3>3. CASE caller'[c].pc \notin {"query", "fill", "answered"}
      BY <3>3 DEF CallRecent
    <3> QED BY <3>1, <3>2, <3>3
  <2> QED BY <2>1, <2>2, <2>5, <2>6, <2>7, <1>2 DEF SettingsInv
<1>3. ASSUME NEW c \in Caller, Upsert(c) PROVE SettingsInv'
  <2>1. caller[c] \in Calls /\ caller[c].section \in Section /\ caller[c].save \in Value /\ caller[c].pc = "upsert"
    BY <1>1, <1>3 DEF Calls, Upsert
  <2>2. /\ rows' = [rows EXCEPT ![caller[c].section] = caller[c].save]
        /\ caller' = [caller EXCEPT ![c].pc = "bust"] /\ UNCHANGED <<clock, memo, saves>>
        /\ truth' = [truth EXCEPT ![caller[c].section] = [truth[caller[c].section] EXCEPT ![caller[c].save] = clock]]
    BY <1>3 DEF Upsert
  <2>3. rows' \in Settings /\ truth' \in Truth
    BY <1>1, <2>1, <2>2 DEF Settings, Truth
  <2>4. \A s \in Section, v \in Value :
          truth'[s][v] = IF s = caller[c].section /\ v = caller[c].save THEN clock ELSE truth[s][v]
    BY <1>1, <2>1, <2>2 DEF Truth
  <2>5. \A s \in Section : rows'[s] = IF s = caller[c].section THEN caller[c].save ELSE rows[s]
    BY <1>1, <2>2 DEF Settings
  <2>6. \A s \in Section : truth[s][rows[s]] = clock
    BY <1>1 DEF SettingsInv, HeldSince
  <2>7. caller' \in [Caller -> Calls] /\ caller'[c].pc = "bust" /\ \A d \in Caller : d # c => caller'[d] = caller[d]
    BY <1>1, <2>1, <2>2 DEF Calls
  <2>8. \A s \in Section : truth'[s][rows'[s]] = clock'
    BY <1>1, <2>1, <2>2, <2>4, <2>5, <2>6
  <2> QED BY <1>1, <1>2, <2>2, <2>3, <2>4, <2>7, <2>8
<1>4. CASE ClockTick
  <2>1. /\ clock' = clock + 1 /\ clock < MaxClock /\ UNCHANGED <<rows, memo, caller, saves>>
        /\ \A c \in Caller : caller[c].pc \in {"query", "fill"} => clock - caller[c].start < SlowSettings
        /\ \A c \in Caller : caller[c].pc # "answered"
        /\ truth' = [s \in Section |-> [truth[s] EXCEPT ![rows[s]] = clock + 1]]
    BY <1>4 DEF ClockTick
  <2>2. clock' \in Clock
    BY <1>1, <2>1, SettingsConstants DEF Clock
  <2>3. truth' \in Truth
    BY <1>1, <2>1, <2>2 DEF Truth
  <2>4. \A s \in Section, v \in Value : truth'[s][v] = IF v = rows[s] THEN clock' ELSE truth[s][v]
    BY <1>1, <2>1 DEF Truth
  <2>5. \A c \in Caller : caller[c].start \in Nat
    BY <1>1, SettingsConstants DEF Calls
  <2>6. \A c \in Caller : caller[c].pc \in {"query", "fill"} => clock' - caller[c].start <= SlowSettings
    BY <1>1, <2>1, <2>5, SettingsConstants
  <2> QED BY <1>1, <1>2, <2>1, <2>2, <2>3, <2>4, <2>6
<1> QED BY <1>3, <1>4

(* Every settings section a caller is given was the row's less than a cache *)
(* window ago, or when a slow query began.                                  *)
THEOREM SettingsAlwaysRecent == SettingsSpec => [](SettingsTypeOK /\ SettingsAreRecent)
<1>1. SettingsInit => SettingsInv
  <2> SUFFICES ASSUME SettingsInit PROVE SettingsInv
    OBVIOUS
  <2>1. truth \in Truth /\ \A s \in Section, v \in Value : truth[s][v] = IF v = rows[s] THEN 0 ELSE -1
    BY SettingsConstants DEF SettingsInit, Truth
  <2>2. SettingsTyped
    BY <2>1, RestingTyped, SettingsConstants DEF SettingsInit, SettingsTyped
  <2>3. HeldSince(rows, clock)
    BY <2>1, <2>2 DEF SettingsInit, HeldSince, SettingsTyped, Settings
  <2> QED BY <2>1, <2>2, <2>3, RestingTyped DEF SettingsInv, SettingsInit, CallRecent
<1>2. SettingsInv /\ [SettingsNext]_settingsVars => SettingsInv'
  <2>1. ASSUME SettingsInv, UNCHANGED settingsVars PROVE SettingsInv'
    BY <2>1 DEF settingsVars, SettingsInv, SettingsTyped, HeldSince, CallRecent
  <2> QED BY <2>1, CallStep, NotedStep DEF SettingsNext
<1>3. SettingsInv => SettingsAreRecent
  <2> SUFFICES ASSUME SettingsInv, NEW c \in Caller, NEW s \in Section, caller[c].pc = "answered"
               PROVE  truth[s][caller[c].value[s]] # -1 /\ clock - truth[s][caller[c].value[s]] <= Stalest
    BY DEF SettingsAreRecent
  <2>1. HeldSince(caller[c].value, clock - Stalest)
    BY DEF SettingsInv, CallRecent
  <2>2. truth[s][caller[c].value[s]] \in Clock \cup {-1} /\ clock \in Clock
    BY DEF SettingsInv, SettingsTyped, Calls, Settings, Truth
  <2> QED BY <2>1, <2>2, SettingsConstants DEF HeldSince
<1>4. SettingsInv => SettingsTypeOK
  BY DEF SettingsInv, SettingsTyped, Calls, Truth, SettingsTypeOK
<1> QED BY <1>1, <1>2, <1>3, <1>4, PTL DEF SettingsSpec

-----------------------------------------------------------------------------
(* The office: a behaviour of it is, for the variables of each module, a    *)
(* behaviour of that module: its own steps while its scene is played, and   *)
(* none in the other scenes.  So a theorem about a module is one about the  *)
(* office.                                                                  *)

LEMMA ShareScene == Spec => ShareSpec
<1>1. Init => ShareInit
  BY DEF Init
<1>2. [Next]_officeVars => [ShareNext]_shareVars
  <2>1. CASE UNCHANGED officeVars
    BY <2>1 DEF officeVars
  <2>2. CASE Next /\ scene = "share"
    BY <2>2 DEF Next
  <2>3. CASE Next /\ scene # "share"
    BY <2>3 DEF Next, Rests
  <2> QED BY <2>1, <2>2, <2>3
<1> QED BY <1>1, <1>2, PTL DEF Spec, ShareSpec

LEMMA AccessScene == Spec => AccessSpec
<1>1. Init => AccessInit
  BY DEF Init
<1>2. [Next]_officeVars => [AccessNext]_accessVars
  <2>1. CASE UNCHANGED officeVars
    BY <2>1 DEF officeVars
  <2>2. CASE Next /\ scene = "access"
    BY <2>2 DEF Next
  <2>3. CASE Next /\ scene # "access"
    BY <2>3 DEF Next, Rests
  <2> QED BY <2>1, <2>2, <2>3
<1> QED BY <1>1, <1>2, PTL DEF Spec, AccessSpec

LEMMA SettingsScene == Spec => SettingsSpec
<1>1. Init => SettingsInit
  BY DEF Init
<1>2. [Next]_officeVars => [SettingsNext]_settingsVars
  <2>1. CASE UNCHANGED officeVars
    BY <2>1 DEF officeVars
  <2>2. CASE Next /\ scene = "settings"
    BY <2>2 DEF Next
  <2>3. CASE Next /\ scene # "settings"
    BY <2>3 DEF Next, Rests
  <2> QED BY <2>1, <2>2, <2>3
<1> QED BY <1>1, <1>2, PTL DEF Spec, SettingsSpec

LEMMA UploadScene == Spec => UploadSpec
<1>1. Init => UploadInit
  BY DEF Init
<1>2. [Next]_officeVars => [UploadNext]_uploadVars
  <2>1. CASE UNCHANGED officeVars
    BY <2>1 DEF officeVars
  <2>2. CASE Next /\ scene = "upload"
    BY <2>2 DEF Next
  <2>3. CASE Next /\ scene # "upload"
    BY <2>3 DEF Next, Rests
  <2> QED BY <2>1, <2>2, <2>3
<1> QED BY <1>1, <1>2, PTL DEF Spec, UploadSpec

LEMMA EditorScene == Spec => EditorSpec
<1>1. Init => EditorInit
  BY DEF Init
<1>2. [Next]_officeVars => [EditorNext]_editorVars
  <2>1. CASE UNCHANGED officeVars
    BY <2>1 DEF officeVars
  <2>2. CASE Next /\ scene = "editor"
    BY <2>2 DEF Next
  <2>3. CASE Next /\ scene # "editor"
    BY <2>3 DEF Next, Rests
  <2> QED BY <2>1, <2>2, <2>3
<1> QED BY <1>1, <1>2, PTL DEF Spec, EditorSpec

LEMMA ImportScene == Spec => ImportSpec
<1>1. Init => ImportInit
  BY DEF Init
<1>2. [Next]_officeVars => [ImportNext]_importVars
  <2>1. CASE UNCHANGED officeVars
    BY <2>1 DEF officeVars
  <2>2. CASE Next /\ scene = "import"
    BY <2>2 DEF Next
  <2>3. CASE Next /\ scene # "import"
    BY <2>3 DEF Next, Rests
  <2> QED BY <2>1, <2>2, <2>3
<1> QED BY <1>1, <1>2, PTL DEF Spec, ImportSpec

LEMMA DeployScene == Spec => DeploySpec
<1>1. Init => DeployInit
  BY DEF Init
<1>2. [Next]_officeVars => [DeployNext]_deployVars
  <2>1. CASE UNCHANGED officeVars
    BY <2>1 DEF officeVars
  <2>2. CASE Next /\ scene = "deploy"
    BY <2>2 DEF Next
  <2>3. CASE Next /\ scene # "deploy"
    BY <2>3 DEF Next, Rests
  <2> QED BY <2>1, <2>2, <2>3
<1> QED BY <1>1, <1>2, PTL DEF Spec, DeploySpec

LEMMA HandScene == Spec => HandSpec
<1>1. Init => HandInit
  BY DEF Init
<1>2. [Next]_officeVars => [HandNext]_handVars
  <2>1. CASE UNCHANGED officeVars
    BY <2>1 DEF officeVars
  <2>2. CASE Next /\ scene = "hands"
    BY <2>2 DEF Next
  <2>3. CASE Next /\ scene # "hands"
    BY <2>3 DEF Next, Rests
  <2> QED BY <2>1, <2>2, <2>3
<1> QED BY <1>1, <1>2, PTL DEF Spec, HandSpec

LEMMA OrderScene == Spec => OrderSpec
<1>1. Init => OrderInit
  BY DEF Init
<1>2. [Next]_officeVars => [OrderNext]_orderVars
  <2>1. CASE UNCHANGED officeVars
    BY <2>1 DEF officeVars
  <2>2. CASE Next /\ scene = "order"
    BY <2>2 DEF Next
  <2>3. CASE Next /\ scene # "order"
    BY <2>3 DEF Next, Rests
  <2> QED BY <2>1, <2>2, <2>3
<1> QED BY <1>1, <1>2, PTL DEF Spec, OrderSpec

LEMMA ImageScene == Spec => ImageSpec
<1>1. Init => ImageInit
  BY DEF Init
<1>2. [Next]_officeVars => [ImageNext]_imageVars
  <2>1. CASE UNCHANGED officeVars
    BY <2>1 DEF officeVars
  <2>2. CASE Next /\ scene = "images"
    BY <2>2 DEF Next
  <2>3. CASE Next /\ scene # "images"
    BY <2>3 DEF Next, Rests
  <2> QED BY <2>1, <2>2, <2>3
<1> QED BY <1>1, <1>2, PTL DEF Spec, ImageSpec

LEMMA BackupScene == Spec => BackupSpec
<1>1. Init => BackupInit
  BY DEF Init
<1>2. [Next]_officeVars => [BackupNext]_backupVars
  <2>1. CASE UNCHANGED officeVars
    BY <2>1 DEF officeVars
  <2>2. CASE Next /\ scene = "backup"
    BY <2>2 DEF Next
  <2>3. CASE Next /\ scene # "backup"
    BY <2>3 DEF Next, Rests
  <2> QED BY <2>1, <2>2, <2>3
<1> QED BY <1>1, <1>2, PTL DEF Spec, BackupSpec

LEMMA ExportScene == Spec => ExportSpec
<1>1. Init => ExportInit
  BY DEF Init
<1>2. [Next]_officeVars => [ExportNext]_exportVars
  <2>1. CASE UNCHANGED officeVars
    BY <2>1 DEF officeVars
  <2>2. CASE Next /\ scene = "export"
    BY <2>2 DEF Next
  <2>3. CASE Next /\ scene # "export"
    BY <2>3 DEF Next, Rests
  <2> QED BY <2>1, <2>2, <2>3
<1> QED BY <1>1, <1>2, PTL DEF Spec, ExportSpec

LEMMA DialogScene == Spec => DialogSpec
<1>1. Init => DialogInit
  BY DEF Init
<1>2. [Next]_officeVars => [DialogNext]_dialogVars
  <2>1. CASE UNCHANGED officeVars
    BY <2>1 DEF officeVars
  <2>2. CASE Next /\ scene = "dialog"
    BY <2>2 DEF Next
  <2>3. CASE Next /\ scene # "dialog"
    BY <2>3 DEF Next, Rests
  <2> QED BY <2>1, <2>2, <2>3
<1> QED BY <1>1, <1>2, PTL DEF Spec, DialogSpec

LEMMA InsightScene == Spec => InsightSpec
<1>1. Init => InsightInit
  BY DEF Init
<1>2. [Next]_officeVars => [InsightNext]_insightVars
  <2>1. CASE UNCHANGED officeVars
    BY <2>1 DEF officeVars
  <2>2. CASE Next /\ scene = "insights"
    BY <2>2 DEF Next
  <2>3. CASE Next /\ scene # "insights"
    BY <2>3 DEF Next, Rests
  <2> QED BY <2>1, <2>2, <2>3
<1> QED BY <1>1, <1>2, PTL DEF Spec, InsightSpec

LEMMA LightboxScene == Spec => LightboxSpec
<1>1. Init => LightboxInit
  BY DEF Init
<1>2. [Next]_officeVars => [LightboxNext]_lightboxVars
  <2>1. CASE UNCHANGED officeVars
    BY <2>1 DEF officeVars
  <2>2. CASE Next /\ scene = "lightbox"
    BY <2>2 DEF Next
  <2>3. CASE Next /\ scene # "lightbox"
    BY <2>3 DEF Next, Rests
  <2> QED BY <2>1, <2>2, <2>3
<1> QED BY <1>1, <1>2, PTL DEF Spec, LightboxSpec

(* Every limit is kept, in every state the office can reach: the quotas of  *)
(* api/upload and presign, the login limiter of lib/rateLimit.ts and the    *)
(* bounds of the edit route's extract.                                      *)
THEOREM LimitsAlwaysHold == Spec => []LimitsHold
<1> QED BY UploadScene, AccessScene, EditorScene, UploadHolds, LoginsAreAlwaysLimited, CropsStayInside, PTL
        DEF LimitsHold

(* The scripts can be run again after a crash, and beside each other: an    *)
(* import marked done is done (scripts/import-album.ts), a migration takes  *)
(* effect once (scripts/migrate.ts), and a thumbhash is stale only where an *)
(* edit's job is to come, overtook somebody or gave up.                     *)
THEOREM ScriptsCanAlwaysRerun == Spec => []ScriptsCanRerun
<1> QED BY ImportScene, DeployScene, MarkerAlwaysMeansImported, AlwaysMigratedOnce, PTL DEF ScriptsCanRerun

(* The caches of the share page (Next's, revalidate 60) and of the settings *)
(* (lib/settings.ts) are not older than their lifetime, but for the page of *)
(* the first visitors past it, while the refill behind them is on.          *)
THEOREM CachesAreAlwaysRecent == Spec => CachesAreRecent
<1> QED BY ShareScene, SettingsScene, PageAlwaysRecent, SettingsAlwaysRecent, PTL DEF CachesAreRecent

(* What the hands on AdminGalleryGrid and the cover picker did, and no      *)
(* more, selects and picks.                                                 *)
THEOREM HandsAreAlwaysObeyed == Spec => []HandsAreObeyed
<1> QED BY HandScene, HandsAlwaysObeyed, PTL DEF HandsAreObeyed

(* The album's order: reorders are stored whole, and a grid that settled     *)
(* shows it (reorderPhotos in lib/albums.ts, PhotoGrid.tsx).                 *)
THEOREM OrdersAlwaysHold == Spec => []OrderHolds
<1> QED BY OrderScene, OrderAlwaysHolds, PTL DEF OrderHolds

(* Every module's variables have their types, in every state the office can *)
(* reach: the rows, the jobs of a page, what is cached or in flight.        *)
LEMMA SceneStays == Spec => [](scene \in Scene)
<1>1. Init => scene \in Scene
  BY DEF Init
<1>2. scene \in Scene /\ [Next]_officeVars => (scene \in Scene)'
  BY DEF Next, officeVars
<1> QED BY <1>1, <1>2, PTL DEF Spec

\* All of them, whichever scene it is.
AllTyped ==
    /\ scene \in Scene
    /\ ShareTypeOK /\ ExportTypeOK /\ AccessTypeOK /\ SettingsTypeOK /\ UploadTypeOK
    /\ OrderTypeOK /\ ImageTypeOK /\ BackupTypeOK /\ ImportTypeOK /\ InsightTypeOK
    /\ LightboxTypeOK /\ DialogTypeOK /\ EditorTypeOK /\ DeployTypeOK /\ HandTypeOK

(* TypeOK asks it of the scene's module; the others keep the state they     *)
(* start in, so all are typed (every module of MCOffice).                   *)
THEOREM OfficeTypeCorrect == Spec => []TypeOK
<1>1. Spec => []ShareTypeOK /\ []ExportTypeOK /\ []AccessTypeOK
  BY ShareScene, ExportScene, AccessScene, ShareAlwaysTyped, ExportAlwaysTyped, AccessAlwaysTyped, PTL
<1>2. Spec => []SettingsTypeOK /\ []UploadTypeOK /\ []OrderTypeOK
  BY SettingsScene, UploadScene, OrderScene, SettingsAlwaysRecent, UploadHolds, OrderAlwaysHolds, PTL
<1>3. Spec => []ImageTypeOK /\ []BackupTypeOK /\ []ImportTypeOK
  BY ImageScene, BackupScene, ImportScene, ServedImagesAlwaysHold, BackupsAreTyped, MarkerAlwaysMeansImported, PTL
<1>4. Spec => []InsightTypeOK /\ []LightboxTypeOK /\ []DialogTypeOK
  BY InsightScene, LightboxScene, DialogScene, DashboardsAreAlwaysRight, HeartAlwaysEndsAsTapped,
     DialogAlwaysTyped, PTL
<1>5. Spec => []EditorTypeOK /\ []DeployTypeOK /\ []HandTypeOK
  BY EditorScene, DeployScene, HandScene, CropsStayInside, AlwaysMigratedOnce, HandsAlwaysObeyed, PTL
<1>6. AllTyped => TypeOK
  BY DEF AllTyped, TypeOK, Scene
<1> QED BY SceneStays, <1>1, <1>2, <1>3, <1>4, <1>5, <1>6, PTL DEF AllTyped
=============================================================================
