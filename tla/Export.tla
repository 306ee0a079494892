-------------------------------- MODULE Export --------------------------------
(* Album exports: GET /api/export/[token], the ZIP fanned out to the        *)
(* visitor and to the cache (lib/zipStream.ts), the content-addressed key   *)
(* (lib/exportCache.ts) and the reaper of old archives                      *)
(* (workers/exportReaper.ts), beside edits and deletes of the photos.       *)
(*                                                                          *)
(* A photo's bytes are a version number; one chunk of the archive is one    *)
(* photo.  A PassThrough stream holds HighWater chunks.                     *)
EXTENDS Naturals, Sequences, SequencesExt, FiniteSets

CONSTANTS
    Photo,
    Requests,       \* export requests, numbered in the order they come
    Edit, EditOf,   \* photo edits, each of one photo
    Doomed,         \* the photos somebody may delete
    HighWater,      \* chunks a stream takes before it signals it is full
    MaxDay,         \* days: the stamp in a key, and the reaper's age
    MaxFaults       \* visitors and uploads that go away, fetches and edits that die

ASSUME ExportAssumption ==
    /\ HighWater \in Nat \ {0} /\ {Requests, MaxDay, MaxFaults} \subseteq Nat
    /\ EditOf \in [Edit -> Photo] /\ Doomed \subseteq Photo
    /\ IsFiniteSet(Photo) /\ IsFiniteSet(Edit)

Request == 1..Requests
Version == 0..Cardinality(Edit)
Day == 0..MaxDay
Chunk == Photo \X Version
Side == {"http", "minio"}

VARIABLES
    photo,      \* rows and original objects
    edit,       \* edit requests: idle, put, done
    rq,         \* export requests
    cache,      \* archives under exports/, by key <<sig, day>>
    reap,       \* keys the reaper has listed and not deleted yet
    today,
    faults

exportVars == <<photo, edit, rq, cache, reap, today, faults>>

\* buf: chunks in the PassThrough; ready: no drain is awaited;
\* state: open, ended by the archive, finished by its consumer, or gone.
FreshSide == [buf |-> 0, ready |-> TRUE, state |-> "open"]
IdleRequest == [pc |-> "idle", sig |-> {}, day |-> 0, floor |-> {}, fetch |-> <<>>,
                opened |-> <<>>, zip |-> {}, side |-> [s \in Side |-> FreshSide]]

ExportTypeOK ==
    /\ photo \in [Photo -> [row : BOOLEAN, object : BOOLEAN, stamp : Version,
                            bytes : Version, done : Version]]
    /\ edit \in [Edit -> {"idle", "put", "done"}]
    /\ \A r \in Request :
         /\ rq[r].pc \in {"idle", "head", "build", "redirect", "served", "failed"}
         /\ rq[r].sig \subseteq Chunk /\ rq[r].floor \subseteq Chunk /\ rq[r].zip \subseteq Chunk
         /\ rq[r].day \in Day
         /\ rq[r].fetch \in Seq(Photo) /\ rq[r].opened \in Seq(Chunk)
         /\ \A s \in Side : /\ rq[r].side[s].buf \in Nat /\ rq[r].side[s].ready \in BOOLEAN
                            /\ rq[r].side[s].state \in {"open", "ended", "finished", "gone"}
    /\ cache \subseteq [sig : SUBSET Chunk, day : Day, zip : SUBSET Chunk, at : Day]
    /\ reap \subseteq (SUBSET Chunk) \X Day
    /\ today \in Day /\ faults \in 0..MaxFaults

ExportInit ==
    /\ photo = [p \in Photo |-> [row |-> TRUE, object |-> TRUE, stamp |-> 0, bytes |-> 0, done |-> 0]]
    /\ edit = [e \in Edit |-> "idle"]
    /\ rq = [r \in Request |-> IdleRequest]
    /\ cache = {} /\ reap = {} /\ today = 0 /\ faults = 0

Latest(field) == Max({photo[p][field] : p \in Photo})

-----------------------------------------------------------------------------
(* Edits write the original and then the row (photos/[id]/edit); deletes    *)
(* remove the row and then the object.                                      *)

PhotoUnchanged == UNCHANGED <<rq, cache, reap, today>>

EditPut(e) ==
    LET p == EditOf[e] IN
    /\ edit[e] = "idle" /\ photo[p].row /\ photo[p].object
    /\ photo' = [photo EXCEPT ![p].bytes = Latest("bytes") + 1]
    /\ edit' = [edit EXCEPT ![e] = "put"]
    /\ PhotoUnchanged /\ UNCHANGED faults

\* updated_at = now(); `done` is the newest write of an edit that finished.
EditRow(e) ==
    LET p == EditOf[e] IN
    /\ edit[e] = "put"
    /\ photo' = [photo EXCEPT ![p].stamp = Latest("stamp") + 1, ![p].done = photo[p].bytes]
    /\ edit' = [edit EXCEPT ![e] = "done"]
    /\ PhotoUnchanged /\ UNCHANGED faults

EditDies(e) ==
    /\ edit[e] = "put" /\ faults < MaxFaults
    /\ edit' = [edit EXCEPT ![e] = "done"] /\ faults' = faults + 1
    /\ PhotoUnchanged /\ UNCHANGED photo

DeleteRow(p) ==
    /\ photo[p].row /\ p \in Doomed
    /\ photo' = [photo EXCEPT ![p].row = FALSE]
    /\ PhotoUnchanged /\ UNCHANGED <<edit, faults>>

DeleteObject(p) ==
    /\ ~photo[p].row /\ photo[p].object
    /\ photo' = [photo EXCEPT ![p].object = FALSE]
    /\ PhotoUnchanged /\ UNCHANGED <<edit, faults>>

-----------------------------------------------------------------------------
(* The request.                                                             *)

RequestUnchanged == UNCHANGED <<photo, edit, reap, today>>

\* Mutant: the signature of the ids alone (favoritesSignature).
SignatureOfIds(ps) == {<<p, 0>> : p \in ps}

\* contentSignature: ids and updated_at.
Signature(ps) == {<<p, photo[p].stamp>> : p \in ps}

\* The status check and the photo query; an empty set is a 404.
Select(r) ==
    LET ps == {p \in Photo : photo[p].row} IN
    /\ rq[r].pc = "idle" /\ \A q \in 1..(r - 1) : rq[q].pc # "idle"
    /\ rq' = [rq EXCEPT ![r] =
         IF ps = {} THEN [@ EXCEPT !.pc = "failed"]
         ELSE [@ EXCEPT !.pc = "head", !.day = today, !.sig = Signature(ps),
                        !.floor = {<<p, photo[p].done>> : p \in ps},
                        !.fetch = SetToSeq(ps)]]
    /\ RequestUnchanged /\ UNCHANGED <<cache, faults>>

Cached(r) == {o \in cache : o.sig = rq[r].sig /\ o.day = rq[r].day}

\* The HEAD of the cache key; one that fails reads as a miss.
CacheLookup(r) ==
    /\ rq[r].pc = "head"
    /\ \/ /\ Cached(r) # {}
          /\ rq' = [rq EXCEPT ![r].pc = "redirect"]
          /\ UNCHANGED faults
       \/ /\ Cached(r) = {} \/ faults < MaxFaults
          /\ rq' = [rq EXCEPT ![r].pc = "build"]
          /\ faults' = IF Cached(r) = {} THEN faults ELSE faults + 1
    /\ RequestUnchanged /\ UNCHANGED cache

\* The visitor follows the presigned URL: the reaper may have been there.
Follow(r) ==
    /\ rq[r].pc = "redirect"
    /\ rq' = [rq EXCEPT ![r] =
         IF Cached(r) = {} THEN [@ EXCEPT !.pc = "failed"]
         ELSE [@ EXCEPT !.pc = "served", !.zip = (CHOOSE o \in Cached(r) : TRUE).zip]]
    /\ RequestUnchanged /\ UNCHANGED <<cache, faults>>

-----------------------------------------------------------------------------
(* createFanOutZip.                                                         *)

Live(s) == s.state \in {"open", "ended"}
Destroyed(s) == IF Live(s) THEN [s EXCEPT !.state = "gone"] ELSE s

\* Mutant: only the visitor's stream is destroyed.
ErroredHttpOnly(q) ==
    [q EXCEPT !.pc = "failed", !.side.http = Destroyed(q.side.http),
              !.side.minio.state = "ended"]

\* errored(): both streams are destroyed, so neither consumer sees an end.
\* What the failed request held is forgotten.
Errored(q) == [IdleRequest EXCEPT !.pc = "failed",
                                  !.side = [s \in Side |-> [Destroyed(q.side[s]) EXCEPT !.buf = 0]]]

\* gen() opens the body of the next photo; archive.append only queues it, so
\* bodies are opened ahead of the archive.
OpenBody(r) ==
    /\ rq[r].pc = "build" /\ rq[r].fetch # <<>>
    /\ LET p == rq[r].fetch[1] IN
       rq' = [rq EXCEPT ![r] =
         IF photo[p].object
         THEN [@ EXCEPT !.fetch = Tail(rq[r].fetch),
                        !.opened = Append(rq[r].opened, <<p, photo[p].bytes>>)]
         ELSE Errored(@)]
    /\ RequestUnchanged /\ UNCHANGED <<cache, faults>>

\* imgproxy answers an error, or AbortSignal.timeout fires on a body that is
\* still queued (F53).
BodyFails(r) ==
    /\ rq[r].pc = "build" /\ faults < MaxFaults
    /\ rq[r].fetch # <<>> \/ rq[r].opened # <<>>
    /\ rq' = [rq EXCEPT ![r] = Errored(@)]
    /\ faults' = faults + 1
    /\ RequestUnchanged /\ UNCHANGED cache

\* write(): a full stream, or one that is destroyed, answers FALSE.
WriteEntry(s) ==
    IF s.state = "open"
    THEN [s EXCEPT !.buf = @ + 1, !.ready = s.buf + 1 < HighWater]
    ELSE [s EXCEPT !.ready = FALSE]

\* Mutant (before F4): the archive is never paused.
NeverPaused(q) == FALSE

\* archive.pause() when either write fails, resume() when both have drained.
Paused(q) == \E s \in Side : ~q.side[s].ready

Pack(r) ==
    /\ rq[r].pc = "build" /\ rq[r].opened # <<>> /\ ~Paused(rq[r])
    /\ rq' = [rq EXCEPT ![r].opened = Tail(@), ![r].zip = @ \cup {rq[r].opened[1]},
                        ![r].side = [s \in Side |-> WriteEntry(rq[r].side[s])]]
    /\ RequestUnchanged /\ UNCHANGED <<cache, faults>>

\* The archive's end reaches both streams; a pause holds it back too.
EndArchive(r) ==
    /\ rq[r].pc = "build" /\ rq[r].fetch = <<>> /\ rq[r].opened = <<>> /\ ~Paused(rq[r])
    /\ \E s \in Side : rq[r].side[s].state = "open"
    /\ rq' = [rq EXCEPT ![r].side = [s \in Side |->
                IF rq[r].side[s].state = "open" THEN [rq[r].side[s] EXCEPT !.state = "ended"]
                ELSE rq[r].side[s]]]
    /\ RequestUnchanged /\ UNCHANGED <<cache, faults>>

\* A consumer reads; an empty stream emits drain.
Drain(r, s) ==
    LET d == rq[r].side[s] IN
    /\ Live(d) /\ d.buf > 0
    /\ rq' = [rq EXCEPT ![r].side[s] =
                [d EXCEPT !.buf = d.buf - 1, !.ready = d.ready \/ d.buf = 1]]
    /\ RequestUnchanged /\ UNCHANGED <<cache, faults>>

\* The visitor has the archive to its end.
Downloaded(r) ==
    /\ rq[r].side.http.state = "ended" /\ rq[r].side.http.buf = 0
    /\ rq' = [rq EXCEPT ![r].side.http.state = "finished", ![r].pc = "served"]
    /\ RequestUnchanged /\ UNCHANGED <<cache, faults>>

\* The multipart upload completes: the object appears under its key.
Uploaded(r) ==
    /\ rq[r].side.minio.state = "ended" /\ rq[r].side.minio.buf = 0
    /\ rq' = [rq EXCEPT ![r].side.minio.state = "finished"]
    /\ cache' = {o \in cache : o.sig # rq[r].sig \/ o.day # rq[r].day}
                  \cup {[sig |-> rq[r].sig, day |-> rq[r].day, zip |-> rq[r].zip, at |-> today]}
    /\ RequestUnchanged /\ UNCHANGED faults

\* The visitor cancels the download, or S3 refuses the upload: the stream is
\* destroyed, and nobody tells the archive.
GoesAway(r, s) ==
    /\ rq[r].pc = "build" /\ Live(rq[r].side[s]) /\ faults < MaxFaults
    /\ rq' = [rq EXCEPT ![r].side[s].state = "gone"]
    /\ faults' = faults + 1
    /\ RequestUnchanged /\ UNCHANGED cache

-----------------------------------------------------------------------------
(* reapStaleExports, and the next day.                                      *)

ReapList ==
    /\ reap = {}
    /\ reap' = {<<o.sig, o.day>> : o \in {x \in cache : x.at < today}}
    /\ reap' # {}
    /\ UNCHANGED <<photo, edit, rq, cache, today, faults>>

ReapDelete ==
    \E k \in reap :
      /\ reap' = reap \ {k}
      /\ cache' = {o \in cache : <<o.sig, o.day>> # k}
      /\ UNCHANGED <<photo, edit, rq, today, faults>>

NextDay ==
    /\ today < MaxDay /\ today' = today + 1
    /\ UNCHANGED <<photo, edit, rq, cache, reap, faults>>

-----------------------------------------------------------------------------
ExportNext ==
    \/ \E e \in Edit : EditPut(e) \/ EditRow(e) \/ EditDies(e)
    \/ \E p \in Photo : DeleteRow(p) \/ DeleteObject(p)
    \/ \E r \in Request : \/ Select(r) \/ CacheLookup(r) \/ Follow(r) \/ BodyFails(r)
                          \/ OpenBody(r) \/ Pack(r) \/ EndArchive(r) \/ Downloaded(r) \/ Uploaded(r)
                          \/ \E s \in Side : Drain(r, s) \/ GoesAway(r, s)
    \/ ReapList \/ ReapDelete \/ NextDay

ExportSpec == ExportInit /\ [][ExportNext]_exportVars

-----------------------------------------------------------------------------
(* Properties.                                                              *)

PhotosIn(chunks) == {c[1] : c \in chunks}

\* An archive in the cache holds every photo its key was signed for: a build
\* that failed half way leaves nothing under the key.
CachedZipIsWhole == \A o \in cache : PhotosIn(o.zip) = PhotosIn(o.sig)

\* What a visitor gets, built or cached, holds the photos the album had and
\* no photo older than the last edit that had finished when he asked (F20).
ExportIsCurrent ==
    \A r \in Request : rq[r].pc = "served" =>
      /\ PhotosIn(rq[r].zip) = PhotosIn(rq[r].floor)
      /\ \A c \in rq[r].zip, f \in rq[r].floor : c[1] = f[1] => c[2] >= f[2]

\* No stream buffers more than its high water mark, however slow the other
\* consumer is (F4); and while both consumers are there a paused archive has
\* somebody to wake it: a stream that awaits a drain has a chunk to read, and no
\* download hangs on a drain that came before it was waited for.  A consumer that
\* went away is the one exception: its stream never drains, the archive stays
\* paused, and the other side waits for ever.
BackpressureWorks ==
    \A r \in Request, s \in Side :
      LET d == rq[r].side[s] IN
      /\ d.buf <= HighWater
      /\ ~d.ready => (d.state = "open" /\ d.buf > 0) \/ d.state = "gone"
=============================================================================
