----------------------------- MODULE AlbumStorage -----------------------------
(***************************************************************************)
(* Where a photo's row says it lives and where its bytes are.  The object  *)
(* key holds the album id, so moving, deleting and purging change Postgres *)
(* and MinIO in separate steps: bulkMovePhotos copies, re-points the rows, *)
(* clears the source cover and deletes the source objects; the delete      *)
(* actions drop rows first and bytes second; purgeAlbumStorage and the     *)
(* hourly reaper drop bytes first and rows second.  Each SQL statement and *)
(* each storage call is one step, and any of these requests may overlap.   *)
(***************************************************************************)
EXTENDS Integers, FiniteSets

CONSTANTS
    Photo, Album,
    Home,           \* Home[p]: the album presign signed the upload of p for
    Trash,          \* albums soft-deleted before purge became immediate
    Move,           \* bulkMovePhotosAction requests; each runs once
    Delete,         \* deletePhotoAction and bulkDeletePhotosAction requests
    Wiper,          \* subset of {"purge", "reap"}: what wipes albums
    NoAlbum, NoPhoto,
    MaxFaults       \* bound on failed calls and crashes

ASSUME StorageAssumption ==
    /\ Home \in [Photo -> Album]
    /\ Trash \subseteq Album
    /\ Wiper \subseteq {"purge", "reap"}
    /\ NoAlbum \notin Album
    /\ NoPhoto \notin Photo
    /\ MaxFaults \in Nat

VARIABLES
    row,            \* row[p]: photos.album_id, NoAlbum when there is no row
    life,           \* life[a]: "live" | "trashed" (deleted_at) | "gone"
    cover,          \* cover[a]: albums.cover_photo_id
    objects,        \* the originals in MinIO, by album and photo
    upload,         \* upload[p]: "new" | "put" | "resolved" | "done"
    move, delete, wipe,     \* requests in flight
    shown,          \* <<a, p>>: album a has held p, so a page left open may list it
    missed,         \* photos of the source whose original a move's HEADs did not find
    wiped,          \* photos a wipe deleted bytes of
    uncleared,      \* albums a move died on before it cleared the cover
    reaped,         \* albums the reaper hard-deleted
    faults

vars == <<row, life, cover, objects, upload, move, delete, wipe,
          shown, missed, wiped, uncleared, reaped, faults>>
historyVars == <<shown, missed, wiped, uncleared, reaped>>

MoveCall == [stage : {"idle", "head", "copy", "update", "cover", "sweep", "undo", "end"},
             src : Album \cup {NoAlbum}, dst : Album \cup {NoAlbum},
             photos : SUBSET Photo, todo : SUBSET Photo, copied : SUBSET Photo,
             crossed : SUBSET Photo]    \* see Crossed (ghost)
DeleteCall == [stage : {"idle", "rows", "cover", "objects", "end"}, bulk : BOOLEAN,
               album : Album \cup {NoAlbum}, photos : SUBSET Photo,
               crossed : SUBSET Photo]  \* see CarriedTo (ghost)
WipeCall == [stage : {"idle", "listed", "rows", "album"}, album : Album \cup {NoAlbum},
             listed : SUBSET (Album \X Photo)]

TypeOK ==
    /\ row \in [Photo -> Album \cup {NoAlbum}]
    /\ life \in [Album -> {"live", "trashed", "gone"}]
    /\ cover \in [Album -> Photo \cup {NoPhoto}]
    /\ objects \subseteq Album \X Photo
    /\ upload \in [Photo -> {"new", "put", "resolved", "done"}]
    /\ move \in [Move -> MoveCall]
    /\ delete \in [Delete -> DeleteCall]
    /\ wipe \in [Wiper -> WipeCall]
    /\ shown \subseteq Album \X Photo
    /\ missed \subseteq Photo /\ wiped \subseteq Photo
    /\ uncleared \subseteq Album /\ reaped \subseteq Album
    /\ faults \in 0..MaxFaults

NoMove == [stage |-> "idle", src |-> NoAlbum, dst |-> NoAlbum,
           photos |-> {}, todo |-> {}, copied |-> {}, crossed |-> {}]
NoDelete == [stage |-> "idle", bulk |-> FALSE, album |-> NoAlbum, photos |-> {}, crossed |-> {}]
NoWipe == [stage |-> "idle", album |-> NoAlbum, listed |-> {}]

(* A trashed album was filled and soft-deleted long ago: every photo signed *)
(* for it is in place.                                                      *)
Init ==
    /\ life = [a \in Album |-> IF a \in Trash THEN "trashed" ELSE "live"]
    /\ row = [p \in Photo |-> IF Home[p] \in Trash THEN Home[p] ELSE NoAlbum]
    /\ cover = [a \in Album |-> NoPhoto]
    /\ objects = {<<Home[p], p>> : p \in {q \in Photo : Home[q] \in Trash}}
    /\ upload = [p \in Photo |-> IF Home[p] \in Trash THEN "done" ELSE "new"]
    /\ move = [m \in Move |-> NoMove]
    /\ delete = [d \in Delete |-> NoDelete]
    /\ wipe = [k \in Wiper |-> NoWipe]
    /\ shown = objects
    /\ missed = {} /\ wiped = {} /\ uncleared = {} /\ reaped = {}
    /\ faults = 0

RowsOf(a) == {p \in Photo : row[p] = a}
Shown(a) == {p \in Photo : <<a, p>> \in shown}

Fault ==
    /\ faults < MaxFaults
    /\ faults' = faults + 1

(* DELETE FROM photos: ON DELETE SET NULL takes the covers along.           *)
DropRows(S) ==
    /\ row' = [p \in Photo |-> IF p \in S THEN NoAlbum ELSE row[p]]
    /\ cover' = [a \in Album |-> IF cover[a] \in S THEN NoPhoto ELSE cover[a]]

(* UPDATE albums SET cover_photo_id = NULL WHERE id = a AND ... IN S.       *)
ClearCover(a, S) ==
    cover' = [cover EXCEPT ![a] = IF @ \in S THEN NoPhoto ELSE @]

-----------------------------------------------------------------------------
(* Uploading one photo.                                                     *)

Put(p) ==
    /\ upload[p] = "new"
    /\ upload' = [upload EXCEPT ![p] = "put"]
    /\ objects' = objects \cup {<<Home[p], p>>}
    /\ UNCHANGED <<row, life, cover, move, delete, wipe, historyVars, faults>>

Resolve(p) ==
    /\ upload[p] = "put"
    /\ life[Home[p]] = "live"
    /\ <<Home[p], p>> \in objects
    /\ upload' = [upload EXCEPT ![p] = "resolved"]
    /\ UNCHANGED <<row, life, cover, objects, move, delete, wipe, historyVars, faults>>

(* photos.album_id REFERENCES albums: the insert fails once the album went. *)
Insert(p) ==
    /\ upload[p] = "resolved"
    /\ upload' = [upload EXCEPT ![p] = "done"]
    /\ IF life[Home[p]] = "gone"
       THEN UNCHANGED <<row, shown>>
       ELSE /\ row' = [row EXCEPT ![p] = Home[p]]
            /\ shown' = shown \cup {<<Home[p], p>>}
    /\ UNCHANGED <<life, cover, objects, move, delete, wipe, missed, wiped, uncleared, reaped, faults>>

\* Mutant: the arguments of setCover are swapped at the call.
SetSwappedCover(a, p) ==
    /\ life[a] = "live"
    /\ cover' = [cover EXCEPT ![a] = a]
    /\ UNCHANGED <<row, life, objects, upload, move, delete, wipe, historyVars, faults>>

\* Mutant: setCover before F35/F44, with no EXISTS guard.
SetAnyCover(a, p) ==
    /\ life[a] = "live"
    /\ row[p] # NoAlbum
    /\ cover' = [cover EXCEPT ![a] = p]
    /\ UNCHANGED <<row, life, objects, upload, move, delete, wipe, historyVars, faults>>

SetCover(a, p) ==
    /\ life[a] = "live"
    /\ row[p] = a
    /\ cover' = [cover EXCEPT ![a] = p]
    /\ UNCHANGED <<row, life, objects, upload, move, delete, wipe, historyVars, faults>>

-----------------------------------------------------------------------------
(* bulkMovePhotos.                                                          *)

To(m, stage, todo) == move' = [move EXCEPT ![m].stage = stage, ![m].todo = todo]

(* The photos on which a move to album b runs into a request at work:       *)
(* another move has them in hand or has brought them to b, or a delete is   *)
(* about to take them out of b.                                             *)
Crossed(b) ==
    {p \in Photo :
        \/ \E n \in Move : move[n].stage \notin {"idle", "end"} /\ p \in move[n].photos
        \/ \E d \in Delete : /\ delete[d].stage \notin {"idle", "end"} /\ p \in delete[d].photos
                             /\ delete[d].album = b
        \/ row[p] = b}

(* The admin picks from a page as old as you like: the action asks for the  *)
(* albums, never whether a photo is still in the source.                    *)
MoveStart(m, a, b, S) ==
    /\ move[m].stage = "idle"
    /\ a # b /\ life[a] = "live" /\ life[b] = "live"
    /\ S # {} /\ S \subseteq Shown(a)
    /\ move' = [move EXCEPT ![m] = [NoMove EXCEPT !.stage = "head", !.src = a, !.dst = b,
                                                  !.photos = S, !.todo = S,
                                                  !.crossed = S \cap Crossed(b)]]
    /\ UNCHANGED <<row, life, cover, objects, upload, delete, wipe, historyVars, faults>>

(* Plan: HEAD every photo; an original that answers goes into the plan.  An *)
(* error of any kind (T) reads as "not this extension".                     *)
MoveHead(m) ==
    /\ move[m].stage = "head"
    /\ \E T \in SUBSET move[m].photos :
        LET found == {p \in move[m].photos : <<move[m].src, p>> \in objects} \ T IN
        /\ To(m, "copy", found)
        /\ missed' = missed \cup ((move[m].photos \cap RowsOf(move[m].src)) \ found)
        /\ IF T = {} THEN UNCHANGED faults ELSE Fault
    /\ UNCHANGED <<row, life, cover, objects, upload, delete, wipe, shown, wiped, uncleared, reaped>>

(* CopyObject: a 404 is skipped.                                            *)
MoveCopy(m) ==
    /\ move[m].stage = "copy"
    /\ \E p \in move[m].todo :
        IF <<move[m].src, p>> \in objects
        THEN /\ objects' = objects \cup {<<move[m].dst, p>>}
             /\ move' = [move EXCEPT ![m].todo = @ \ {p}, ![m].copied = @ \cup {p}]
        ELSE /\ To(m, "copy", move[m].todo \ {p})
             /\ UNCHANGED objects
    /\ UNCHANGED <<row, life, cover, upload, delete, wipe, historyVars, faults>>

\* Mutant: every copy error is skipped, not only a 404.
MoveCopySkips(m) ==
    /\ Fault
    /\ move[m].stage = "copy"
    /\ \E p \in move[m].todo : To(m, "copy", move[m].todo \ {p})
    /\ UNCHANGED <<row, life, cover, objects, upload, delete, wipe, historyVars>>

(* Any other error aborts: the copies made so far are deleted again.        *)
MoveCopyFails(m) ==
    /\ Fault
    /\ move[m].stage = "copy" /\ move[m].todo # {}
    /\ To(m, "undo", move[m].copied)
    /\ UNCHANGED <<row, life, cover, objects, upload, delete, wipe, historyVars>>

MoveUndo(m) ==
    /\ move[m].stage = "undo"
    /\ \E p \in move[m].todo :
        /\ objects' = objects \ {<<move[m].dst, p>>}
        /\ To(m, "undo", move[m].todo \ {p})
    /\ UNCHANGED <<row, life, cover, upload, delete, wipe, historyVars, faults>>

(* UPDATE photos SET album_id = dst WHERE album_id = src AND id IN photos;  *)
(* a destination that is gone fails the foreign key.                        *)
MoveUpdate(m) ==
    LET mine == move[m].photos \cap RowsOf(move[m].src) IN
    /\ move[m].stage = "copy" /\ move[m].todo = {}
    /\ IF mine # {} /\ life[move[m].dst] = "gone"
       THEN To(m, "end", {}) /\ UNCHANGED <<row, shown>>
       ELSE /\ row' = [p \in Photo |-> IF p \in mine THEN move[m].dst ELSE row[p]]
            /\ shown' = shown \cup ({move[m].dst} \X mine)
            /\ To(m, "cover", {})
    /\ UNCHANGED <<life, cover, objects, upload, delete, wipe, missed, wiped, uncleared, reaped, faults>>

MoveClearCover(m) ==
    /\ move[m].stage = "cover"
    /\ ClearCover(move[m].src, move[m].photos)
    /\ To(m, "sweep", move[m].copied)
    /\ UNCHANGED <<row, life, objects, upload, delete, wipe, historyVars, faults>>

(* Delete the source objects; a failed delete is swallowed.                 *)
MoveSweep(m) ==
    /\ move[m].stage = "sweep"
    /\ \E p \in move[m].todo :
        /\ To(m, "sweep", move[m].todo \ {p})
        /\ \/ objects' = objects \ {<<move[m].src, p>>} /\ UNCHANGED faults
           \/ UNCHANGED objects /\ Fault
    /\ UNCHANGED <<row, life, cover, upload, delete, wipe, historyVars>>

MoveEnd(m) ==
    /\ move[m].stage \in {"sweep", "undo"} /\ move[m].todo = {}
    /\ To(m, "end", {})
    /\ UNCHANGED <<row, life, cover, objects, upload, delete, wipe, historyVars, faults>>

MoveCrash(m) ==
    /\ Fault
    /\ move[m].stage \notin {"idle", "end"}
    /\ uncleared' = IF move[m].stage = "cover" THEN uncleared \cup {move[m].src} ELSE uncleared
    /\ To(m, "end", {})
    /\ UNCHANGED <<row, life, cover, objects, upload, delete, wipe, shown, missed, wiped, reaped>>

-----------------------------------------------------------------------------
(* deletePhotoAction and bulkDeletePhotosAction: rows, then bytes.          *)

(* The photos a move is carrying to album a, but has not re-pointed yet.    *)
CarriedTo(a) ==
    UNION {move[n].photos : n \in {l \in Move : /\ move[l].stage \in {"head", "copy"}
                                              /\ move[l].dst = a}}

(* gatePhoto reads the album off the row of the one photo; the bulk action  *)
(* takes album and photos from the page, as a move does.                    *)
DeleteStart(d, a, S, bulk) ==
    /\ delete[d].stage = "idle"
    /\ life[a] = "live"
    /\ S # {}
    /\ IF bulk THEN S \subseteq Shown(a) ELSE Cardinality(S) = 1 /\ S \subseteq RowsOf(a)
    /\ delete' = [delete EXCEPT ![d] = [stage |-> "rows", bulk |-> bulk, album |-> a, photos |-> S,
                                        crossed |-> (S \cap CarriedTo(a)) \ RowsOf(a)]]
    /\ UNCHANGED <<row, life, cover, objects, upload, move, wipe, historyVars, faults>>

(* The single delete names the id alone; the bulk one the album as well.    *)
DeleteRows(d) ==
    LET S == delete[d].photos IN
    /\ delete[d].stage = "rows"
    /\ DropRows(IF delete[d].bulk THEN S \cap RowsOf(delete[d].album) ELSE S)
    /\ delete' = [delete EXCEPT ![d].stage = IF delete[d].bulk THEN "cover" ELSE "objects"]
    /\ UNCHANGED <<life, objects, upload, move, wipe, historyVars, faults>>

DeleteClearCover(d) ==
    /\ delete[d].stage = "cover"
    /\ ClearCover(delete[d].album, delete[d].photos)
    /\ delete' = [delete EXCEPT ![d].stage = "objects"]
    /\ UNCHANGED <<row, life, objects, upload, move, wipe, historyVars, faults>>

(* deletePhotoStorage, under the album of the start: every photo asked for, *)
(* whether or not its row was there.                                        *)
DeleteObjects(d) ==
    /\ delete[d].stage = "objects"
    /\ objects' = objects \ ({delete[d].album} \X delete[d].photos)
    /\ delete' = [delete EXCEPT ![d].stage = "end"]
    /\ UNCHANGED <<row, life, cover, upload, move, wipe, historyVars, faults>>

(* A crash, or storage errors deleteObjectsByPrefix swallows.               *)
DeleteLost(d) ==
    /\ Fault
    /\ delete[d].stage \in {"rows", "cover", "objects"}
    /\ \E S \in SUBSET delete[d].photos :
        objects' = IF delete[d].stage = "objects"
                   THEN objects \ ({delete[d].album} \X S) ELSE objects
    /\ delete' = [delete EXCEPT ![d].stage = "end"]
    /\ UNCHANGED <<row, life, cover, upload, move, wipe, historyVars>>

-----------------------------------------------------------------------------
(* Wiping an album: purgeAlbumStorage and the hourly reaper.                *)

\* Mutant: the reaper's query has deleted_at IS NULL.
WipesLive(k) == {"live"}

(* softDeleteAlbumAction purges a live album, purgeSoftDeletedAlbumsAction  *)
(* and the reaper the trashed ones.                                         *)
Wipes(k) == IF k = "purge" THEN {"live", "trashed"} ELSE {"trashed"}

WipeList(k, a) ==
    /\ wipe[k].stage = "idle"
    /\ life[a] \in Wipes(k)
    /\ wipe' = [wipe EXCEPT ![k] = [stage |-> "listed", album |-> a,
                                    listed |-> objects \cap ({a} \X Photo)]]
    /\ UNCHANGED <<row, life, cover, objects, upload, move, delete, historyVars, faults>>

WipeObjects(k) ==
    /\ wipe[k].stage = "listed"
    /\ objects' = objects \ wipe[k].listed
    /\ wiped' = wiped \cup {o[2] : o \in wipe[k].listed}
    /\ wipe' = [wipe EXCEPT ![k].stage = "rows"]
    /\ UNCHANGED <<row, life, cover, upload, move, delete, shown, missed, uncleared, reaped, faults>>

\* Mutant: the reaper before F23, which ignored the Errors of DeleteObjects.
CarriesOnAlways(k) == TRUE

(* deleteObjectsByPrefix counts what went and carries on; the reaper's      *)
(* deletePrefix reports the failure and the album stays in the trash.       *)
CarriesOn(k) == k = "purge"

(* DeleteObjects leaves some of the keys, or all of them.                   *)
WipeObjectsFails(k) ==
    /\ Fault
    /\ wipe[k].stage = "listed"
    /\ \E left \in SUBSET wipe[k].listed :
        /\ left # {}
        /\ objects' = objects \ (wipe[k].listed \ left)
        /\ wiped' = wiped \cup {o[2] : o \in wipe[k].listed \ left}
    /\ wipe' = [wipe EXCEPT ![k] = IF CarriesOn(k) THEN [@ EXCEPT !.stage = "rows"] ELSE NoWipe]
    /\ UNCHANGED <<row, life, cover, upload, move, delete, shown, missed, uncleared, reaped>>

WipeRows(k) ==
    /\ wipe[k].stage = "rows"
    /\ DropRows(RowsOf(wipe[k].album))
    /\ wipe' = [wipe EXCEPT ![k].stage = "album"]
    /\ UNCHANGED <<life, objects, upload, move, delete, historyVars, faults>>

(* DELETE FROM albums cascades to the rows that came in since.              *)
WipeAlbum(k) ==
    LET a == wipe[k].album IN
    /\ wipe[k].stage = "album"
    /\ life' = [life EXCEPT ![a] = "gone"]
    /\ row' = [p \in Photo |-> IF row[p] = a THEN NoAlbum ELSE row[p]]
    /\ cover' = [b \in Album |-> IF b = a \/ cover[b] \in RowsOf(a) THEN NoPhoto ELSE cover[b]]
    /\ reaped' = IF k = "reap" THEN reaped \cup {a} ELSE reaped
    /\ wipe' = [wipe EXCEPT ![k] = NoWipe]
    /\ UNCHANGED <<objects, upload, move, delete, shown, missed, wiped, uncleared, faults>>

WipeCrash(k) ==
    /\ Fault
    /\ wipe[k].stage # "idle"
    /\ wipe' = [wipe EXCEPT ![k] = NoWipe]
    /\ UNCHANGED <<row, life, cover, objects, upload, move, delete, historyVars>>

-----------------------------------------------------------------------------
UploadStep(p) == Put(p) \/ Resolve(p) \/ Insert(p)

MoveStep(m) ==
    \/ \E a, b \in Album, S \in SUBSET Photo : MoveStart(m, a, b, S)
    \/ MoveHead(m) \/ MoveCopy(m) \/ MoveCopyFails(m) \/ MoveUndo(m)
    \/ MoveUpdate(m) \/ MoveClearCover(m) \/ MoveSweep(m) \/ MoveEnd(m) \/ MoveCrash(m)

DeleteStep(d) ==
    \/ \E a \in Album, S \in SUBSET Photo, bulk \in BOOLEAN : DeleteStart(d, a, S, bulk)
    \/ DeleteRows(d) \/ DeleteClearCover(d) \/ DeleteObjects(d) \/ DeleteLost(d)

WipeStep(k) ==
    \/ \E a \in Album : WipeList(k, a)
    \/ WipeObjects(k) \/ WipeObjectsFails(k) \/ WipeRows(k) \/ WipeAlbum(k) \/ WipeCrash(k)

Next ==
    \/ \E p \in Photo : UploadStep(p)
    \/ \E a \in Album, p \in Photo : SetCover(a, p)
    \/ \E m \in Move : MoveStep(m)
    \/ \E d \in Delete : DeleteStep(d)
    \/ \E k \in Wiper : WipeStep(k)

Spec == Init /\ [][Next]_vars

(* The reaper runs every hour; a step of a run that was not cut off happens. *)
ReaperStep(a) ==
    \/ WipeList("reap", a)
    \/ wipe["reap"].album = a /\ (WipeObjects("reap") \/ WipeRows("reap") \/ WipeAlbum("reap"))

Fairness == \A a \in Trash : WF_vars(ReaperStep(a))

FairSpec == Spec /\ Fairness

-----------------------------------------------------------------------------
(* Properties.                                                              *)

(* The order of every two-store operation: whatever overlaps, the bytes of  *)
(* a row nobody wiped are under the album the row names.  Where a move's    *)
(* HEAD failed to see them the row may name another album, but they are     *)
(* still somewhere, unless a delete of the same photo ran beside the move.  *)
(* Nothing keeps two requests for one photo apart, and none asks where the  *)
(* row is, so three meetings are exempt, each marked where it happens: a    *)
(* photo two moves had in hand, or that was already where a move goes       *)
(* (their sweeps and undos take what the other brought), and one a delete   *)
(* takes out of the album a move is bringing it to.                         *)
RowHasBytes ==
    \A p \in Photo :
      /\ row[p] # NoAlbum /\ p \notin wiped
      /\ \A m \in Move : p \notin move[m].crossed
      /\ \A d \in Delete : p \notin delete[d].crossed
      => \/ <<row[p], p>> \in objects
         \/ /\ p \in missed
            /\ \/ \E a \in Album : <<a, p>> \in objects
               \/ \E d \in Delete : p \in delete[d].photos

(* albums.ts:429-432: "if any copy fails we abort before touching the DB":  *)
(* a move never points a row at a key that was not written.                 *)
MoveBringsBytes ==
    \A m \in Move : \A p \in move[m].photos :
        move[m].stage \in {"cover", "sweep"} /\ row[p] = move[m].dst
            /\ p \notin missed /\ life[move[m].dst] = "live"
            /\ (\A k \in Wiper : wipe[k].album # move[m].dst)
            => p \in move[m].copied

(* albums.ts:377-383 (F35/F44): a cover is a photo of its own album.  A     *)
(* move re-points the rows before it clears the cover of the source.        *)
CoverInAlbum ==
    \A a \in Album :
        \/ cover[a] = NoPhoto
        \/ row[cover[a]] = a
        \/ \E m \in Move : move[m].stage = "cover" /\ move[m].src = a /\ cover[a] \in move[m].photos
        \/ a \in uncleared

(* reaper.ts:5-13 (F23): an album the reaper hard-deletes left no bytes.    *)
ReapedIsClean == \A a \in reaped : objects \cap ({a} \X Photo) = {}

(* albums.ts:210-212: the row outlives a storage failure, so that no object *)
(* is left without one (for albums nobody moves into or uploads to).        *)
PurgedIsClean ==
    \A a \in Album : life[a] = "gone" => objects \cap ({a} \X Photo) = {}

(* reaper.ts:48-53: an album that was skipped is retried until it is gone.  *)
TrashIsEmptied == \A a \in Trash : life[a] = "trashed" ~> life[a] = "gone"
=============================================================================
