-------------------------------- MODULE GridDesk --------------------------------
(* The album page of an admin who uploads (admin/AlbumUploadAndGrid.tsx): the    *)
(* photo grid, which reloads after every upload and polls while a photo is not   *)
(* ready (admin/PhotoGrid.tsx, api/albums/[slug]/photos), and the card that      *)
(* follows the batch (admin/ProcessingTracker.tsx, .../processing-status).       *)
(*                                                                               *)
(* Which photo comes where is AlbumOrder's; here the grid's order is only the    *)
(* photos it names.  A render and its effects are one step; answers come in any  *)
(* order, or not at all.                                                         *)
EXTENDS Integers, FiniteSets

CONSTANTS
    Frame,      \* photos of the album
    GridFetch,      \* requests of the grid under way at once
    MaxMoves    \* edits, deletions, drags and failed requests

ASSUME DeskAssumption == MaxMoves \in Nat /\ GridFetch \subseteq Nat

VARIABLES
    row,        \* the photos row on the server
    announced,  \* uploaded, and onUploadComplete has run
    finished,   \* has been ready since it was uploaded (ghost)
    fetch,
    grid,       \* data and order: what the admin sees is of both
    drags,      \* reorders under way, each with the order it would put back
    reordering, \* reorderingRef
    missed,     \* a reload failed, an older answer came after it, or a drag that
                \* failed took photos back from the grid that it brought (ghost)
    tracker,
    moves

deskVars == <<row, announced, finished, fetch, grid, drags, reordering, missed, tracker, moves>>

ShownStatus == {"none", "processing", "ready"}

DeskTypeOK ==
    /\ row \in [Frame -> {"absent", "processing", "ready", "gone"}]
    /\ announced \subseteq Frame /\ finished \subseteq Frame
    /\ fetch \in [GridFetch -> [pc : {"idle", "asked", "read"}, shown : [Frame -> ShownStatus],
                            reload : BOOLEAN, late : BOOLEAN]]
    /\ grid \in [loaded : BOOLEAN, shown : [Frame -> ShownStatus], order : SUBSET Frame,
                 hadPending : BOOLEAN]
    /\ drags \subseteq [begun : 1..MaxMoves, prev : SUBSET Frame]
    /\ reordering \in BOOLEAN /\ missed \in BOOLEAN
    /\ tracker \in [active : BOOLEAN, status : BOOLEAN, allDone : BOOLEAN,
                    poll : {"none", "asked", "busy", "done"}, late : BOOLEAN,
                    landed : {"no", "late", "fresh"}]
    /\ moves \in 0..MaxMoves

NothingShown == [p \in Frame |-> "none"]
NoFetch == [pc |-> "idle", shown |-> NothingShown, reload |-> FALSE, late |-> FALSE]
Asked == [NoFetch EXCEPT !.pc = "asked", !.reload = TRUE]
Silent == [active |-> FALSE, status |-> FALSE, allDone |-> FALSE, poll |-> "none",
           late |-> FALSE, landed |-> "no"]

\* The mount's reload is on its way, or lost.
DeskInit ==
    /\ row \in [Frame -> {"absent", "ready"}]
    /\ announced = {p \in Frame : row[p] = "ready"} /\ finished = announced
    /\ missed \in BOOLEAN
    /\ \E f \in GridFetch : fetch = [g \in GridFetch |-> IF g = f /\ ~missed THEN Asked ELSE NoFetch]
    /\ grid = [loaded |-> FALSE, shown |-> NothingShown, order |-> {}, hadPending |-> FALSE]
    /\ drags = {} /\ reordering = FALSE
    /\ tracker = Silent /\ moves = 0

-----------------------------------------------------------------------------
(* The server.                                                              *)

FinalizePrint(p) ==
    /\ row[p] = "absent"
    /\ row' = [row EXCEPT ![p] = "processing"]
    /\ UNCHANGED <<announced, finished, fetch, grid, drags, reordering, missed, tracker, moves>>

DeriveInTime(p) ==
    /\ row[p] = "processing"
    /\ row' = [row EXCEPT ![p] = "ready"]
    /\ finished' = finished \cup {p}
    /\ UNCHANGED <<announced, fetch, grid, drags, reordering, missed, tracker, moves>>

-----------------------------------------------------------------------------
(* The page: an upload ends, an edit is saved.                              *)

Free(f) == fetch[f].pc = "idle" /\ \A g \in GridFetch : g < f => fetch[g].pc # "idle"

\* reload(): the answers already read do not have what it is about.
Reload(f) ==
    /\ Free(f)
    /\ fetch' = [g \in GridFetch |-> IF g = f THEN Asked
                                 ELSE [fetch[g] EXCEPT !.late = @ \/ fetch[g].pc = "read"]]

\* Mutant: a new batch does not take back the "All ready" of the last one.
TriggeredStill(t) == [t EXCEPT !.active = TRUE, !.landed = "no", !.late = t.poll \in {"busy", "done"}]

\* The effect on triggerKey; the poll under way and its interval go on.
Triggered(t) ==
    [t EXCEPT !.active = TRUE, !.allDone = FALSE, !.landed = "no", !.late = t.poll \in {"busy", "done"}]

\* The tiles: photos of data that order names.
GridTiles == {p \in grid.order : grid.shown[p] # "none"}

UploadComplete ==
    /\ \E p \in Frame : row[p] # "absent" /\ p \notin announced
    /\ announced' = {p \in Frame : row[p] # "absent"}
    /\ \E f \in GridFetch : Reload(f)
    /\ tracker' = Triggered(tracker)
    /\ UNCHANGED <<row, finished, grid, drags, reordering, missed, moves>>

EditSaved(p) ==
    /\ p \in GridTiles /\ grid.shown[p] = "ready" /\ row[p] = "ready" /\ moves < MaxMoves
    /\ moves' = moves + 1
    /\ row' = [row EXCEPT ![p] = "processing"]
    /\ \E f \in GridFetch : Reload(f)
    /\ UNCHANGED <<announced, finished, grid, drags, reordering, missed, tracker>>

\* A photo is deleted, by somebody else or at its tile, processed or not.
PrintLeaves(p) ==
    /\ row[p] \in {"processing", "ready"} /\ moves < MaxMoves
    /\ moves' = moves + 1
    /\ row' = [row EXCEPT ![p] = "gone"]
    /\ \/ UNCHANGED fetch
       \/ p \in GridTiles /\ \E f \in GridFetch : Reload(f)
    /\ UNCHANGED <<announced, finished, grid, drags, reordering, missed, tracker>>

-----------------------------------------------------------------------------
(* The grid.                                                                *)

\* Mutant: it polls only while nothing is ready.
PollsUntilOne(shown) ==
    /\ \E p \in Frame : shown[p] = "processing"
    /\ \A p \in Frame : shown[p] # "ready"

\* anyProcessing.
AnyProcessing(shown) == \E p \in Frame : shown[p] = "processing"

\* The interval, which a drag that is being saved holds up (F45).
Poll(f) ==
    /\ grid.loaded /\ AnyProcessing(grid.shown) /\ ~reordering
    /\ Free(f)
    /\ fetch' = [fetch EXCEPT ![f].pc = "asked"]
    /\ UNCHANGED <<row, announced, finished, grid, drags, reordering, missed, tracker, moves>>

\* listPhotos, for an admin of the album.
FetchRead(f) ==
    /\ fetch[f].pc = "asked"
    /\ fetch' = [fetch EXCEPT ![f].pc = "read", ![f].shown =
                   [p \in Frame |-> IF row[p] \in {"absent", "gone"} THEN "none" ELSE row[p]]]
    /\ UNCHANGED <<row, announced, finished, grid, drags, reordering, missed, tracker, moves>>

\* setData, setOrder: hadPending follows, and onPendingResolved when it falls.
FetchLands(f) ==
    /\ fetch[f].pc = "read"
    /\ grid' = [loaded |-> TRUE, shown |-> fetch[f].shown,
                order |-> {p \in Frame : fetch[f].shown[p] # "none"},
                hadPending |-> AnyProcessing(fetch[f].shown)]
    /\ fetch' = [fetch EXCEPT ![f] = NoFetch]
    /\ missed' = fetch[f].late
    /\ UNCHANGED <<row, announced, finished, drags, reordering, tracker, moves>>

\* Not ok, or no answer: nothing is tried again but by the next poll.
FetchFails(f) ==
    /\ fetch[f].pc \in {"asked", "read"} /\ moves < MaxMoves
    /\ moves' = moves + 1
    /\ fetch' = [fetch EXCEPT ![f] = NoFetch]
    /\ missed' = (missed \/ fetch[f].reload)
    /\ UNCHANGED <<row, announced, finished, grid, drags, reordering, tracker>>

\* onDragEnd, up to the action.  Another reorder may be under way.
StartDrag ==
    /\ grid.loaded /\ Cardinality(GridTiles) > 1 /\ moves < MaxMoves
    /\ moves' = moves + 1
    /\ drags' = drags \cup {[begun |-> moves', prev |-> grid.order]}
    /\ reordering' = TRUE
    /\ UNCHANGED <<row, announced, finished, fetch, grid, missed, tracker>>

\* The action answers; the finally of one reorder ends them all for the poll.
DragSaved(d) ==
    /\ drags' = drags \ {d} /\ reordering' = FALSE
    /\ UNCHANGED <<row, announced, finished, fetch, grid, missed, tracker, moves>>

\* setOrder(prev): a photo that a reload brought meanwhile is in data and has no
\* tile.
DragFails(d) ==
    /\ drags' = drags \ {d} /\ reordering' = FALSE
    /\ grid' = [grid EXCEPT !.order = d.prev]
    /\ missed' = (missed \/ ~(GridTiles \subseteq d.prev))
    /\ UNCHANGED <<row, announced, finished, fetch, tracker, moves>>

EndDrag == \E d \in drags : DragSaved(d) \/ DragFails(d)

-----------------------------------------------------------------------------
(* The tracker.                                                             *)

TrackerPoll ==
    /\ tracker.active /\ tracker.poll = "none"
    /\ tracker' = [tracker EXCEPT !.poll = "asked", !.late = FALSE]
    /\ UNCHANGED <<row, announced, finished, fetch, grid, drags, reordering, missed, moves>>

InAlbum == {p \in Frame : row[p] \in {"processing", "ready"}}

\* processing-status, and the tracker's test of the counts.
TrackerRead ==
    /\ tracker.poll = "asked"
    /\ tracker' = [tracker EXCEPT !.poll =
                     IF InAlbum # {} /\ \A p \in InAlbum : row[p] = "ready" THEN "done" ELSE "busy"]
    /\ UNCHANGED <<row, announced, finished, fetch, grid, drags, reordering, missed, moves>>

\* "All ready", once said, stays until it is dismissed or a batch is triggered.
TrackerLands ==
    /\ tracker.poll \in {"busy", "done"}
    /\ tracker' = [tracker EXCEPT
         !.poll = "none", !.late = FALSE, !.status = TRUE,
         !.allDone = @ \/ tracker.poll = "done",
         !.landed = IF tracker.poll = "busy" \/ @ = "fresh" THEN @
                    ELSE IF tracker.late THEN "late" ELSE "fresh"]
    /\ UNCHANGED <<row, announced, finished, fetch, grid, drags, reordering, missed, moves>>

TrackerFails ==
    /\ tracker.poll # "none" /\ moves < MaxMoves
    /\ moves' = moves + 1
    /\ tracker' = [tracker EXCEPT !.poll = "none", !.late = FALSE]
    /\ UNCHANGED <<row, announced, finished, fetch, grid, drags, reordering, missed>>

\* The two seconds are over: the poll under way is cancelled.
TrackerDismiss ==
    /\ tracker.allDone
    /\ tracker' = Silent
    /\ UNCHANGED <<row, announced, finished, fetch, grid, drags, reordering, missed, moves>>

-----------------------------------------------------------------------------
Uploading ==
    \/ \E p \in Frame : FinalizePrint(p) \/ DeriveInTime(p) \/ PrintLeaves(p)
    \/ UploadComplete

FetchStep(f) == FetchRead(f) \/ FetchLands(f)

GridNext ==
    \/ Uploading
    \/ \E p \in Frame : EditSaved(p)
    \/ \E f \in GridFetch : Poll(f) \/ FetchStep(f) \/ FetchFails(f)
    \/ StartDrag \/ EndDrag

TrackerNext == Uploading \/ TrackerPoll \/ TrackerRead \/ TrackerLands \/ TrackerFails \/ TrackerDismiss

DeskNext == GridNext \/ TrackerNext
DeskSpec == DeskInit /\ [][DeskNext]_deskVars

\* The interval ticks, the server answers or the reorder action returns: not
\* each of them, but one of them after the other.
GridGoesOn == (\E f \in GridFetch : Poll(f) \/ FetchStep(f)) \/ EndDrag
DeskFairSpec == DeskSpec /\ WF_deskVars(GridGoesOn)

-----------------------------------------------------------------------------
(* Properties.                                                              *)

\* Again and again every photo that was uploaded on this page and is ready is
\* shown ready, edits, deletions, drags and lost polls notwithstanding: unless a
\* reload was lost, an answer older than it landed last, or a drag failed after a
\* reload brought photos and took their tiles away again, when nothing was
\* processing any more that the grid would poll for.
GridCatchesUp ==
    []<>(missed \/ \A p \in announced : row[p] = "ready" => p \in GridTiles /\ grid.shown[p] = "ready")

\* The card says "All ready", and goes away, only on an answer that came since
\* the last batch was announced; one that was also asked since has seen every
\* announced photo through that was not deleted.
TrackerSeesTheBatchThrough ==
    tracker.allDone =>
      /\ tracker.landed # "no"
      /\ tracker.landed = "fresh" => \A p \in announced : p \in finished \/ row[p] = "gone"
=============================================================================
