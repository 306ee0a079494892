------------------------------- MODULE GridHands -------------------------------
(* What an admin does by hand on the photo grid (admin/PhotoGrid.tsx): pressing  *)
(* and tapping tiles (admin/PhotoTile.tsx, lib/long-press.ts), selecting photos  *)
(* for a bulk action (admin/BulkActionsBar.tsx), the viewer (AdminLightbox.tsx)  *)
(* and the cover picker (CoverPickerDialog.tsx).                                 *)
(*                                                                               *)
(* The order in which answers of the photos route arrive is GridDesk's, what the *)
(* bulk actions do to storage AlbumStorage's: here each is one step.  A render   *)
(* and its effects are one step.                                                 *)
EXTENDS Integers, FiniteSets

CONSTANTS
    Roll,       \* the photos are 1..Roll, in the order of the grid
    MaxDeskChanges  \* what others do to the album, and requests that fail

ASSUME HandsAssumption == {Roll, MaxDeskChanges} \subseteq Nat

Still == 1..Roll
NoStill == 0

VARIABLES
    desk,       \* on the server: each photo's status, and the album's cover
    data,       \* what the grid last read of it
    selection,  \* selectionMode and selectedIds
    press,      \* the finger or the mouse button that is down, and how far its tile saw it go
    timers,     \* long presses being timed; stale: the tile has lost the handle
    tapOrigin,  \* tiles with a press they have not seen end
    tapMoved,   \* tiles that swallow the next click
    openPhoto,  \* openPhotoId
    picker,
    bulk,       \* the delete or move under way
    changes

handVars == <<desk, data, selection, press, timers, tapOrigin, tapMoved, openPhoto, picker, bulk, changes>>

Album(status) == [status : [Still -> status], cover : Still \cup {NoStill}]

HandTypeOK ==
    /\ desk \in Album({"processing", "ready", "gone"}) /\ data \in Album({"processing", "ready", "gone"})
    /\ selection \in [mode : BOOLEAN, ids : SUBSET Still]
    /\ press \in [tile : Still \cup {NoStill}, went : {"still", "past8", "past10"}]
    /\ timers \subseteq [tile : Still, stale : BOOLEAN]
    /\ tapOrigin \subseteq Still /\ tapMoved \subseteq Still /\ openPhoto \in Still \cup {NoStill}
    /\ picker \in [open : BOOLEAN, loading : BOOLEAN, ready : SUBSET Still, selected : Still \cup {NoStill},
                   clicked : Still \cup {NoStill}, pending : Still \cup {NoStill}]
    /\ bulk \subseteq Still
    /\ changes \in 0..MaxDeskChanges

NoPress == [tile |-> NoStill, went |-> "still"]
ClosedPicker == [open |-> FALSE, loading |-> FALSE, ready |-> {}, selected |-> NoStill,
           clicked |-> NoStill, pending |-> NoStill]

HandInit ==
    /\ desk = [status |-> [p \in Still |-> IF p = 1 THEN "processing" ELSE "ready"], cover |-> NoStill]
    /\ data = desk
    /\ selection = [mode |-> FALSE, ids |-> {}]
    /\ press = NoPress /\ timers = {} /\ tapOrigin = {} /\ tapMoved = {}
    /\ openPhoto = NoStill /\ picker = ClosedPicker /\ bulk = {} /\ changes = 0

OnScreen == {p \in Still : data.status[p] # "gone"}
ReadyOrder == {p \in Still : data.status[p] = "ready"}
ViewerShown == openPhoto \in ReadyOrder
\* Nothing lies over the grid.
GridFree == ~ViewerShown /\ ~picker.open

\* onLongPress is a new function in every render of the grid: each tile makes a
\* new createLongPress, and a timer of the old one is out of reach.
Rerendered(ts) == {[t EXCEPT !.stale = TRUE] : t \in ts}

LivePress(p) == [tile |-> p, stale |-> FALSE]

-----------------------------------------------------------------------------
(* The server, and the reload that shows it.                                *)

Without(d, ps) ==
    [status |-> [p \in Still |-> IF p \in ps THEN "gone" ELSE d.status[p]],
     cover |-> IF d.cover \in ps THEN NoStill ELSE d.cover]

\* The worker, an edit, another admin; "Set as cover" and "Delete" of the menu.
AlbumChanges ==
    /\ \/ \E p \in Still, to \in {"processing", "ready"} :
            /\ desk.status[p] \notin {"gone", to}
            /\ desk' = [desk EXCEPT !.status[p] = to]
       \/ \E p \in Still : desk.status[p] # "gone" /\ desk' = Without(desk, {p})
       \/ \E p \in Still : desk.status[p] # "gone" /\ desk' = [desk EXCEPT !.cover = p]
    /\ changes < MaxDeskChanges /\ changes' = changes + 1
    /\ UNCHANGED <<data, selection, press, timers, tapOrigin, tapMoved, openPhoto, picker, bulk>>

\* Mutant: the effect depends on open alone.
PickerSeesOnce(k, opened, cover) ==
    IF k.open /\ opened THEN [k EXCEPT !.selected = cover, !.clicked = NoStill, !.loading = TRUE] ELSE k

\* The effect on open and currentCoverId, when the picker has opened or the
\* cover has changed.
PickerSees(k, opened, cover) ==
    IF k.open THEN [k EXCEPT !.selected = cover, !.clicked = NoStill, !.loading = TRUE] ELSE k

\* setData.  Without photos the grid shows none of its parts.
GridReload ==
    /\ data' = desk
    /\ timers' = Rerendered(timers)
    /\ press' = IF press.tile # NoStill /\ desk.status[press.tile] = "gone" THEN NoPress ELSE press
    /\ tapOrigin' = {p \in tapOrigin : desk.status[p] # "gone"}
    /\ tapMoved' = {p \in tapMoved : desk.status[p] # "gone"}
    /\ picker' = IF \A p \in Still : desk.status[p] = "gone" THEN [ClosedPicker EXCEPT !.open = picker.open]
                 ELSE IF desk.cover # data.cover THEN PickerSees(picker, FALSE, desk.cover) ELSE picker
    /\ UNCHANGED <<desk, selection, openPhoto, bulk, changes>>

-----------------------------------------------------------------------------
(* A finger or a mouse on a tile.                                           *)

\* The button over the whole tile, which takes the press: canPreview || selectionMode.
Covered(p) == selection.mode \/ data.status[p] = "ready"

PointerDown(p) ==
    /\ GridFree /\ press = NoPress
    /\ p \in OnScreen /\ ~Covered(p)
    /\ press' = [tile |-> p, went |-> "still"]
    /\ tapOrigin' = tapOrigin \cup {p} /\ tapMoved' = tapMoved \ {p}
    /\ timers' = timers \cup {LivePress(p)}
    /\ UNCHANGED <<desk, data, selection, openPhoto, picker, bulk, changes>>

\* Mutant: no tolerance ends the press.
HeldThrough(ts, p) == ts

\* clear(): the timer the tile still holds.
ClearedPress(ts, p) == ts \ {LivePress(p)}

PointerMove(went) ==
    /\ press.tile # NoStill
    /\ \/ press.went = "still" /\ went \in {"past8", "past10"}
       \/ press.went = "past8" /\ went = "past10"
    /\ press' = [press EXCEPT !.went = went]
    /\ timers' = ClearedPress(timers, press.tile)
    /\ tapMoved' = IF went = "past10" THEN tapMoved \cup {press.tile} ELSE tapMoved
    /\ UNCHANGED <<desk, data, selection, tapOrigin, openPhoto, picker, bulk, changes>>

\* The mouse comes over a tile that missed the end of its press.
PointerOver(p) ==
    /\ p \in tapOrigin /\ p # press.tile
    /\ timers' = ClearedPress(timers, p)
    /\ tapMoved' \in {tapMoved, tapMoved \cup {p}}
    /\ UNCHANGED <<desk, data, selection, press, tapOrigin, openPhoto, picker, bulk, changes>>

\* A finger is let go at the tile it pressed; a mouse button at the tile, or at
\* none, that it is over by then, and the pressed tile is not told.  tapMoved
\* stays after a press that moved.
PointerUp(over) ==
    /\ press.tile # NoStill
    /\ timers' = ClearedPress(timers, over)
    /\ tapOrigin' = tapOrigin \ {over}
    /\ press' = NoPress
    /\ UNCHANGED <<desk, data, selection, tapMoved, openPhoto, picker, bulk, changes>>

PointerCancel ==
    /\ press.tile # NoStill
    /\ timers' = ClearedPress(timers, press.tile)
    /\ tapOrigin' = tapOrigin \ {press.tile} /\ tapMoved' = tapMoved \ {press.tile}
    /\ press' = NoPress
    /\ UNCHANGED <<desk, data, selection, openPhoto, picker, bulk, changes>>

\* 500 ms: enterSelection(id), which replaces a selection.
LongPress(t) ==
    /\ t \in timers
    /\ timers' = Rerendered(timers \ {t})
    /\ selection' = [mode |-> TRUE, ids |-> {t.tile}]
    /\ UNCHANGED <<desk, data, press, tapOrigin, tapMoved, openPhoto, picker, bulk, changes>>

\* handleTileClick.
TileClick(p) ==
    /\ GridFree /\ p \in OnScreen /\ Covered(p)
    /\ p \notin tapMoved
    /\ IF selection.mode
       THEN /\ selection' = [selection EXCEPT !.ids = IF p \in @ THEN @ \ {p} ELSE @ \cup {p}]
            /\ openPhoto' = openPhoto
       ELSE openPhoto' = p /\ selection' = selection
    /\ timers' = Rerendered(timers)
    /\ UNCHANGED <<desk, data, press, tapOrigin, tapMoved, picker, bulk, changes>>

-----------------------------------------------------------------------------
(* The selection bar and its actions.                                       *)

Selects(mode, ids) ==
    /\ selection' = [mode |-> mode, ids |-> ids]
    /\ timers' = Rerendered(timers)
    /\ UNCHANGED <<desk, data, press, tapOrigin, tapMoved, openPhoto, picker, bulk, changes>>

\* Select, Done and Cancel, Select all, Deselect.
SelectionButton ==
    /\ GridFree /\ OnScreen # {}
    /\ \/ ~selection.mode /\ Selects(TRUE, selection.ids)
       \/ selection.mode /\ Selects(FALSE, {})
       \/ selection.mode /\ Cardinality(selection.ids) # Cardinality(OnScreen) /\ Selects(TRUE, OnScreen)
       \/ selection.mode /\ selection.ids # {} /\ Selects(TRUE, {})

\* doDelete, confirmed, and doMove, with a target picked; one at a time.
BulkStarts ==
    /\ GridFree /\ OnScreen # {} /\ selection.mode /\ selection.ids # {} /\ bulk = {}
    /\ bulk' = selection.ids
    /\ UNCHANGED <<desk, data, selection, press, timers, tapOrigin, tapMoved, openPhoto, picker, changes>>

\* onCommitted reloads; onClear ends a selection made meanwhile too.
BulkCommits ==
    /\ bulk # {}
    /\ desk' = Without(desk, bulk)
    /\ bulk' = {}
    /\ selection' = [mode |-> FALSE, ids |-> {}]
    /\ timers' = Rerendered(timers)
    /\ UNCHANGED <<data, press, tapOrigin, tapMoved, openPhoto, picker, changes>>

BulkFails ==
    /\ bulk # {} /\ changes < MaxDeskChanges
    /\ bulk' = {} /\ changes' = changes + 1
    /\ UNCHANGED <<desk, data, selection, press, timers, tapOrigin, tapMoved, openPhoto, picker>>

-----------------------------------------------------------------------------
(* The viewer.                                                              *)

CloseViewer ==
    /\ ViewerShown
    /\ openPhoto' = NoStill /\ timers' = Rerendered(timers)
    /\ UNCHANGED <<desk, data, selection, press, tapOrigin, tapMoved, picker, bulk, changes>>

\* prevId, nextId: an arrow, or its key.
Navigate ==
    /\ ViewerShown
    /\ \E p \in ReadyOrder \ {openPhoto} :
         /\ \A q \in ReadyOrder : ~(openPhoto < q /\ q < p) /\ ~(p < q /\ q < openPhoto)
         /\ openPhoto' = p
    /\ timers' = Rerendered(timers)
    /\ UNCHANGED <<desk, data, selection, press, tapOrigin, tapMoved, picker, bulk, changes>>

-----------------------------------------------------------------------------
(* The cover picker.                                                        *)

\* "Choose cover..." of a tile's menu.
OpenPicker ==
    /\ GridFree /\ OnScreen # {} /\ ~selection.mode
    /\ picker' = PickerSees([picker EXCEPT !.open = TRUE], TRUE, data.cover)
    /\ timers' = Rerendered(timers)
    /\ UNCHANGED <<desk, data, selection, press, tapOrigin, tapMoved, openPhoto, bulk, changes>>

\* The photos it offers; an earlier list shows until then.
PickerLoads ==
    /\ picker.loading
    /\ picker' = [picker EXCEPT !.loading = FALSE,
                    !.ready = IF picker.open THEN {p \in Still : desk.status[p] = "ready"} ELSE @]
    /\ UNCHANGED <<desk, data, selection, press, timers, tapOrigin, tapMoved, openPhoto, bulk, changes>>

PickCover(p) ==
    /\ picker.open /\ p \in picker.ready
    /\ picker' = [picker EXCEPT !.selected = p, !.clicked = p]
    /\ UNCHANGED <<desk, data, selection, press, timers, tapOrigin, tapMoved, openPhoto, bulk, changes>>

\* The button "Set as cover" can be pressed.
CanCommitCover ==
    /\ picker.open /\ OnScreen # {} /\ picker.pending = NoStill
    /\ picker.selected \notin {NoStill, data.cover}

CommitCover ==
    /\ CanCommitCover
    /\ picker' = [picker EXCEPT !.pending = picker.selected]
    /\ UNCHANGED <<desk, data, selection, press, timers, tapOrigin, tapMoved, openPhoto, bulk, changes>>

\* setCover refuses a photo that is not of the album (F35/F44); its success
\* closes the picker, one opened again meanwhile too.
CoverSaved ==
    /\ picker.pending # NoStill
    /\ IF desk.status[picker.pending] = "gone"
       THEN picker' = [picker EXCEPT !.pending = NoStill] /\ UNCHANGED <<desk, timers>>
       ELSE /\ desk' = [desk EXCEPT !.cover = picker.pending]
            /\ picker' = [picker EXCEPT !.pending = NoStill, !.open = FALSE]
            /\ timers' = Rerendered(timers)
    /\ UNCHANGED <<data, selection, press, tapOrigin, tapMoved, openPhoto, bulk, changes>>

ClosePicker ==
    /\ picker.open
    /\ picker' = [picker EXCEPT !.open = FALSE]
    /\ timers' = Rerendered(timers)
    /\ UNCHANGED <<desk, data, selection, press, tapOrigin, tapMoved, openPhoto, bulk, changes>>

-----------------------------------------------------------------------------
HandNext ==
    \/ AlbumChanges \/ GridReload
    \/ \E p \in Still : PointerDown(p) \/ PointerOver(p) \/ TileClick(p) \/ PickCover(p)
    \/ \E went \in {"past8", "past10"} : PointerMove(went)
    \/ \E over \in OnScreen \cup {NoStill} : PointerUp(over)
    \/ PointerCancel \/ \E t \in timers : LongPress(t)
    \/ SelectionButton \/ BulkStarts \/ BulkCommits \/ BulkFails
    \/ CloseViewer \/ Navigate
    \/ OpenPicker \/ PickerLoads \/ CommitCover \/ CoverSaved \/ ClosePicker

HandSpec == HandInit /\ [][HandNext]_handVars

-----------------------------------------------------------------------------
(* Properties.                                                              *)

\* A long press that its tile still times is of a press whose end has not reached
\* the tile and whose pointer the tile has not seen move, and none runs while
\* photos are being selected: only a press that a render of the grid has cut off,
\* or a mouse button let go outside its tile, can select after it ended, and only
\* the former can throw a selection away.
PressMeansHold ==
    \A t \in timers : ~t.stale =>
      /\ t.tile \in tapOrigin
      /\ press.tile = t.tile => press.went = "still"
      /\ ~selection.mode

\* "Set as cover" saves a photo the admin clicked in this picker, whatever the
\* album's cover has become since it opened.
CoverIsPicked == CanCommitCover => picker.selected = picker.clicked
=============================================================================
