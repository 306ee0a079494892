---------------------------- MODULE Pages_proofs -----------------------------
(***************************************************************************)
(* Theorems about GridHands, ImageServing, AlbumOrder, Lightbox and         *)
(* Insights, for any number of photos, pages, visitors and events: what     *)
(* hands on the grid select, which images a page is served, what a grid     *)
(* shows of its album's order, what a tap on a heart ends as, and what a    *)
(* dashboard computes in one pass over the events.                          *)
(***************************************************************************)
EXTENDS AlbumOrder, GridHands, ImageServing, Lightbox, Insights,
        FiniteSetTheorems, SequenceTheorems, WellFoundedInduction, TLAPS

(* Induction, as the least of a set of numbers.                             *)
LEMMA NatMin ==
  ASSUME NEW T, T \subseteq Nat, T # {}
  PROVE  \E x \in T : \A y \in T : x <= y
<1> DEFINE R == {ss \in Nat \X Nat : ss[1] < ss[2]}
<1>1. IsWellFoundedOn(R, Nat)
  BY NatLessThanWellFounded DEF OpToRel
<1>2. PICK x \in T : \A y \in T : ~ (<<y, x>> \in R)
  <2> HIDE DEF R
  <2> QED BY <1>1, WFMin
<1>3. ASSUME NEW y \in T PROVE x <= y
  <2>1. x \in Nat /\ y \in Nat
    OBVIOUS
  <2>2. ~(y < x)
    <3>1. <<y, x>> \notin R
      BY <1>2
    <3> QED BY <2>1, <3>1
  <2> HIDE DEF R
  <2> QED BY <2>1, <2>2
<1> HIDE DEF R
<1> QED BY <1>3

(* Division.                                                                *)
LEMMA DivBounds ==
    ASSUME NEW D \in Nat, D > 0, NEW t \in Nat
    PROVE  t \div D \in Nat /\ D * (t \div D) <= t /\ t < D * (t \div D) + D
OBVIOUS

-----------------------------------------------------------------------------
(* Hands on the grid.                                                       *)

DeskStatus == {"processing", "ready", "gone"}
Fingers == [tile : Still \cup {NoStill}, went : {"still", "past8", "past10"}]
Pickers == [open : BOOLEAN, loading : BOOLEAN, ready : SUBSET Still, selected : Still \cup {NoStill},
            clicked : Still \cup {NoStill}, pending : Still \cup {NoStill}]
Presses == [tile : Still, stale : BOOLEAN]

HandTyped ==
    /\ desk \in Album(DeskStatus) /\ data \in Album(DeskStatus)
    /\ selection \in [mode : BOOLEAN, ids : SUBSET Still]
    /\ press \in Fingers /\ timers \subseteq Presses
    /\ tapOrigin \subseteq Still /\ tapMoved \subseteq Still /\ openPhoto \in Still \cup {NoStill}
    /\ picker \in Pickers /\ bulk \subseteq Still /\ changes \in 0..MaxDeskChanges

\* What the picker offers to save was clicked, or is the cover already.
PickerInv == (picker.open /\ picker.selected \notin {NoStill, data.cover}) => picker.selected = picker.clicked

HandInv == HandTyped /\ PressMeansHold /\ PickerInv

(* No photo is numbered 0.                                                  *)
LEMMA StillTypes ==
    /\ Roll \in Nat /\ MaxDeskChanges \in Nat /\ NoStill \notin Still
    /\ ClosedPicker \in Pickers /\ NoPress \in Fingers /\ NoPress.tile = NoStill
    /\ \A ts \in SUBSET Presses : Rerendered(ts) \subseteq Presses /\ \A t \in Rerendered(ts) : t.stale
    /\ \A p \in Still : LivePress(p) \in Presses /\ LivePress(p).tile = p /\ ~LivePress(p).stale
    /\ \A t \in Presses : ~t.stale => t = LivePress(t.tile)
<1>1. Roll \in Nat /\ MaxDeskChanges \in Nat /\ NoStill \notin Still
  BY HandsAssumption DEF Still, NoStill
<1>2. ClosedPicker \in Pickers /\ NoPress \in Fingers /\ NoPress.tile = NoStill
  BY DEF ClosedPicker, Pickers, NoPress, Fingers
<1>3. \A ts \in SUBSET Presses : Rerendered(ts) \subseteq Presses /\ \A t \in Rerendered(ts) : t.stale
  BY DEF Rerendered, Presses
<1>4. \A p \in Still : LivePress(p) \in Presses /\ LivePress(p).tile = p /\ ~LivePress(p).stale
  BY DEF LivePress, Presses
<1>5. \A t \in Presses : ~t.stale => t = LivePress(t.tile)
  BY DEF LivePress, Presses
<1> QED BY <1>1, <1>2, <1>3, <1>4, <1>5

(* Photos taken out of an album leave an album.                             *)
LEMMA WithoutTyped ==
    ASSUME NEW d \in Album(DeskStatus), NEW ps PROVE Without(d, ps) \in Album(DeskStatus)
BY DEF Without, Album, DeskStatus

(* What the album and the grid's reloads do.                                *)
LEMMA DeskSteps == ASSUME HandInv, AlbumChanges \/ GridReload PROVE HandInv'
<1> USE StillTypes
<1>1. CASE AlbumChanges
  <2>1. UNCHANGED <<data, selection, press, timers, tapOrigin, tapMoved, openPhoto, picker, bulk>>
        /\ changes' = changes + 1 /\ changes < MaxDeskChanges
    BY <1>1 DEF AlbumChanges
  <2>2. desk' \in Album(DeskStatus)
    <3>0. desk \in Album(DeskStatus)
      BY DEF HandInv, HandTyped
    <3>1. CASE \E p \in Still, to \in {"processing", "ready"} : desk' = [desk EXCEPT !.status[p] = to]
      <4>1. PICK p \in Still, to \in {"processing", "ready"} : desk' = [desk EXCEPT !.status[p] = to]
        BY <3>1
      <4>2. desk' = [desk EXCEPT !.status = [desk.status EXCEPT ![p] = to]]
        BY <4>1
      <4> QED BY <3>0, <4>2 DEF Album, DeskStatus
    <3>2. CASE \E p \in Still : desk' = Without(desk, {p})
      BY <3>0, <3>2, WithoutTyped
    <3>3. CASE \E p \in Still : desk' = [desk EXCEPT !.cover = p]
      BY <3>0, <3>3 DEF Album
    <3> QED BY <1>1, <3>1, <3>2, <3>3 DEF AlbumChanges
  <2>3. changes' \in 0..MaxDeskChanges
    BY <2>1 DEF HandInv, HandTyped
  <2> QED BY <2>1, <2>2, <2>3 DEF HandInv, HandTyped, PressMeansHold, PickerInv
<1>2. CASE GridReload
  <2>0. HandTyped
    BY DEF HandInv
  <2>1. data' = desk /\ timers' = Rerendered(timers) /\ UNCHANGED <<desk, selection, openPhoto, bulk, changes>>
        /\ tapOrigin' \subseteq Still /\ tapMoved' \subseteq Still
    BY <1>2, <2>0 DEF GridReload, HandTyped
  <2>2. press' \in Fingers
    BY <1>2, <2>0 DEF GridReload, HandTyped
  <2>3. picker' \in Pickers /\ PickerInv'
    <3>1. CASE \A p \in Still : desk.status[p] = "gone"
      <4>1. picker' = [ClosedPicker EXCEPT !.open = picker.open]
        BY <1>2, <3>1 DEF GridReload
      <4>2. picker' \in Pickers /\ picker'.selected = NoStill
        <5>1. picker.open \in BOOLEAN
          BY <2>0 DEF HandTyped, Pickers
        <5> QED BY <4>1, <5>1, StillTypes DEF Pickers, ClosedPicker
      <4> QED BY <4>2 DEF PickerInv
    <3>2. CASE ~(\A p \in Still : desk.status[p] = "gone") /\ desk.cover # data.cover /\ picker.open
      <4>1. picker' = [picker EXCEPT !.selected = desk.cover, !.clicked = NoStill, !.loading = TRUE]
        BY <1>2, <3>2 DEF GridReload, PickerSees
      <4>2. picker' \in Pickers /\ picker'.selected = desk.cover
        BY <2>0, <4>1 DEF HandTyped, Pickers, Album
      <4> QED BY <2>1, <4>2 DEF PickerInv
    <3>3. CASE ~(\A p \in Still : desk.status[p] = "gone") /\ ~(desk.cover # data.cover /\ picker.open)
      <4>1. picker' = picker /\ (picker.open => data'.cover = data.cover)
        BY <1>2, <2>1, <3>3 DEF GridReload, PickerSees
      <4> QED BY <2>0, <4>1 DEF HandTyped, HandInv, PickerInv
    <3> QED BY <3>1, <3>2, <3>3
  <2>4. HandTyped'
    BY <2>0, <2>1, <2>2, <2>3 DEF HandTyped
  <2>5. PressMeansHold'
    BY <2>0, <2>1 DEF HandTyped, PressMeansHold
  <2> QED BY <2>3, <2>4, <2>5 DEF HandInv
<1> QED BY <1>1, <1>2

(* A finger or a mouse: a tile times no press that it saw end or move.      *)
LEMMA FingerSteps ==
    ASSUME HandInv,
           \/ \E p \in Still : PointerDown(p) \/ PointerOver(p) \/ TileClick(p)
           \/ \E went \in {"past8", "past10"} : PointerMove(went)
           \/ \E over \in OnScreen \cup {NoStill} : PointerUp(over)
           \/ PointerCancel \/ \E t \in timers : LongPress(t)
    PROVE  HandInv'
<1> USE StillTypes
<1>0. HandTyped /\ PressMeansHold /\ PickerInv
  BY DEF HandInv
<1>00. UNCHANGED <<desk, data, picker, bulk, changes>>
  BY DEF PointerDown, PointerOver, TileClick, PointerMove, PointerUp, PointerCancel, LongPress
<1>1. ASSUME selection' \in [mode : BOOLEAN, ids : SUBSET Still], press' \in Fingers, timers' \subseteq Presses,
             tapOrigin' \subseteq Still, tapMoved' \subseteq Still, openPhoto' \in Still \cup {NoStill},
             PressMeansHold'
      PROVE  HandInv'
  BY <1>0, <1>00, <1>1 DEF HandInv, HandTyped, PickerInv
<1>2. \A q : \A t \in timers \ {LivePress(q)} : ~t.stale => t.tile # q
  BY <1>0 DEF HandTyped
<1>3. ASSUME NEW p \in Still, PointerDown(p) PROVE HandInv'
  <2>1. /\ press' = [tile |-> p, went |-> "still"] /\ timers' = timers \cup {LivePress(p)}
        /\ tapOrigin' = tapOrigin \cup {p}
        /\ tapMoved' \subseteq Still /\ UNCHANGED <<selection, openPhoto>> /\ ~selection.mode
    BY <1>0, <1>3 DEF PointerDown, Covered, HandTyped
  <2>3. PressMeansHold'
    BY <1>0, <2>1 DEF PressMeansHold
  <2>4. press' \in Fingers
    BY <2>1 DEF Fingers
  <2> QED BY <1>0, <1>1, <2>1, <2>3, <2>4 DEF HandTyped
<1>4. ASSUME NEW p \in Still, TileClick(p) PROVE HandInv'
  <2>1. timers' = Rerendered(timers) /\ UNCHANGED <<press, tapOrigin, tapMoved>>
    BY <1>4 DEF TileClick
  <2>2. selection' \in [mode : BOOLEAN, ids : SUBSET Still] /\ openPhoto' \in Still \cup {NoStill}
    BY <1>0, <1>4 DEF TileClick, HandTyped
  <2>3. PressMeansHold'
    BY <1>0, <2>1 DEF PressMeansHold, HandTyped
  <2> QED BY <1>0, <1>1, <2>1, <2>2, <2>3 DEF HandTyped
<1>5. ASSUME NEW went \in {"past8", "past10"}, PointerMove(went) PROVE HandInv'
  <2>1. /\ press.tile # NoStill /\ press' = [press EXCEPT !.went = went]
        /\ timers' = timers \ {LivePress(press.tile)} /\ UNCHANGED <<selection, tapOrigin, openPhoto>>
        /\ tapMoved' \subseteq tapMoved \cup {press.tile}
    BY <1>5 DEF PointerMove, ClearedPress
  <2>3. press' \in Fingers /\ press.tile \in Still /\ press'.tile = press.tile
    BY <1>0, <2>1 DEF HandTyped, Fingers
  <2>2. PressMeansHold'
    BY <1>0, <1>2, <2>1, <2>3 DEF PressMeansHold
  <2> QED BY <1>0, <1>1, <2>1, <2>2, <2>3 DEF HandTyped
<1>6. ASSUME NEW over \in Still \cup {NoStill},
             press' = NoPress, tapMoved' \subseteq tapMoved, timers' = timers \ {LivePress(over)},
             tapOrigin' = tapOrigin \ {over}, UNCHANGED <<selection, openPhoto>>
      PROVE  HandInv'
  <2>1. PressMeansHold'
    <3> SUFFICES ASSUME NEW t \in timers', ~t.stale
                 PROVE  t.tile \in tapOrigin' /\ press'.tile # t.tile /\ ~selection'.mode
      BY DEF PressMeansHold
    <3>1. t \in timers /\ t.tile # over /\ t.tile \in Still
      BY <1>0, <1>2, <1>6 DEF HandTyped, Presses
    <3> QED BY <1>0, <1>6, <3>1 DEF PressMeansHold
  <2> QED BY <1>0, <1>1, <1>6, <2>1 DEF HandTyped
<1>7. ASSUME NEW over \in OnScreen \cup {NoStill}, PointerUp(over) PROVE HandInv'
  BY <1>6, <1>7 DEF PointerUp, ClearedPress, OnScreen
<1>8. CASE PointerCancel
  <2>1. press.tile \in Still \cup {NoStill}
    BY <1>0 DEF HandTyped, Fingers
  <2> QED BY <1>6, <1>8, <2>1 DEF PointerCancel, ClearedPress
<1>9. ASSUME NEW p \in Still, PointerOver(p) PROVE HandInv'
  <2>1. /\ timers' = timers \ {LivePress(p)} /\ tapMoved' \subseteq tapMoved \cup {p}
        /\ UNCHANGED <<selection, press, tapOrigin, openPhoto>>
    BY <1>9 DEF PointerOver, ClearedPress
  <2>2. PressMeansHold'
    BY <1>0, <2>1 DEF PressMeansHold
  <2> QED BY <1>0, <1>1, <2>1, <2>2 DEF HandTyped
<1>10. ASSUME NEW t \in timers, LongPress(t) PROVE HandInv'
  <2>1. /\ timers' = Rerendered(timers \ {t}) /\ selection' = [mode |-> TRUE, ids |-> {t.tile}]
        /\ UNCHANGED <<press, tapOrigin, tapMoved, openPhoto>>
    BY <1>10 DEF LongPress
  <2>2. t.tile \in Still /\ timers \ {t} \in SUBSET Presses
    BY <1>0, <1>10 DEF HandTyped, Presses
  <2>3. PressMeansHold'
    BY <2>1, <2>2 DEF PressMeansHold
  <2>4. selection' \in [mode : BOOLEAN, ids : SUBSET Still]
    BY <2>1, <2>2
  <2> QED BY <1>0, <1>1, <2>1, <2>2, <2>3, <2>4 DEF HandTyped
<1> QED BY <1>3, <1>4, <1>5, <1>7, <1>8, <1>9, <1>10

(* The selection bar, its actions and the viewer: a render makes every      *)
(* timer stale.                                                             *)
LEMMA BarSteps ==
    ASSUME HandInv, SelectionButton \/ BulkStarts \/ BulkCommits \/ BulkFails \/ CloseViewer \/ Navigate
    PROVE  HandInv'
<1> USE StillTypes
<1>0. HandTyped /\ PressMeansHold /\ PickerInv
  BY DEF HandInv
<1>00. UNCHANGED <<data, press, tapOrigin, tapMoved, picker>>
  BY DEF SelectionButton, Selects, BulkStarts, BulkCommits, BulkFails, CloseViewer, Navigate
<1>1. ASSUME desk' \in Album(DeskStatus), selection' \in [mode : BOOLEAN, ids : SUBSET Still],
             openPhoto' \in Still \cup {NoStill}, bulk' \subseteq Still, changes' \in 0..MaxDeskChanges,
             timers' = Rerendered(timers) \/ (timers' = timers /\ selection' = selection)
      PROVE  HandInv'
  <2>1. PressMeansHold'
    BY <1>0, <1>00, <1>1 DEF PressMeansHold, HandTyped
  <2>2. timers' \subseteq Presses
    BY <1>0, <1>1 DEF HandTyped
  <2> QED BY <1>0, <1>00, <1>1, <2>1, <2>2 DEF HandInv, HandTyped, PickerInv
<1>2. CASE SelectionButton
  <2>1. PICK mode \in BOOLEAN, ids \in SUBSET Still : Selects(mode, ids)
    BY <1>0, <1>2 DEF SelectionButton, HandTyped, OnScreen
  <2> QED BY <1>0, <1>1, <2>1 DEF Selects, HandTyped
<1>3. CASE BulkStarts
  BY <1>0, <1>1, <1>3 DEF BulkStarts, HandTyped
<1>4. CASE BulkCommits
  BY <1>0, <1>1, <1>4, WithoutTyped DEF BulkCommits, HandTyped
<1>5. CASE BulkFails
  BY <1>0, <1>1, <1>5 DEF BulkFails, HandTyped
<1>6. CASE CloseViewer \/ Navigate
  BY <1>0, <1>1, <1>6 DEF CloseViewer, Navigate, HandTyped, ReadyOrder
<1> QED BY <1>2, <1>3, <1>4, <1>5, <1>6

(* The picker.                                                              *)
LEMMA PickerSteps ==
    ASSUME HandInv,
           \/ \E p \in Still : PickCover(p)
           \/ OpenPicker \/ PickerLoads \/ CommitCover \/ CoverSaved \/ ClosePicker
    PROVE  HandInv'
<1> USE StillTypes
<1>0. HandTyped /\ PressMeansHold /\ PickerInv /\ picker \in Pickers
  BY DEF HandInv, HandTyped
<1>00. UNCHANGED <<data, selection, press, tapOrigin, tapMoved, openPhoto, bulk, changes>>
  BY DEF PickCover, OpenPicker, PickerLoads, CommitCover, CoverSaved, ClosePicker
<1>1. ASSUME desk' \in Album(DeskStatus), picker' \in Pickers, PickerInv',
             timers' = Rerendered(timers) \/ timers' = timers
      PROVE  HandInv'
  <2>1. PressMeansHold'
    BY <1>0, <1>00, <1>1 DEF PressMeansHold, HandTyped
  <2>2. timers' \subseteq Presses
    BY <1>0, <1>1 DEF HandTyped
  <2> QED BY <1>0, <1>00, <1>1, <2>1, <2>2 DEF HandInv, HandTyped
<1>2. ASSUME NEW p \in Still, PickCover(p) PROVE HandInv'
  <2>1. picker' \in Pickers /\ picker'.selected = picker'.clicked /\ UNCHANGED <<desk, timers>>
    BY <1>0, <1>2 DEF PickCover, Pickers
  <2> QED BY <1>0, <1>1, <2>1 DEF PickerInv, HandTyped
<1>3. CASE OpenPicker
  <2>1. picker' = [picker EXCEPT !.open = TRUE, !.selected = data.cover, !.clicked = NoStill, !.loading = TRUE]
    BY <1>0, <1>3 DEF OpenPicker, PickerSees, Pickers
  <2>2. picker' \in Pickers /\ picker'.selected = data.cover
    BY <1>0, <2>1 DEF Pickers, HandTyped, Album
  <2> QED BY <1>0, <1>00, <1>1, <1>3, <2>2 DEF OpenPicker, PickerInv, HandTyped
<1>4. CASE PickerLoads
  <2>1. /\ picker' \in Pickers /\ picker'.selected = picker.selected /\ picker'.clicked = picker.clicked
        /\ picker'.open = picker.open /\ UNCHANGED <<desk, timers>>
    BY <1>0, <1>4 DEF PickerLoads, Pickers
  <2> QED BY <1>0, <1>00, <1>1, <2>1 DEF PickerInv, HandTyped
<1>5. CASE CommitCover
  <2>1. /\ picker' \in Pickers /\ picker'.selected = picker.selected /\ picker'.clicked = picker.clicked
        /\ picker'.open = picker.open /\ UNCHANGED <<desk, timers>>
    BY <1>0, <1>5 DEF CommitCover, Pickers
  <2> QED BY <1>0, <1>00, <1>1, <2>1 DEF PickerInv, HandTyped
<1>6. CASE CoverSaved
  <2>1. desk \in Album(DeskStatus) /\ picker.pending \in Still
    BY <1>0, <1>6 DEF CoverSaved, HandTyped, Pickers
  <2>2. CASE desk.status[picker.pending] = "gone"
    <3>1. /\ picker' \in Pickers /\ picker'.selected = picker.selected /\ picker'.clicked = picker.clicked
          /\ picker'.open = picker.open /\ UNCHANGED <<desk, timers>>
      BY <1>0, <1>6, <2>2 DEF CoverSaved, Pickers
    <3> QED BY <1>0, <1>00, <1>1, <2>1, <3>1 DEF PickerInv
  <2>3. CASE desk.status[picker.pending] # "gone"
    <3>1. /\ picker' \in Pickers /\ ~picker'.open /\ timers' = Rerendered(timers)
          /\ desk' = [desk EXCEPT !.cover = picker.pending]
      <4>1. /\ picker' = [picker EXCEPT !.pending = NoStill, !.open = FALSE] /\ timers' = Rerendered(timers)
            /\ desk' = [desk EXCEPT !.cover = picker.pending]
        BY <1>6, <2>3 DEF CoverSaved
      <4> QED BY <1>0, <4>1 DEF Pickers
    <3>2. desk' \in Album(DeskStatus)
      BY <2>1, <3>1 DEF Album
    <3> QED BY <1>1, <3>1, <3>2 DEF PickerInv
  <2> QED BY <2>2, <2>3
<1>7. CASE ClosePicker
  <2>1. picker' \in Pickers /\ ~picker'.open /\ timers' = Rerendered(timers) /\ desk' = desk
    BY <1>0, <1>7 DEF ClosePicker, Pickers
  <2> QED BY <1>0, <1>1, <2>1 DEF PickerInv, HandTyped
<1> QED BY <1>2, <1>3, <1>4, <1>5, <1>6, <1>7

LEMMA HandBegins == HandInit => HandInv
<1> SUFFICES ASSUME HandInit PROVE HandInv
  OBVIOUS
<1>1. desk \in Album(DeskStatus)
  BY DEF HandInit, Album, DeskStatus
<1> QED BY <1>1, StillTypes DEF HandInit, HandInv, HandTyped, PressMeansHold, PickerInv, ClosedPicker

LEMMA HandStep == HandInv /\ [HandNext]_handVars => HandInv'
<1>1. ASSUME HandInv, UNCHANGED handVars PROVE HandInv'
  BY <1>1 DEF handVars, HandInv, HandTyped, PressMeansHold, PickerInv
<1> QED BY <1>1, DeskSteps, FingerSteps, BarSteps, PickerSteps DEF HandNext

(* A long press that a tile still times is of a press whose end has not     *)
(* reached it and whose pointer it has not seen move, with nothing being    *)
(* selected; and the picker saves a photo that was clicked in it.           *)
THEOREM HandsAlwaysObeyed == HandSpec => [](HandTypeOK /\ PressMeansHold /\ CoverIsPicked)
<1>1. HandInv => HandTypeOK /\ PressMeansHold /\ CoverIsPicked
  BY DEF HandInv, HandTyped, HandTypeOK, DeskStatus, Fingers, Presses, Pickers, PickerInv, CoverIsPicked, CanCommitCover
<1> QED BY <1>1, HandBegins, HandStep, PTL DEF HandSpec

-----------------------------------------------------------------------------
(* Images.                                                                  *)

LEMMA DivGrows ==
    ASSUME NEW D \in Nat, D > 0, NEW s \in Nat, NEW t \in Nat, s <= t
    PROVE  s \div D <= t \div D
<1> DEFINE q == s \div D
           r == t \div D
<1>1. q \in Nat /\ r \in Nat /\ D * q <= s /\ t < D * r + D
  BY DivBounds
<1> HIDE DEF q, r
<1>2. ASSUME q >= r + 1 PROVE FALSE
  <2>1. PICK k \in Nat : q = r + 1 + k
    <3>1. q - r - 1 \in Nat
      BY <1>1, <1>2
    <3>2. q = r + 1 + (q - r - 1)
      BY <1>1
    <3> QED BY <3>1, <3>2
  <2>2. D * q = D * r + D + D * k
    BY <1>1, <2>1
  <2>3. D * k \in Nat /\ D * r \in Nat /\ D * q \in Nat
    BY <1>1
  <2>4. D * r + D + D * k <= s
    BY <1>1, <2>2
  <2> QED BY <1>1, <2>3, <2>4
<1> QED BY <1>1, <1>2 DEF q, r

Records == [at : Moment, bytes : Bytes]
Rewrites == [pc : {"idle", "put", "done"}, bytes : Bytes]
Variants == [image : Image, version : Int, bytes : Bytes]
Tiles == [pc : {"blank", "html", "reading", "shown"}, image : Image, version : Int, bytes : Bytes, due : Bytes]

ServedTyped ==
    /\ moment \in Moment /\ source \in [Image -> Bytes] /\ record \in [Image -> Records]
    /\ rewrite \in [Rewrite -> Rewrites] /\ variant \subseteq Variants /\ tile \in [Page -> Tiles]
    /\ touches \in 0..MaxTouches /\ hasty \subseteq Image

Underway == {f \in Rewrite : rewrite[f].pc # "idle"}

\* Writes are numbered as they come: what the row or a rewrite names is not
\* newer than the object.
WritesOK ==
    /\ \A i \in Image : /\ source[i] <= Cardinality(Underway)
                        /\ record[i].bytes <= source[i] /\ record[i].at <= moment
    /\ \A e \in Underway : rewrite[e].bytes <= source[ImageOf[e]]

\* Version v of image i promises the bytes d: a page rendered now would, or
\* one was rendered so.
Promised(i, v, d) ==
    \/ v = UrlVersion(i) /\ d = record[i].bytes
    \/ \E p \in Page : /\ tile[p].pc # "blank" /\ tile[p].image = i
                       /\ tile[p].version = v /\ tile[p].due = d

\* A version promises one thing, and what is kept or fetched under it keeps it.
VersionsOK(i) ==
    /\ \A v, d, e : Promised(i, v, d) /\ Promised(i, v, e) => d = e
    /\ \A v, d : Promised(i, v, d) => d <= source[i] /\ v <= UrlVersion(i) /\ v \in Nat
    /\ \A c \in variant : c.image = i => c.version <= UrlVersion(i)
    /\ \A c \in variant : \A d : c.image = i /\ Promised(i, c.version, d) => d <= c.bytes
    /\ \A p \in Page : (tile[p].image = i /\ tile[p].pc \in {"reading", "shown"}) => tile[p].due <= tile[p].bytes

ServedInv == ServedTyped /\ WritesOK /\ \A i \in Image \ hasty : VersionsOK(i)

(* Numbers.                                                                 *)
LEMMA ImageConstants ==
    /\ Second \in Nat /\ Second > 0 /\ Moment \subseteq Nat /\ 0 \in Moment /\ LastMoment \in Nat
    /\ Cardinality(Rewrite) \in Nat /\ Bytes \subseteq Nat /\ 0 \in Bytes /\ NoVersion = -1
    /\ MaxTouches \in Nat /\ IsFiniteSet(Rewrite) /\ ImageOf \in [Rewrite -> Image]
    /\ \A t \in Moment : VersionSeed(t) \in Nat
    /\ \A s, t \in Moment : s <= t => VersionSeed(s) <= VersionSeed(t)
    /\ (CHOOSE i \in Image : TRUE) \in Image
<1>1. /\ Second \in Nat /\ Second > 0 /\ Moment \subseteq Nat /\ 0 \in Moment /\ LastMoment \in Nat
      /\ NoVersion = -1 /\ MaxTouches \in Nat /\ IsFiniteSet(Rewrite) /\ ImageOf \in [Rewrite -> Image]
      /\ (CHOOSE i \in Image : TRUE) \in Image
  BY ImageAssumption DEF Moment, NoVersion
<1>2. Cardinality(Rewrite) \in Nat
  BY <1>1, FS_CardinalityType
<1>3. Bytes \subseteq Nat /\ 0 \in Bytes
  BY <1>2 DEF Bytes
<1>4. ASSUME NEW t \in Moment PROVE VersionSeed(t) \in Nat
  BY <1>1, DivBounds DEF VersionSeed
<1>5. ASSUME NEW s \in Moment, NEW t \in Moment, s <= t PROVE VersionSeed(s) <= VersionSeed(t)
  BY <1>1, <1>5, DivGrows DEF VersionSeed
<1> QED BY <1>1, <1>2, <1>3, <1>4, <1>5

LEMMA ServedNumbers ==
    ASSUME ServedTyped
    PROVE  /\ moment \in Nat
           /\ \A i \in Image : /\ source[i] \in Nat /\ record[i].bytes \in Nat /\ record[i].at \in Moment
                               /\ record[i].at \in Nat /\ UrlVersion(i) \in Nat
           /\ \A p \in Page : tile[p].bytes \in Nat /\ tile[p].due \in Nat /\ tile[p].version \in Int /\ tile[p].image \in Image
           /\ \A c \in variant : c.bytes \in Nat /\ c.version \in Int /\ c.image \in Image
           /\ \A e \in Rewrite : rewrite[e].bytes \in Nat
<1> USE DEF ServedTyped
<1>1. moment \in Nat
  BY ImageConstants
<1>2. ASSUME NEW i \in Image
      PROVE  /\ source[i] \in Nat /\ record[i].bytes \in Nat /\ record[i].at \in Moment
             /\ record[i].at \in Nat /\ UrlVersion(i) \in Nat
  <2>1. record[i] \in Records /\ source[i] \in Bytes
    OBVIOUS
  <2> QED BY <2>1, ImageConstants DEF Records, UrlVersion
<1>3. ASSUME NEW p \in Page PROVE tile[p].bytes \in Nat /\ tile[p].due \in Nat /\ tile[p].version \in Int /\ tile[p].image \in Image
  <2>1. tile[p] \in Tiles
    OBVIOUS
  <2> QED BY <2>1, ImageConstants DEF Tiles
<1>4. ASSUME NEW c \in variant PROVE c.bytes \in Nat /\ c.version \in Int /\ c.image \in Image
  BY ImageConstants DEF Variants
<1>5. ASSUME NEW e \in Rewrite PROVE rewrite[e].bytes \in Nat
  <2>1. rewrite[e] \in Rewrites
    OBVIOUS
  <2> QED BY <2>1, ImageConstants DEF Rewrites
<1> QED BY <1>1, <1>2, <1>3, <1>4, <1>5

(* An image that a step leaves as it is.                                    *)
LEMMA VersionsSame ==
    ASSUME ServedInv, NEW i \in Image, i \notin hasty,
           record'[i] = record[i], source'[i] \in Nat, source[i] <= source'[i], UNCHANGED <<variant, tile>>
    PROVE  VersionsOK(i)'
<1>1. \A v, d : Promised(i, v, d)' <=> Promised(i, v, d)
  BY DEF Promised, UrlVersion
<1>2. UrlVersion(i)' = UrlVersion(i)
  BY DEF UrlVersion
<1>3. \A v, d : Promised(i, v, d) => d \in Nat
  BY ServedNumbers DEF Promised, ServedInv
<1>4. source[i] \in Nat /\ VersionsOK(i)
  BY ServedNumbers DEF ServedInv
<1> QED BY <1>1, <1>2, <1>3, <1>4 DEF VersionsOK

(* The edits, and what else stamps a row.                                   *)
LEMMA RewriteKeeps == ASSUME ServedInv, NEW e \in Rewrite, PutOriginal(e) PROVE ServedInv'
<1> DEFINE b == 1 + Cardinality(Underway)
           i0 == ImageOf[e]
<1>0. ServedTyped /\ WritesOK
  BY DEF ServedInv
<1>1. /\ rewrite[e].pc = "idle" /\ source' = [source EXCEPT ![i0] = b]
      /\ rewrite' = [rewrite EXCEPT ![e] = [pc |-> "put", bytes |-> b]]
      /\ UNCHANGED <<moment, variant, tile, touches, record, hasty>>
  BY DEF PutOriginal, RewriteSame, Underway
<1>2. Underway' = Underway \cup {e} /\ e \notin Underway /\ i0 \in Image
  BY <1>0, <1>1, ImageConstants DEF Underway, ServedTyped
<1>3. IsFiniteSet(Underway) /\ Cardinality(Underway') = Cardinality(Underway) + 1 /\ Cardinality(Underway) \in Nat
      /\ Cardinality(Underway') <= Cardinality(Rewrite)
  <2>1. IsFiniteSet(Underway) /\ Underway \subseteq Rewrite
    BY ImageConstants, FS_Subset DEF Underway
  <2>2. Cardinality(Underway') = Cardinality(Underway) + 1
    BY <1>2, <2>1, FS_AddElement
  <2>3. Cardinality(Underway') <= Cardinality(Rewrite)
    BY <1>2, <2>1, ImageConstants, FS_Subset
  <2> QED BY <2>1, <2>2, <2>3, FS_CardinalityType
<1>4. b \in Bytes /\ b \in Nat /\ b = Cardinality(Underway')
  BY <1>3, ImageConstants DEF Bytes
<1> HIDE DEF b, i0
<1>5. ServedTyped'
  BY <1>0, <1>1, <1>2, <1>4 DEF ServedTyped, Rewrites
<1>6. \A i \in Image : source'[i] = (IF i = i0 THEN b ELSE source[i]) /\ source'[i] \in Nat
  BY <1>0, <1>1, <1>4, ServedNumbers DEF ServedTyped
<1>7. \A i \in Image : source[i] <= source'[i] /\ source'[i] <= Cardinality(Underway')
  BY <1>0, <1>3, <1>4, <1>6, ServedNumbers DEF WritesOK, b
<1>8. WritesOK'
  <2>1. \A f \in Rewrite : rewrite'[f] = IF f = e THEN [pc |-> "put", bytes |-> b] ELSE rewrite[f]
    BY <1>0, <1>1 DEF ServedTyped
  <2>2. \A i \in Image : record[i].bytes <= source'[i]
    BY <1>0, <1>6, <1>7, ServedNumbers DEF WritesOK
  <2>3. ASSUME NEW f \in Underway' PROVE rewrite'[f].bytes <= source'[ImageOf[f]]
    <3>0. ImageOf[f] \in Image /\ f \in Rewrite
      BY <1>2, ImageConstants DEF Underway
    <3>1. CASE f = e
      BY <1>4, <1>6, <2>1, <3>0, <3>1 DEF i0
    <3>2. CASE f # e
      <4>1. f \in Underway /\ rewrite'[f] = rewrite[f]
        BY <1>2, <2>1, <2>3, <3>0, <3>2
      <4>2. rewrite[f].bytes <= source[ImageOf[f]] /\ source[ImageOf[f]] <= source'[ImageOf[f]]
        BY <1>0, <1>7, <3>0, <4>1 DEF WritesOK
      <4> QED BY <1>0, <1>6, <3>0, <4>1, <4>2, ServedNumbers
    <3> QED BY <3>1, <3>2
  <2> QED BY <1>0, <1>1, <1>7, <2>2, <2>3 DEF WritesOK
<1>9. ASSUME NEW i \in Image \ hasty' PROVE VersionsOK(i)'
  BY <1>1, <1>6, <1>7, VersionsSame
<1> QED BY <1>5, <1>8, <1>9 DEF ServedInv

(* A stamp: a new second is a new version, which nothing was kept under yet.*)
LEMMA StampKeeps ==
    ASSUME ServedInv, NEW i \in Image, NEW n \in Bytes, n <= source[i],
           record' = [record EXCEPT ![i] = [at |-> moment, bytes |-> n]],
           UNCHANGED <<moment, source, variant, tile>>, touches' \in 0..MaxTouches,
           hasty' = hasty \/ hasty' = hasty \cup {i},
           (i \notin hasty' /\ n # record[i].bytes) => VersionSeed(record[i].at) # VersionSeed(moment),
           rewrite' \in [Rewrite -> Rewrites], Underway' = Underway, \A e \in Rewrite : rewrite'[e].bytes = rewrite[e].bytes
    PROVE  ServedInv'
<1>0. ServedTyped /\ WritesOK /\ n \in Nat
  BY ImageConstants DEF ServedInv
<1>1. \A j \in Image : record'[j] = IF j = i THEN [at |-> moment, bytes |-> n] ELSE record[j]
  BY <1>0 DEF ServedTyped
<1>2. ServedTyped'
  BY <1>0 DEF ServedTyped, Records
<1>3. WritesOK'
  <2>1. \A j \in Image : record'[j].bytes <= source[j] /\ record'[j].at <= moment
    BY <1>0, <1>1, ServedNumbers DEF WritesOK
  <2> QED BY <1>0, <2>1 DEF WritesOK, Underway
<1>4. ASSUME NEW j \in Image \ hasty', j # i PROVE VersionsOK(j)'
  BY <1>0, <1>1, <1>4, VersionsSame, ServedNumbers
<1>5. ASSUME i \notin hasty' PROVE VersionsOK(i)'
  <2>1. VersionsOK(i) /\ record[i].at \in Moment /\ moment \in Moment /\ record[i].at <= moment /\ source[i] \in Nat
    BY <1>0, <1>5, ServedNumbers DEF ServedInv, WritesOK, ServedTyped
  <2> DEFINE old == UrlVersion(i)
             new == VersionSeed(moment)
  <2>2. old \in Nat /\ new \in Nat /\ old <= new /\ UrlVersion(i)' = new /\ old = VersionSeed(record[i].at)
    BY <1>1, <2>1, ImageConstants DEF UrlVersion
  <2>3. record'[i].bytes = n
    BY <1>1
  <2> HIDE DEF old, new
  <2>4. CASE old = new
    <3>1. n = record[i].bytes
      BY <1>5, <2>2, <2>4 DEF new
    <3>2. \A v, d : Promised(i, v, d)' <=> Promised(i, v, d)
      BY <2>2, <2>3, <2>4, <3>1 DEF Promised, old
    <3> QED BY <2>1, <2>2, <2>4, <3>2 DEF VersionsOK, old
  <2>5. CASE old < new
    <3>1. \A v, d : Promised(i, v, d)' => (v = new /\ d = n) \/ Promised(i, v, d)
      BY <2>2, <2>3 DEF Promised
    <3>2. \A v, d : Promised(i, v, d) => v \in Nat /\ v <= old /\ v # new /\ d <= source[i]
      BY <2>1, <2>2, <2>5 DEF VersionsOK, old
    <3>3. \A c \in variant : c.image = i => c.version \in Int /\ c.version <= old /\ c.version # new
      BY <1>0, <2>1, <2>2, <2>5, ServedNumbers DEF VersionsOK, old
    <3>4. \A v, d, e : Promised(i, v, d)' /\ Promised(i, v, e)' => d = e
      BY <2>1, <3>1, <3>2 DEF VersionsOK
    <3>5. \A v, d : Promised(i, v, d)' => d <= source[i] /\ v <= new /\ v \in Nat
      BY <2>2, <2>5, <3>1, <3>2
    <3>6. \A c \in variant : c.image = i => c.version <= new
      BY <2>2, <2>5, <3>3
    <3>7. \A c \in variant : \A d : c.image = i /\ Promised(i, c.version, d)' => d <= c.bytes
      BY <2>1, <3>1, <3>3 DEF VersionsOK
    <3> QED BY <2>1, <2>2, <3>4, <3>5, <3>6, <3>7 DEF VersionsOK
  <2> QED BY <2>2, <2>4, <2>5
<1> QED BY <1>2, <1>3, <1>4, <1>5 DEF ServedInv

LEMMA RowKeeps ==
    ASSUME ServedInv,
           \/ \E e \in Rewrite : StampRow(e) \/ RewriteDies(e)
           \/ \E i \in Image : TouchRow(i)
    PROVE  ServedInv'
<1>0. ServedTyped /\ WritesOK
  BY DEF ServedInv
<1>1. ASSUME NEW e \in Rewrite, rewrite' = [rewrite EXCEPT ![e].pc = "done"], rewrite[e].pc = "put"
      PROVE  /\ rewrite' \in [Rewrite -> Rewrites] /\ Underway' = Underway /\ e \in Underway
             /\ \A f \in Rewrite : rewrite'[f].bytes = rewrite[f].bytes
  <2>1. rewrite[e] \in Rewrites /\ rewrite \in [Rewrite -> Rewrites]
    BY <1>0 DEF ServedTyped
  <2>2. [rewrite[e] EXCEPT !.pc = "done"] \in Rewrites /\ [rewrite[e] EXCEPT !.pc = "done"].bytes = rewrite[e].bytes
        /\ [rewrite[e] EXCEPT !.pc = "done"].pc = "done"
    BY <2>1 DEF Rewrites
  <2>3. \A f \in Rewrite : rewrite'[f] = IF f = e THEN [rewrite[e] EXCEPT !.pc = "done"] ELSE rewrite[f]
    BY <1>1, <2>1
  <2> QED BY <1>1, <2>1, <2>2, <2>3 DEF Underway
<1>2. ASSUME NEW e \in Rewrite, StampRow(e) PROVE ServedInv'
  <2> DEFINE i == ImageOf[e]
  <2>1. /\ rewrite[e].pc = "put" /\ record' = [record EXCEPT ![i] = [at |-> moment, bytes |-> rewrite[e].bytes]]
        /\ hasty' = IF VersionSeed(record[i].at) = VersionSeed(moment) THEN hasty \cup {i} ELSE hasty
        /\ rewrite' = [rewrite EXCEPT ![e].pc = "done"] /\ UNCHANGED <<moment, source, variant, tile, touches>>
    BY <1>2 DEF StampRow, Stamp, RewriteSame
  <2>2. /\ i \in Image /\ rewrite[e].bytes \in Bytes /\ rewrite[e].bytes <= source[i]
    BY <1>0, <1>1, <2>1, ImageConstants DEF ServedTyped, Rewrites, WritesOK
  <2> HIDE DEF i
  <2> QED BY <1>0, <1>1, <2>1, <2>2, StampKeeps DEF ServedTyped
<1>3. ASSUME NEW e \in Rewrite, RewriteDies(e) PROVE ServedInv'
  <2>1. /\ rewrite[e].pc = "put" /\ rewrite' = [rewrite EXCEPT ![e].pc = "done"]
        /\ UNCHANGED <<moment, source, variant, tile, touches, record, hasty>>
    BY <1>3 DEF RewriteDies, RewriteSame
  <2>2. ServedTyped' /\ WritesOK'
    BY <1>0, <1>1, <2>1 DEF ServedTyped, WritesOK, Underway
  <2>3. ASSUME NEW i \in Image \ hasty' PROVE VersionsOK(i)'
    BY <1>0, <2>1, VersionsSame, ServedNumbers
  <2> QED BY <2>2, <2>3 DEF ServedInv
<1>4. ASSUME NEW i \in Image, TouchRow(i) PROVE ServedInv'
  <2>1. /\ record' = [record EXCEPT ![i].at = moment] /\ touches < MaxTouches /\ touches' = touches + 1
        /\ UNCHANGED <<moment, source, rewrite, variant, tile, hasty>>
    BY <1>4 DEF TouchRow
  <2>2. record[i] \in Records /\ record \in [Image -> Records] /\ touches \in 0..MaxTouches
    BY <1>0 DEF ServedTyped
  <2>3. [record[i] EXCEPT !.at = moment] = [at |-> moment, bytes |-> record[i].bytes]
    BY <2>2 DEF Records
  <2>4. record' = [record EXCEPT ![i] = [at |-> moment, bytes |-> record[i].bytes]]
    BY <2>1, <2>2, <2>3
  <2>5. touches' \in 0..MaxTouches /\ record[i].bytes \in Bytes
    BY <2>1, <2>2, ImageConstants DEF Records
  <2> QED BY <1>0, <2>1, <2>4, <2>5, StampKeeps DEF ServedTyped, WritesOK, Underway
<1> QED BY <1>2, <1>3, <1>4

(* A tile that got its bytes.                                               *)
LEMMA TileFetched ==
    ASSUME NEW t \in Tiles, NEW pc, NEW n
    PROVE  [t EXCEPT !.pc = pc, !.bytes = n] =
             [pc |-> pc, image |-> t.image, version |-> t.version, bytes |-> n, due |-> t.due]
<1> DEFINE b == [t EXCEPT !.pc = pc, !.bytes = n]
           F == {"pc", "image", "version", "bytes", "due"}
           r == [pc |-> pc, image |-> t.image, version |-> t.version, bytes |-> n, due |-> t.due]
<1>1. DOMAIN t = F
  BY DEF Tiles
<1>2. b = [f \in F |-> IF f = "bytes" THEN n ELSE IF f = "pc" THEN pc ELSE t[f]]
  BY <1>1
<1>3. r = [f \in F |-> IF f = "bytes" THEN n ELSE IF f = "pc" THEN pc ELSE t[f]]
  OBVIOUS
<1> QED BY <1>2, <1>3

(* The pages: a page rendered now promises what its row does; what it gets  *)
(* was kept or fetched under that promise.                                  *)
LEMMA PageKeeps ==
    ASSUME ServedInv, NEW p \in Page, Render(p) \/ FetchTile(p) \/ Rendered(p)
    PROVE  ServedInv'
<1>0. ServedTyped /\ WritesOK /\ tile[p] \in Tiles /\ tile \in [Page -> Tiles] /\ TileSame
  BY DEF ServedInv, ServedTyped, Render, FetchTile, Rendered
<1>1. UNCHANGED <<moment, source, record, rewrite, touches, hasty>>
  BY <1>0 DEF TileSame
<1>2. WritesOK' /\ \A i : UrlVersion(i)' = UrlVersion(i)
  BY <1>0, <1>1 DEF WritesOK, Underway, UrlVersion
<1>3. \A q \in Page \ {p} : tile'[q] = tile[q]
  BY <1>0 DEF Render, FetchTile, Rendered
<1>4. CASE Render(p)
  <2>1. PICK i \in Image :
          tile' = [tile EXCEPT ![p] = [pc |-> "html", image |-> i, version |-> UrlVersion(i),
                                       bytes |-> 0, due |-> record[i].bytes]]
    BY <1>4 DEF Render
  <2>2. tile'[p] = [pc |-> "html", image |-> i, version |-> UrlVersion(i), bytes |-> 0, due |-> record[i].bytes]
        /\ variant' = variant
    BY <1>0, <1>4, <2>1 DEF Render
  <2>3. record[i].bytes \in Bytes /\ UrlVersion(i) \in Int
    BY <1>0, ServedNumbers DEF ServedTyped, Records
  <2>4. tile'[p] \in Tiles
    BY <2>2, <2>3, ImageConstants DEF Tiles
  <2>5. ServedTyped'
    BY <1>0, <1>1, <2>1, <2>2, <2>4 DEF ServedTyped
  <2>6. \A j, v, d : Promised(j, v, d)' => Promised(j, v, d)
    BY <1>1, <1>2, <1>3, <2>2 DEF Promised
  <2>7. ASSUME NEW j \in Image \ hasty' PROVE VersionsOK(j)'
    <3>1. VersionsOK(j)
      BY <1>1 DEF ServedInv
    <3>2. \A q \in Page : (tile'[q].image = j /\ tile'[q].pc \in {"reading", "shown"}) => tile'[q].due <= tile'[q].bytes
      BY <1>3, <2>2, <3>1 DEF VersionsOK
    <3> QED BY <1>1, <1>2, <2>2, <2>6, <3>1, <3>2 DEF VersionsOK
  <2> QED BY <1>2, <2>5, <2>7 DEF ServedInv
<1> DEFINE i == tile[p].image
           v0 == tile[p].version
           d0 == tile[p].due
<1>5. ASSUME tile[p].pc # "blank" PROVE Promised(i, v0, d0)
  BY <1>5 DEF Promised
<1>6. ASSUME NEW pc \in {"reading", "shown"}, NEW n \in Bytes, tile[p].pc # "blank",
             tile' = [tile EXCEPT ![p] = [pc |-> pc, image |-> i, version |-> v0, bytes |-> n, due |-> d0]],
             i \notin hasty => d0 <= n, variant' \subseteq Variants,
             \A c \in variant' : c \in variant \/ (c.image = i /\ c.version = v0 /\ (i \notin hasty => d0 <= c.bytes))
      PROVE  ServedInv'
  <2>1. tile'[p] = [pc |-> pc, image |-> i, version |-> v0, bytes |-> n, due |-> d0] /\ tile'[p] \in Tiles
    BY <1>0, <1>6 DEF Tiles
  <2>2. ServedTyped'
    BY <1>0, <1>1, <1>6, <2>1 DEF ServedTyped
  <2>3. \A j, v, d : Promised(j, v, d)' <=> Promised(j, v, d)
    BY <1>1, <1>2, <1>3, <1>6, <2>1 DEF Promised
  <2>4. ASSUME NEW j \in Image \ hasty' PROVE VersionsOK(j)'
    <3>1. VersionsOK(j) /\ j \notin hasty
      BY <1>1 DEF ServedInv
    <3>2. \A q \in Page : (tile'[q].image = j /\ tile'[q].pc \in {"reading", "shown"}) => tile'[q].due <= tile'[q].bytes
      BY <1>3, <1>6, <2>1, <3>1 DEF VersionsOK
    <3>3. ASSUME NEW c \in variant', c.image = j PROVE c.version <= UrlVersion(j) /\ \A d : Promised(j, c.version, d) => d <= c.bytes
      <4>1. CASE c \in variant
        BY <3>1, <3>3, <4>1 DEF VersionsOK
      <4>2. CASE c \notin variant
        <5>1. c.image = i /\ c.version = v0 /\ d0 <= c.bytes /\ i = j
          BY <1>6, <3>1, <3>3, <4>2
        <5>2. Promised(j, v0, d0)
          BY <1>5, <1>6, <5>1
        <5> QED BY <3>1, <5>1, <5>2 DEF VersionsOK
      <4> QED BY <4>1, <4>2
    <3>4. \A c \in variant' : \A d : c.image = j /\ Promised(j, c.version, d)' => d <= c.bytes
      BY <2>3, <3>3
    <3>5. /\ \A v, d, e : Promised(j, v, d)' /\ Promised(j, v, e)' => d = e
          /\ \A v, d : Promised(j, v, d)' => d <= source'[j] /\ v <= UrlVersion(j)' /\ v \in Nat
      BY <1>1, <1>2, <2>3, <3>1 DEF VersionsOK
    <3> QED BY <1>2, <3>2, <3>3, <3>4, <3>5 DEF VersionsOK
  <2> QED BY <1>2, <2>2, <2>4 DEF ServedInv
<1>7. i \in Image /\ d0 \in Bytes
  BY <1>0 DEF Tiles
<1>8. CASE FetchTile(p)
  <2> DEFINE hit == Stored(i, v0)
  <2>1. tile[p].pc = "html" /\ variant' = variant
    BY <1>8 DEF FetchTile
  <2>2. CASE hit # {}
    <3> DEFINE c == CHOOSE c \in hit : TRUE
    <3>1. c \in hit
      BY <2>2
    <3> HIDE DEF c
    <3>2. c \in variant /\ c.image = i /\ c.version = v0
      BY <3>1 DEF Stored
    <3>3. tile' = [tile EXCEPT ![p] = [tile[p] EXCEPT !.pc = "shown", !.bytes = c.bytes]]
      BY <1>0, <1>8, <2>2 DEF FetchTile, c
    <3>4. [tile[p] EXCEPT !.pc = "shown", !.bytes = c.bytes] = [pc |-> "shown", image |-> i, version |-> v0, bytes |-> c.bytes, due |-> d0]
      BY <1>0, TileFetched
    <3>5. i \notin hasty => d0 <= c.bytes
      BY <1>5, <1>7, <2>1, <3>2 DEF ServedInv, VersionsOK
    <3>6. c.bytes \in Bytes
      BY <1>0, <3>2 DEF ServedTyped, Variants
    <3>7. tile' = [tile EXCEPT ![p] = [pc |-> "shown", image |-> i, version |-> v0, bytes |-> c.bytes, due |-> d0]]
      BY <3>3, <3>4
    <3>8. variant' \subseteq Variants
      BY <1>0, <2>1 DEF ServedTyped
    <3>9. "shown" \in {"reading", "shown"} /\ tile[p].pc # "blank"
      BY <2>1
    <3> HIDE DEF i, v0, d0
    <3> QED BY <1>6, <2>1, <3>5, <3>6, <3>7, <3>8, <3>9
  <2>3. CASE hit = {}
    <3>3. tile' = [tile EXCEPT ![p] = [tile[p] EXCEPT !.pc = "reading", !.bytes = source[i]]]
      BY <1>0, <1>8, <2>3 DEF FetchTile
    <3>4. [tile[p] EXCEPT !.pc = "reading", !.bytes = source[i]] = [pc |-> "reading", image |-> i, version |-> v0, bytes |-> source[i], due |-> d0]
      BY <1>0, TileFetched
    <3>5. i \notin hasty => d0 <= source[i]
      BY <1>5, <1>7, <2>1 DEF ServedInv, VersionsOK
    <3>6. source[i] \in Bytes
      BY <1>0, <1>7 DEF ServedTyped
    <3>7. tile' = [tile EXCEPT ![p] = [pc |-> "reading", image |-> i, version |-> v0, bytes |-> source[i], due |-> d0]]
      BY <3>3, <3>4
    <3>8. variant' \subseteq Variants
      BY <1>0, <2>1 DEF ServedTyped
    <3>9. "reading" \in {"reading", "shown"} /\ tile[p].pc # "blank"
      BY <2>1
    <3> HIDE DEF i, v0, d0
    <3> QED BY <1>6, <2>1, <3>5, <3>6, <3>7, <3>8, <3>9
  <2> QED BY <2>2, <2>3
<1>9. CASE Rendered(p)
  <2> DEFINE n == tile[p].bytes
             new == [image |-> i, version |-> v0, bytes |-> n]
  <2>1. /\ tile[p].pc = "reading" /\ tile' = [tile EXCEPT ![p].pc = "shown"]
        /\ variant' = (variant \ Stored(i, v0)) \cup {new}
    BY <1>9 DEF Rendered
  <2>2. tile' = [tile EXCEPT ![p] = [tile[p] EXCEPT !.pc = "shown"]]
    BY <1>0, <2>1
  <2>3. [tile[p] EXCEPT !.pc = "shown"] = [pc |-> "shown", image |-> i, version |-> v0, bytes |-> n, due |-> d0]
    BY <1>0 DEF Tiles
  <2>4. n \in Bytes /\ new \in Variants
    BY <1>0 DEF Tiles, Variants
  <2>5. i \notin hasty => d0 <= n
    BY <1>7, <2>1 DEF ServedInv, VersionsOK
  <2>6. variant' \subseteq Variants
    BY <1>0, <2>1, <2>4 DEF ServedTyped
  <2>7. \A c \in variant' : c \in variant \/ (c.image = i /\ c.version = v0 /\ (i \notin hasty => d0 <= c.bytes))
    BY <2>1, <2>5
  <2>8. "shown" \in {"reading", "shown"} /\ tile[p].pc # "blank"
    BY <2>1
  <2>9. tile' = [tile EXCEPT ![p] = [pc |-> "shown", image |-> i, version |-> v0, bytes |-> n, due |-> d0]]
    BY <2>2, <2>3
  <2> HIDE DEF i, v0, d0, n, new
  <2> QED BY <1>6, <2>4, <2>5, <2>6, <2>7, <2>8, <2>9
<1> QED BY <1>4, <1>8, <1>9

(* What is warmed has no version, and no page asks for that.                *)
LEMMA WarmKeeps == ASSUME ServedInv, NEW i \in Image, Warm(i) PROVE ServedInv'
<1> DEFINE new == [image |-> i, version |-> NoVersion, bytes |-> source[i]]
<1>0. ServedTyped /\ WritesOK
  BY DEF ServedInv
<1>1. /\ variant' = variant \cup {new}
      /\ UNCHANGED <<moment, source, record, rewrite, touches, hasty, tile>>
  BY DEF Warm, TileSame
<1>2. new \in Variants /\ new.image = i /\ new.version = -1
  BY <1>0, ImageConstants DEF ServedTyped, Variants
<1> HIDE DEF new
<1>3. ServedTyped' /\ WritesOK'
  BY <1>0, <1>1, <1>2 DEF ServedTyped, WritesOK, Underway
<1>4. (\A j : UrlVersion(j)' = UrlVersion(j)) /\ \A j, v, d : Promised(j, v, d)' <=> Promised(j, v, d)
  BY <1>1 DEF Promised, UrlVersion
<1>5. ASSUME NEW j \in Image \ hasty' PROVE VersionsOK(j)'
  <2>1. VersionsOK(j) /\ UrlVersion(j) \in Nat
    BY <1>0, <1>1, ServedNumbers DEF ServedInv
  <2>2. \A d : ~Promised(j, -1, d)
    BY <2>1 DEF VersionsOK
  <2>3. \A c \in variant' : c.image = j => c.version <= UrlVersion(j) /\ \A d : Promised(j, c.version, d) => d <= c.bytes
    BY <1>1, <1>2, <2>1, <2>2 DEF VersionsOK
  <2> QED BY <1>1, <1>4, <2>1, <2>3 DEF VersionsOK
<1> QED BY <1>3, <1>5 DEF ServedInv

(* Every step keeps the promises of the pages.                              *)
LEMMA ServedStep == ServedInv /\ [ImageNext]_imageVars => ServedInv'
<1> SUFFICES ASSUME ServedInv, [ImageNext]_imageVars PROVE ServedInv'
  OBVIOUS
<1>0. ServedTyped /\ WritesOK
  BY DEF ServedInv
<1>1. ASSUME UNCHANGED <<source, record, rewrite, variant, tile, touches, hasty>>, moment' \in Moment, moment <= moment'
      PROVE  ServedInv'
  <2>1. ServedTyped'
    BY <1>0, <1>1 DEF ServedTyped
  <2>2. WritesOK'
    <3>1. \A i \in Image : record[i].at <= moment'
      <4>1. moment' \in Nat
        BY <1>1, ImageConstants
      <4> QED BY <1>0, <1>1, <4>1, ServedNumbers DEF WritesOK
    <3> QED BY <1>0, <1>1, <3>1 DEF WritesOK, Underway
  <2>3. ASSUME NEW i \in Image \ hasty' PROVE VersionsOK(i)'
    BY <1>0, <1>1, VersionsSame, ServedNumbers
  <2> QED BY <2>1, <2>2, <2>3 DEF ServedInv
<1>2. ASSUME NEW d \in Download, PresignGet(d) \/ Sign(d) PROVE ServedInv'
  BY <1>0, <1>1, <1>2, ServedNumbers DEF PresignGet, Sign, SignSame, ServedTyped
<1>3. CASE MomentPasses
  <2>1. moment < LastMoment /\ moment' = moment + 1 /\ UNCHANGED <<source, record, rewrite, variant, tile, touches, hasty>>
    BY <1>3 DEF MomentPasses
  <2>2. moment \in Nat
    BY <1>0, ServedNumbers
  <2>3. moment' \in Moment
    BY <2>1, <2>2, ImageConstants DEF Moment
  <2> QED BY <1>1, <2>1, <2>2, <2>3
<1>4. CASE UNCHANGED imageVars
  BY <1>0, <1>1, <1>4, ServedNumbers DEF imageVars, ServedTyped
<1> QED BY <1>2, <1>3, <1>4, RewriteKeeps, RowKeeps, PageKeeps, WarmKeeps DEF ImageNext

LEMMA ServedBegins == ImageInit => ServedInv
<1> SUFFICES ASSUME ImageInit PROVE ServedInv
  OBVIOUS
<1>1. BlankTile \in Tiles /\ BlankTile.pc = "blank"
  BY ImageConstants DEF BlankTile, Tiles
<1>2. \A i \in Image : record[i].at = 0 /\ record[i].bytes = 0 /\ source[i] = 0
  BY DEF ImageInit
<1>3. ServedTyped
  BY <1>1, ImageConstants DEF ImageInit, ServedTyped, Records, Rewrites
<1>4. Underway = {} /\ Cardinality(Underway) = 0
  BY FS_EmptySet DEF ImageInit, Underway
<1>5. WritesOK
  BY <1>2, <1>4 DEF WritesOK, ImageInit
<1>6. ASSUME NEW i \in Image PROVE VersionsOK(i)
  <2>1. \A p \in Page : tile[p].pc = "blank"
    BY <1>1 DEF ImageInit
  <2>2. UrlVersion(i) \in Nat
    BY <1>3, ServedNumbers
  <2>3. \A v, d : Promised(i, v, d) => v = UrlVersion(i) /\ d = 0
    BY <1>2, <2>1 DEF Promised
  <2> QED BY <1>2, <2>1, <2>2, <2>3 DEF VersionsOK, ImageInit
<1> QED BY <1>3, <1>5, <1>6 DEF ServedInv

-----------------------------------------------------------------------------
(* Presigned downloads.                                                     *)

Width == Stride * Second

\* A signature of a bucket lasts a lifetime from some moment of the bucket on.
Signatures == {e \in [image : Image, bucket : Nat, expires : Nat] : Width * e.bucket + Lifetime <= e.expires}
Downloads == [pc : {"none", "sign", "given"}, image : Image, bucket : Nat, expires : Nat]

DownloadOK(x) ==
    /\ x.pc = "sign" => Width * x.bucket <= moment
    /\ x.pc = "given" => Lifetime <= 5 * (x.expires - moment)

SignedInv ==
    /\ moment \in Moment
    /\ signed \in Seq(Signatures) /\ Len(signed) <= SignedMax
    /\ download \in [Download -> Downloads] /\ \A d \in Download : DownloadOK(download[d])

(* A bucket is no longer than four fifths of a lifetime.                    *)
LEMMA Lifetimes ==
    /\ Stride \in Nat /\ Width \in Nat /\ Width > 0 /\ Lifetime \in Nat /\ SignedMax \in Nat /\ SignedMax > 0
    /\ 5 * Width <= 4 * Lifetime
<1>1. UrlLife \in Nat /\ UrlLife >= 2 /\ Second \in Nat /\ Second > 0 /\ SignedMax \in Nat /\ SignedMax > 0
  BY ImageAssumption
<1>2. Stride = (UrlLife * 4) \div 5 /\ Stride \in Nat /\ Stride > 0 /\ 5 * Stride <= 4 * UrlLife
  BY <1>1 DEF Stride
<1> HIDE DEF Stride
<1>3. PICK k \in Nat : 4 * UrlLife = 5 * Stride + k
  <2>1. 4 * UrlLife - 5 * Stride \in Nat /\ 4 * UrlLife = 5 * Stride + (4 * UrlLife - 5 * Stride)
    BY <1>1, <1>2
  <2> QED BY <2>1
<1>4. (4 * UrlLife) * Second = 5 * (Stride * Second) + k * Second /\ k * Second \in Nat /\ Stride * Second \in Nat
  BY <1>1, <1>2, <1>3
<1>5. (4 * UrlLife) * Second = 4 * (UrlLife * Second) /\ UrlLife * Second \in Nat
  BY <1>1
<1>6. Stride * Second > 0
  BY <1>1, <1>2
<1> QED BY <1>1, <1>2, <1>4, <1>5, <1>6 DEF Width, Lifetime

(* The bucket of a moment began before it and has not ended.                *)
LEMMA BucketOf ==
    ASSUME NEW t \in Moment
    PROVE  TtlBucket(t) \in Nat /\ Width * TtlBucket(t) <= t /\ t < Width * TtlBucket(t) + Width
BY Lifetimes, ImageConstants, DivBounds DEF TtlBucket, Width

(* A hit is handed out; a miss is signed later.                             *)
LEMMA PresignKeeps == ASSUME SignedInv, NEW d \in Download, PresignGet(d) PROVE SignedInv'
<1> DEFINE b == TtlBucket(moment)
<1>1. PICK i \in Image :
         LET hit == Entries(i, b)
         IN IF hit = {}
            THEN /\ download' = [download EXCEPT ![d] = [pc |-> "sign", image |-> i, bucket |-> b, expires |-> 0]]
                 /\ UNCHANGED signed
            ELSE LET n == CHOOSE m \in hit : TRUE IN
                 /\ signed' = Append(RemoveAt(signed, n), signed[n])
                 /\ download' = [download EXCEPT ![d] = [pc |-> "given", image |-> i, bucket |-> b,
                                                         expires |-> signed[n].expires]]
  BY DEF PresignGet
<1>2. /\ b \in Nat /\ Width * b <= moment /\ moment < Width * b + Width /\ moment \in Nat /\ moment' = moment
      /\ download \in [Download -> Downloads]
  BY BucketOf, ImageConstants DEF SignedInv, PresignGet, SignSame
<1> HIDE DEF b
<1>3. ASSUME NEW x \in Downloads, DownloadOK(x), download' = [download EXCEPT ![d] = x],
             signed' \in Seq(Signatures), Len(signed') <= SignedMax
      PROVE  SignedInv'
  <2>1. \A e \in Download : download'[e] = IF e = d THEN x ELSE download[e]
    BY <1>2, <1>3
  <2> QED BY <1>2, <1>3, <2>1 DEF SignedInv, DownloadOK
<1>4. CASE Entries(i, b) = {}
  <2> DEFINE x == [pc |-> "sign", image |-> i, bucket |-> b, expires |-> 0]
  <2>1. x \in Downloads /\ DownloadOK(x)
    BY <1>2 DEF Downloads, DownloadOK
  <2>2. download' = [download EXCEPT ![d] = x] /\ signed' = signed
    BY <1>1, <1>4
  <2> HIDE DEF x
  <2> QED BY <1>3, <2>1, <2>2 DEF SignedInv
<1>5. CASE Entries(i, b) # {}
  <2> DEFINE n == CHOOSE m \in Entries(i, b) : TRUE
  <2>1. n \in Entries(i, b)
    BY <1>5
  <2>2. /\ signed' = Append(RemoveAt(signed, n), signed[n])
        /\ download' = [download EXCEPT ![d] = [pc |-> "given", image |-> i, bucket |-> b, expires |-> signed[n].expires]]
    BY <1>1, <1>5
  <2> HIDE DEF n
  <2>3. signed \in Seq(Signatures) /\ n \in 1..Len(signed) /\ Len(signed) \in Nat /\ signed[n].bucket = b
        /\ n \in Nat
    BY <2>1 DEF Entries, SignedInv
  <2>4. signed[n] \in Signatures
    BY <2>3, ElementOfSeq
  <2>5. signed' \in Seq(Signatures) /\ Len(signed') = Len(signed)
    <3>1. SubSeq(signed, 1, n - 1) \in Seq(Signatures) /\ Len(SubSeq(signed, 1, n - 1)) = n - 1
      BY <2>3, SubSeqProperties
    <3>2. SubSeq(signed, n + 1, Len(signed)) \in Seq(Signatures) /\ Len(SubSeq(signed, n + 1, Len(signed))) = Len(signed) - n
      BY <2>3, SubSeqProperties
    <3>3. RemoveAt(signed, n) \in Seq(Signatures) /\ Len(RemoveAt(signed, n)) = Len(signed) - 1
      <4> DEFINE older == SubSeq(signed, 1, n - 1)
                 younger == SubSeq(signed, n + 1, Len(signed))
      <4>1. RemoveAt(signed, n) = older \o younger
        BY DEF RemoveAt
      <4>2. older \in Seq(Signatures) /\ younger \in Seq(Signatures)
            /\ Len(older) = n - 1 /\ Len(younger) = Len(signed) - n
        BY <3>1, <3>2
      <4> HIDE DEF older, younger
      <4>3. older \o younger \in Seq(Signatures) /\ Len(older \o younger) = Len(older) + Len(younger)
        BY <4>2, ConcatProperties
      <4> QED BY <2>3, <4>1, <4>2, <4>3
    <3> QED BY <2>2, <2>3, <2>4, <3>3, AppendProperties
  <2> DEFINE x == [pc |-> "given", image |-> i, bucket |-> b, expires |-> signed[n].expires]
  <2>6. signed[n].expires \in Nat /\ Width * b + Lifetime <= signed[n].expires
    BY <2>3, <2>4 DEF Signatures
  <2>7. Lifetime <= 5 * (signed[n].expires - moment)
    <3>1. Width * b \in Nat
      BY <1>2, Lifetimes
    <3> QED BY <1>2, <2>6, <3>1, Lifetimes
  <2>8. x \in Downloads /\ DownloadOK(x)
    BY <1>2, <2>6, <2>7 DEF Downloads, DownloadOK
  <2> HIDE DEF x
  <2>9. download' = [download EXCEPT ![d] = x]
    BY <2>2 DEF x
  <2> QED BY <1>3, <2>5, <2>8, <2>9 DEF SignedInv
<1> QED BY <1>4, <1>5

(* A signature comes back, however late.                                    *)
LEMMA SignKeeps == ASSUME SignedInv, NEW d \in Download, Sign(d) PROVE SignedInv'
<1> DEFINE x == download[d]
           e == [image |-> x.image, bucket |-> x.bucket, expires |-> moment + Lifetime]
           old == Entries(x.image, x.bucket)
           grown == IF old = {} THEN Append(signed, e) ELSE [signed EXCEPT ![CHOOSE n \in old : TRUE] = e]
<1>1. /\ x.pc = "sign" /\ signed' = Evict(grown) /\ moment' = moment
      /\ download' = [download EXCEPT ![d].pc = "given", ![d].expires = moment + Lifetime]
  BY DEF Sign, SignSame
<1>2. /\ moment \in Nat /\ x \in Downloads /\ download \in [Download -> Downloads] /\ signed \in Seq(Signatures)
      /\ Len(signed) \in Nat /\ Len(signed) <= SignedMax /\ Width * x.bucket <= moment
  BY <1>1, ImageConstants DEF SignedInv, DownloadOK
<1>3. e \in Signatures
  <2>1. x.bucket \in Nat /\ x.image \in Image /\ Width * x.bucket \in Nat
    BY <1>2, Lifetimes DEF Downloads
  <2> QED BY <1>2, <2>1, Lifetimes DEF Signatures
<1>4. grown \in Seq(Signatures) /\ Len(grown) <= SignedMax + 1 /\ Len(grown) \in Nat
  <2>1. CASE old = {}
    BY <1>2, <1>3, <2>1, AppendProperties, Lifetimes
  <2>2. CASE old # {}
    <3> DEFINE n == CHOOSE n \in old : TRUE
    <3>1. n \in old
      BY <2>2
    <3> HIDE DEF n
    <3>2. n \in 1..Len(signed)
      BY <1>2, <3>1 DEF Entries
    <3>3. [signed EXCEPT ![n] = e] \in Seq(Signatures) /\ Len([signed EXCEPT ![n] = e]) = Len(signed)
      BY <1>2, <1>3, <3>2, ExceptSeq
    <3> QED BY <1>2, <2>2, <3>3, Lifetimes DEF n
  <2> QED BY <2>1, <2>2
<1> HIDE DEF grown
<1>5. signed' \in Seq(Signatures) /\ Len(signed') <= SignedMax
  <2>1. CASE Len(grown) > SignedMax
    <3>1. grown # <<>>
      BY <1>4, <2>1, Lifetimes
    <3> QED BY <1>1, <1>4, <2>1, <3>1, HeadTailProperties, Lifetimes DEF Evict
  <2>2. CASE ~(Len(grown) > SignedMax)
    BY <1>1, <1>4, <2>2, Lifetimes DEF Evict
  <2> QED BY <2>1, <2>2
<1>6. download'[d].pc = "given" /\ download'[d].expires = moment + Lifetime /\ download'[d] \in Downloads
      /\ \A f \in Download \ {d} : download'[f] = download[f]
  <2>1. download'[d] = [x EXCEPT !.pc = "given", !.expires = moment + Lifetime]
        /\ \A f \in Download \ {d} : download'[f] = download[f]
    BY <1>1, <1>2
  <2>2. moment + Lifetime \in Nat
    BY <1>2, Lifetimes
  <2> QED BY <1>2, <2>1, <2>2 DEF Downloads
<1>7. DownloadOK(download'[d])
  BY <1>2, <1>6, Lifetimes DEF DownloadOK
<1>8. download' \in [Download -> Downloads]
  BY <1>1, <1>2, <1>6
<1> QED BY <1>1, <1>5, <1>6, <1>7, <1>8 DEF SignedInv, DownloadOK

LEMMA SignedStep == SignedInv /\ [ImageNext]_imageVars => SignedInv'
<1> SUFFICES ASSUME SignedInv, [ImageNext]_imageVars PROVE SignedInv'
  OBVIOUS
<1>1. CASE UNCHANGED <<moment, signed, download>>
  BY <1>1 DEF SignedInv, DownloadOK
<1>2. CASE MomentPasses
  <2>1. /\ moment < LastMoment /\ moment' = moment + 1 /\ UNCHANGED signed
        /\ download' = [d \in Download |-> IF download[d].pc = "given" THEN NoDownload ELSE download[d]]
    BY <1>2 DEF MomentPasses
  <2>2. moment \in Nat /\ moment' \in Moment
    BY <2>1, ImageConstants DEF SignedInv, Moment
  <2>3. NoDownload \in Downloads /\ NoDownload.pc = "none"
    BY ImageConstants DEF NoDownload, Downloads
  <2>4. ASSUME NEW d \in Download PROVE DownloadOK(download[d])'
    <3>1. CASE download[d].pc = "given"
      BY <2>1, <2>3, <3>1 DEF DownloadOK
    <3>2. CASE download[d].pc # "given"
      <4>1. download'[d] = download[d] /\ DownloadOK(download[d]) /\ download[d].bucket \in Nat
        BY <2>1, <3>2 DEF SignedInv, Downloads
      <4>2. Width * download[d].bucket \in Nat
        BY <4>1, Lifetimes
      <4> QED BY <2>1, <2>2, <3>2, <4>1, <4>2 DEF DownloadOK
    <3> QED BY <3>1, <3>2
  <2> QED BY <2>1, <2>2, <2>3, <2>4 DEF SignedInv
<1> QED BY <1>1, <1>2, PresignKeeps, SignKeeps DEF ImageNext, imageVars, PutOriginal, StampRow, RewriteDies, TouchRow, Warm,
       Render, FetchTile, Rendered, RewriteSame, TileSame

(* A page shows no bytes older than the last edit it was rendered after,    *)
(* and a download is handed out while a fifth of its life is left.          *)
THEOREM ServedImagesAlwaysHold == ImageSpec => [](ImageTypeOK /\ ServedImagesHold)
<1>1. ServedInv /\ SignedInv => ImageTypeOK /\ ServedImagesHold
  <2> SUFFICES ASSUME ServedInv, SignedInv PROVE ImageTypeOK /\ ServedImagesHold
    OBVIOUS
  <2>1. Signatures \subseteq [image : Image, bucket : Nat, expires : Nat]
    BY DEF Signatures
  <2>2. signed \in Seq([image : Image, bucket : Nat, expires : Nat])
    BY <2>1, SeqMonotonic DEF SignedInv
  <2>3. ImageTypeOK
    BY <2>2 DEF ServedInv, ServedTyped, SignedInv, ImageTypeOK, Records, Rewrites, Variants, Tiles, Downloads
  <2>4. TilesShowTheEdit
    <3> SUFFICES ASSUME NEW p \in Page, tile[p].pc = "shown", tile[p].image \notin hasty
                 PROVE  tile[p].bytes >= tile[p].due
      BY DEF TilesShowTheEdit
    <3>1. ServedTyped
      BY DEF ServedInv
    <3>2. tile[p].image \in Image /\ tile[p].bytes \in Nat /\ tile[p].due \in Nat
      BY <3>1, ServedNumbers
    <3> QED BY <3>2 DEF ServedInv, VersionsOK
  <2>5. UrlsOutliveTheirUse
    <3>1. \A d \in Download : download[d].expires \in Nat /\ moment \in Nat
      BY ImageConstants DEF SignedInv, Downloads
    <3> QED BY <3>1, Lifetimes DEF SignedInv, DownloadOK, UrlsOutliveTheirUse
  <2> QED BY <2>3, <2>4, <2>5 DEF ServedImagesHold
<1>2. ImageInit => SignedInv
  <2>1. NoDownload \in Downloads /\ NoDownload.pc = "none"
    BY ImageConstants DEF NoDownload, Downloads
  <2> QED BY <2>1, ImageConstants, Lifetimes, EmptySeq DEF ImageInit, SignedInv, DownloadOK
<1> QED BY <1>1, <1>2, ServedBegins, ServedStep, SignedStep, PTL DEF ImageSpec

-----------------------------------------------------------------------------
(* The album's order.                                                       *)

(* A list of photos, and when a function is one.                            *)
LEMMA ListFacts ==
    ASSUME NEW q \in Lists
    PROVE  /\ q \in Seq(Picture) /\ Len(q) \in 0..Cardinality(Picture)
           /\ DOMAIN q = 1..Len(q) /\ q \in [1..Len(q) -> Picture]
           /\ \A i, j \in DOMAIN q : q[i] = q[j] => i = j
           /\ ToSet(q) \subseteq Picture
<1>1. PICK n \in 0..Cardinality(Picture) : q \in [1..n -> Picture] /\ IsInjective(q)
  BY DEF Lists
<1>2. Cardinality(Picture) \in Nat
  BY OrderAssumption, FS_CardinalityType
<1>3. n \in Nat /\ n <= Cardinality(Picture)
  BY <1>2
<1>4. q \in Seq(Picture) /\ Len(q) = n
  BY <1>1, <1>3
<1>5. DOMAIN q = 1..Len(q)
  BY <1>1, <1>4
<1>6. ToSet(q) \subseteq Picture
  BY <1>1 DEF ToSet
<1>7. \A i, j \in DOMAIN q : q[i] = q[j] => i = j
  BY <1>1 DEF IsInjective
<1> QED BY <1>1, <1>2, <1>3, <1>4, <1>5, <1>6, <1>7

LEMMA ListMade ==
    ASSUME NEW n \in 0..Cardinality(Picture), NEW q \in [1..n -> Picture],
           \A i, j \in 1..n : q[i] = q[j] => i = j
    PROVE  q \in Lists /\ Len(q) = n /\ DOMAIN q = 1..n
<1>1. Cardinality(Picture) \in Nat
  BY OrderAssumption, FS_CardinalityType
<1>2. n \in Nat /\ DOMAIN q = 1..n
  BY <1>1
<1>3. IsInjective(q)
  BY <1>2 DEF IsInjective
<1>4. q \in Lists
  BY <1>3 DEF Lists
<1> QED BY <1>2, <1>4

LEMMA EmptyList == <<>> \in Lists /\ ToSet(<<>>) = {} /\ Len(<<>>) = 0
<1>1. Cardinality(Picture) \in Nat /\ 0 \in 0..Cardinality(Picture)
  BY OrderAssumption, FS_CardinalityType
<1>2. <<>> \in [1..0 -> Picture] /\ \A i, j \in 1..0 : <<>>[i] = <<>>[j] => i = j
  OBVIOUS
<1>3. <<>> \in Lists
  BY <1>1, <1>2, ListMade
<1>4. ToSet(<<>>) = {}
  BY DEF ToSet
<1> QED BY <1>3, <1>4

(* The place a list gives to a photo in it is the photo's index, from 0.    *)
LEMMA PlaceInList ==
    ASSUME NEW q \in Lists
    PROVE  /\ \A i \in DOMAIN q : PlaceOf(q)[q[i]] = i - 1
           /\ \A p \in ToSet(q) : /\ PlaceOf(q)[p] \in 0..Cardinality(Picture)
                                  /\ \E i \in DOMAIN q : q[i] = p /\ PlaceOf(q)[p] = i - 1
           /\ \A p \in Picture \ ToSet(q) : PlaceOf(q)[p] = Unborn
<1>1. /\ DOMAIN q = 1..Len(q) /\ Len(q) \in Nat /\ Len(q) <= Cardinality(Picture)
      /\ ToSet(q) \subseteq Picture /\ Cardinality(Picture) \in Nat
      /\ \A i, j \in DOMAIN q : q[i] = q[j] => i = j
  BY ListFacts, OrderAssumption, FS_CardinalityType
<1>2. ASSUME NEW i \in DOMAIN q PROVE PlaceOf(q)[q[i]] = i - 1
  <2>1. q[i] \in ToSet(q) /\ q[i] \in Picture
    BY <1>1 DEF ToSet
  <2>2. PlaceOf(q)[q[i]] = (CHOOSE k \in DOMAIN q : q[k] = q[i]) - 1
    BY <2>1 DEF PlaceOf
  <2>3. (CHOOSE k \in DOMAIN q : q[k] = q[i]) = i
    BY <1>1
  <2> QED BY <2>2, <2>3
<1>3. ASSUME NEW p \in ToSet(q)
      PROVE  /\ PlaceOf(q)[p] \in 0..Cardinality(Picture)
             /\ \E i \in DOMAIN q : q[i] = p /\ PlaceOf(q)[p] = i - 1
  <2>1. PICK i \in DOMAIN q : q[i] = p
    BY DEF ToSet
  <2>2. PlaceOf(q)[p] = i - 1
    BY <1>2, <2>1
  <2>3. i \in Int /\ 1 <= i /\ i <= Cardinality(Picture)
    BY <1>1
  <2>4. PlaceOf(q)[p] \in 0..Cardinality(Picture)
    BY <2>2, <2>3, <1>1
  <2> QED BY <2>1, <2>2, <2>4
<1>4. \A p \in Picture \ ToSet(q) : PlaceOf(q)[p] = Unborn
  BY DEF PlaceOf
<1> QED BY <1>2, <1>3, <1>4

(* A photo dragged to another place: the same photos, each once.            *)
LEMMA DragMoves ==
    ASSUME NEW q \in Lists, NEW i \in DOMAIN q, NEW j \in DOMAIN q
    PROVE  LET to == InsertAt(RemoveAt(q, i), j, q[i]) IN to \in Lists /\ ToSet(to) = ToSet(q)
<1> DEFINE n == Len(q)
           rest == RemoveAt(q, i)
           to == InsertAt(rest, j, q[i])
           From(k) == IF k < j THEN (IF k < i THEN k ELSE k + 1)
                      ELSE IF k = j THEN i ELSE (IF k - 1 < i THEN k - 1 ELSE k)
<1>1. /\ DOMAIN q = 1..n /\ n \in Nat /\ n <= Cardinality(Picture) /\ q \in Seq(Picture)
      /\ Cardinality(Picture) \in Nat /\ q \in [1..n -> Picture]
      /\ \A k, m \in DOMAIN q : q[k] = q[m] => k = m
  BY ListFacts, OrderAssumption, FS_CardinalityType
<1>2. i \in 1..n /\ j \in 1..n
  BY <1>1
<1>3. /\ rest \in Seq(Picture) /\ Len(rest) = n - 1
      /\ \A k \in 1..(n - 1) : rest[k] = IF k < i THEN q[k] ELSE q[k + 1]
  <2> DEFINE a == SubSeq(q, 1, i - 1)
             b == SubSeq(q, i + 1, n)
  <2>1. a \in Seq(Picture) /\ Len(a) = i - 1 /\ \A k \in 1..(i - 1) : a[k] = q[k]
    BY <1>1, <1>2
  <2>2. b \in Seq(Picture) /\ Len(b) = n - i /\ \A k \in 1..(n - i) : b[k] = q[k + i]
    BY <1>1, <1>2
  <2>3. rest = a \o b
    BY DEF RemoveAt
  <2> HIDE DEF a, b, rest
  <2>4. Len(a) \in Nat /\ Len(b) \in Nat /\ rest \in Seq(Picture) /\ Len(rest) = Len(a) + Len(b)
    BY <2>1, <2>2, <2>3
  <2>5. Len(rest) = n - 1
    BY <2>1, <2>2, <2>4, <1>2, <1>1
  <2>6. ASSUME NEW k \in 1..(n - 1) PROVE rest[k] = IF k < i THEN q[k] ELSE q[k + 1]
    <3>1. CASE k < i
      <4>1. k \in 1..Len(a) /\ k \in 1..(i - 1)
        BY <3>1, <2>1, <1>2
      <4>2. rest[k] = a[k]
        BY <4>1, <2>1, <2>2, <2>3
      <4> QED BY <3>1, <4>1, <4>2, <2>1
    <3>2. CASE ~(k < i)
      <4>1. k - (i - 1) \in 1..(n - i) /\ k \in Int /\ k > Len(a) /\ k <= Len(a) + Len(b)
        BY <3>2, <2>1, <2>2, <1>2, <1>1
      <4>2. rest[k] = b[k - Len(a)]
        <5>1. k \in 1..(Len(a) + Len(b)) /\ ~(k <= Len(a))
          BY <4>1, <2>1, <2>2, <1>2
        <5> QED BY <5>1, <2>1, <2>2, <2>3, ConcatProperties
      <4>3. b[k - (i - 1)] = q[(k - (i - 1)) + i]
        BY <4>1, <2>2
      <4>4. (k - (i - 1)) + i = k + 1
        BY <4>1, <1>2
      <4> QED BY <3>2, <4>2, <4>3, <4>4, <2>1
    <3> QED BY <3>1, <3>2
  <2> QED BY <2>4, <2>5, <2>6
<1> HIDE DEF rest
<1>4. /\ to \in Seq(Picture) /\ Len(to) = n
      /\ \A k \in 1..n : to[k] = IF k < j THEN rest[k] ELSE IF k = j THEN q[i] ELSE rest[k - 1]
  <2> DEFINE a == SubSeq(rest, 1, j - 1)
             b == SubSeq(rest, j, Len(rest))
  <2>1. a \in Seq(Picture) /\ Len(a) = j - 1 /\ \A k \in 1..(j - 1) : a[k] = rest[k]
    BY <1>2, <1>3, <1>1
  <2>2. b \in Seq(Picture) /\ Len(b) = n - j /\ \A k \in 1..(n - j) : b[k] = rest[k + j - 1]
    BY <1>2, <1>3, <1>1
  <2>3. to = (a \o <<q[i]>>) \o b
    BY DEF InsertAt
  <2> DEFINE c == a \o <<q[i]>>
  <2>4. q[i] \in Picture
    BY <1>1, <1>2
  <2> HIDE DEF a, b, to
  <2>5. c \in Seq(Picture) /\ Len(c) = j /\ c[j] = q[i] /\ \A k \in 1..(j - 1) : c[k] = a[k]
    BY <2>1, <2>4, <1>2, <1>1
  <2>6. to = c \o b
    BY <2>3
  <2> HIDE DEF c
  <2>7. to \in Seq(Picture) /\ Len(to) = n
    <3>1. to \in Seq(Picture) /\ Len(to) = Len(c) + Len(b)
      BY <2>5, <2>2, <2>6, ConcatProperties
    <3>2. j + (n - j) = n
      BY <1>1, <1>2
    <3> QED BY <3>1, <3>2, <2>5, <2>2
  <2>8. ASSUME NEW k \in 1..n
        PROVE  to[k] = IF k < j THEN rest[k] ELSE IF k = j THEN q[i] ELSE rest[k - 1]
    <3>1. CASE k <= j
      <4>1. k \in 1..Len(c)
        BY <3>1, <2>5, <1>2
      <4>2. to[k] = c[k]
        BY <4>1, <2>5, <2>2, <2>6
      <4> QED BY <3>1, <4>2, <2>5, <2>1, <1>2
    <3>2. CASE ~(k <= j)
      <4>1. k - j \in 1..(n - j) /\ k \in Int /\ k > Len(c) /\ k <= Len(c) + Len(b)
        BY <3>2, <2>5, <2>2, <1>2, <1>1
      <4>2. to[k] = b[k - Len(c)]
        <5>1. k \in 1..(Len(c) + Len(b)) /\ ~(k <= Len(c))
          BY <4>1, <2>5, <2>2, <1>2
        <5> QED BY <5>1, <2>5, <2>2, <2>6, ConcatProperties
      <4>3. b[k - j] = rest[(k - j) + j - 1]
        BY <4>1, <2>2
      <4>4. (k - j) + j - 1 = k - 1 /\ ~(k < j) /\ k # j
        BY <4>1, <1>2, <3>2
      <4> QED BY <3>2, <4>2, <4>3, <4>4, <2>5, <1>2
    <3> QED BY <3>1, <3>2
  <2> QED BY <2>7, <2>8
<1> HIDE DEF to
<1>5. ASSUME NEW k \in 1..n PROVE From(k) \in 1..n /\ to[k] = q[From(k)]
  <2>1. CASE k < j
    <3>1. k \in 1..(n - 1) /\ to[k] = rest[k]
      BY <2>1, <1>4, <1>2
    <3> QED BY <3>1, <2>1, <1>3, <1>2
  <2>2. CASE k = j
    BY <2>2, <1>4, <1>2
  <2>3. CASE k > j
    <3>1. k - 1 \in 1..(n - 1) /\ to[k] = rest[k - 1]
      BY <2>3, <1>4, <1>2
    <3>2. rest[k - 1] = IF k - 1 < i THEN q[k - 1] ELSE q[(k - 1) + 1]
      BY <3>1, <1>3
    <3>3. (k - 1) + 1 = k
      OBVIOUS
    <3> QED BY <3>1, <3>2, <3>3, <2>3, <1>2
  <2> QED BY <2>1, <2>2, <2>3, <1>2
<1>6. \A k, m \in 1..n : From(k) = From(m) => k = m
  BY <1>2
<1>7. ASSUME NEW m \in 1..n PROVE \E k \in 1..n : From(k) = m
  <2> DEFINE kk == IF m < i THEN m ELSE m - 1
             k == IF m = i THEN j ELSE IF kk < j THEN kk ELSE kk + 1
  <2>1. k \in 1..n /\ From(k) = m
    BY <1>2
  <2> QED BY <2>1
<1> HIDE DEF From
<1>8. to \in [1..n -> Picture] /\ DOMAIN to = 1..n
  BY <1>4
<1>9. \A k, m \in 1..n : to[k] = to[m] => k = m
  BY <1>5, <1>6, <1>1
<1>10. to \in Lists
  BY <1>8, <1>9, <1>1, ListMade
<1>11. ToSet(to) = ToSet(q)
  <2>1. \A k \in 1..n : \E m \in 1..n : to[k] = q[m]
    BY <1>5
  <2>2. \A m \in 1..n : \E k \in 1..n : to[k] = q[m]
    BY <1>5, <1>7
  <2>3. ToSet(to) = {to[k] : k \in 1..n} /\ ToSet(q) = {q[k] : k \in 1..n}
    BY <1>1, <1>8 DEF ToSet
  <2> QED BY <2>1, <2>2, <2>3
<1> QED BY <1>10, <1>11 DEF to, rest

-----------------------------------------------------------------------------
OrderCalls == [pc : {"idle", "sent", "tx", "saved", "failed", "done"}, list : Lists, shown : Lists,
               sort : BOOLEAN, at : 0..Cardinality(Picture)]
OrderReloads == [pc : {"idle", "asked", "answered", "done"}, list : Lists, fresh : BOOLEAN]
OrderPages == [order : Lists, data : SUBSET Picture, dragging : BOOLEAN, synced : BOOLEAN]

CallOut(c) == call[c].pc \notin {"idle", "done"}
ReloadOut(r) == reload[r].pc \in {"asked", "answered"}

\* Every list names photos that were uploaded, and may be deleted by now.
WereUploaded(s) == \A p \in s : place[p] # Unborn
ListsUploaded ==
    /\ \A c \in Reorder : WereUploaded(ToSet(call[c].list))
    /\ \A c \in Reorder : WereUploaded(ToSet(call[c].shown))
    /\ \A r \in Reload : WereUploaded(ToSet(reload[r].list))
    /\ \A g \in Grid : WereUploaded(ToSet(grid[g].order))

\* A drag moves photos about, and its transaction begins at the first row.
DragsKeepPhotos ==
    \A c \in Reorder : /\ ~call[c].sort => ToSet(call[c].list) = ToSet(call[c].shown)
                       /\ call[c].at <= Len(call[c].list)

\* A page that is in step has one call out, if any.
OneOut ==
    \A g \in Grid : grid[g].synced =>
      /\ \A c, d \in Reorder : (GridOf[c] = g /\ GridOf[d] = g /\ CallOut(c) /\ CallOut(d)) => c = d
      /\ \A q, r \in Reload : (GridOf[q] = g /\ GridOf[r] = g /\ ReloadOut(q) /\ ReloadOut(r)) => q = r
      /\ \A c \in Reorder, r \in Reload : ~(GridOf[c] = g /\ GridOf[r] = g /\ CallOut(c) /\ ReloadOut(r))

\* It shows the album's order, unless that call is a drag, or a sort that is
\* saved and about to be reloaded.
PageInStep(g) ==
    grid[g].synced =>
      \/ grid[g].order \in ListPhotos
      \/ \E c \in Reorder : GridOf[c] = g /\ CallOut(c) /\ (~call[c].sort \/ call[c].pc = "saved")

\* The drag's list is what the page shows; what it showed before is the
\* album's order until the drag is saved, and the list from then on.
DragInStep(c) ==
    (grid[GridOf[c]].synced /\ CallOut(c) /\ ~call[c].sort) =>
      /\ call[c].list = grid[GridOf[c]].order
      /\ call[c].pc = "saved" => call[c].list \in ListPhotos
      /\ call[c].pc # "saved" => call[c].shown \in ListPhotos

\* An answer that nothing overtook is the album's order.
AnswerInStep(r) == (reload[r].fresh /\ reload[r].pc = "answered") => reload[r].list \in ListPhotos

OrderInv ==
    /\ OrderTypeOK /\ ReorderIsWhole /\ ListsUploaded /\ DragsKeepPhotos /\ OneOut
    /\ \A g \in Grid : PageInStep(g)
    /\ \A c \in Reorder : DragInStep(c)
    /\ \A r \in Reload : AnswerInStep(r)

LEMMA OrderTypes ==
    /\ OrderTypeOK <=> /\ place \in [Picture -> Unborn..Cardinality(Picture)]
                       /\ call \in [Reorder -> OrderCalls] /\ reload \in [Reload -> OrderReloads]
                       /\ grid \in [Grid -> OrderPages]
                       /\ newest \in Lists /\ mishaps \in 0..MaxMishaps
    /\ \A x \in Reorder \cup Reload : GridOf[x] \in Grid
    /\ \A q \in ListPhotos : q \in Lists /\ ToSet(q) = Rows
    /\ \A p \in Rows : p \in Picture /\ place[p] # Unborn
BY OrderAssumption DEF OrderTypeOK, OrderCalls, OrderReloads, OrderPages, ListPhotos, Rows, Unborn

LEMMA OrderSame == place' = place => ListPhotos' = ListPhotos /\ Rows' = Rows
BY DEF ListPhotos, Rows, Before

(* A page with nothing out shows what it should.                            *)
LEMMA OrderShown == OrderInv => GridShowsAlbum
BY DEF OrderInv, GridShowsAlbum, PageInStep, InFlight, CallOut

LEMMA OrderBegins == OrderInit => OrderInv
<1> SUFFICES ASSUME OrderInit PROVE OrderInv
  OBVIOUS
<1>1. PICK first \in DateOrders(Picture \ Newcomer) :
         /\ place = PlaceOf(first)
         /\ grid = [g \in Grid |-> [order |-> first, data |-> ToSet(first), dragging |-> FALSE,
                                    synced |-> TRUE]]
  BY DEF OrderInit
<1>2. first \in Lists /\ ToSet(first) = Picture \ Newcomer /\ Cardinality(Picture) \in Nat /\ MaxMishaps \in Nat
  BY OrderAssumption, FS_CardinalityType DEF DateOrders
<1>3. /\ \A i \in DOMAIN first : place[first[i]] = i - 1
      /\ \A p \in ToSet(first) : place[p] \in 0..Cardinality(Picture)
      /\ \A p \in Picture \ ToSet(first) : place[p] = Unborn
  BY <1>1, <1>2, PlaceInList
<1>4. OrderTypeOK
  <2>1. place \in [Picture -> Unborn..Cardinality(Picture)]
    <3>1. DOMAIN place = Picture /\ place = [p \in Picture |-> place[p]]
      BY <1>1 DEF PlaceOf
    <3>2. \A p \in Picture : place[p] \in Unborn..Cardinality(Picture)
      BY <1>2, <1>3 DEF Unborn
    <3> QED BY <3>1, <3>2
  <2>2. grid \in [Grid -> OrderPages]
    BY <1>1, <1>2 DEF OrderPages
  <2>3. call \in [Reorder -> OrderCalls] /\ reload \in [Reload -> OrderReloads]
    BY <1>2, EmptyList DEF OrderInit, OrderCalls, OrderReloads
  <2>4. newest \in Lists /\ mishaps \in 0..MaxMishaps
    BY <1>2, EmptyList DEF OrderInit
  <2> QED BY <2>1, <2>2, <2>3, <2>4, OrderTypes
<1>5. ReorderIsWhole /\ DragsKeepPhotos
  BY EmptyList DEF OrderInit, ReorderIsWhole, DragsKeepPhotos
<1>6. ListsUploaded
  BY <1>1, <1>2, <1>3, EmptyList DEF OrderInit, ListsUploaded, WereUploaded, Unborn
<1>7. OneOut /\ (\A c \in Reorder : DragInStep(c)) /\ (\A r \in Reload : AnswerInStep(r))
  BY DEF OrderInit, OneOut, CallOut, ReloadOut, DragInStep, AnswerInStep
<1>8. first \in ListPhotos
  <2>1. Rows = ToSet(first)
    BY <1>2, <1>3 DEF Rows, Unborn
  <2>2. ASSUME NEW i \in DOMAIN first, NEW j \in DOMAIN first, i < j PROVE Before(first[i], first[j])
    <3>1. i \in Int /\ j \in Int
      BY <1>2, ListFacts
    <3> QED BY <3>1, <2>2, <1>3 DEF Before
  <2> QED BY <2>1, <2>2, <1>2 DEF ListPhotos
<1>9. \A g \in Grid : PageInStep(g)
  BY <1>1, <1>8 DEF PageInStep
<1> QED BY <1>4, <1>5, <1>6, <1>7, <1>9 DEF OrderInv

(* A call goes on and nothing else changes.                                 *)
LEMMA CallGoesOn ==
    ASSUME OrderInv, NEW c \in Reorder,
           BeginReorder(c) \/ WriteRow(c) \/ Deadlock(c) \/ RequestFails(c)
    PROVE  OrderInv'
<1>1. /\ place \in [Picture -> Unborn..Cardinality(Picture)] /\ call \in [Reorder -> OrderCalls]
      /\ reload \in [Reload -> OrderReloads] /\ grid \in [Grid -> OrderPages]
      /\ newest \in Lists /\ mishaps \in 0..MaxMishaps /\ MaxMishaps \in Nat
      /\ Cardinality(Picture) \in Nat /\ Len(call[c].list) \in 0..Cardinality(Picture)
  BY OrderTypes, OrderAssumption, FS_CardinalityType, ListFacts DEF OrderInv, OrderCalls
<1>2. \E pc2 \in {"tx", "failed"} : \E n \in 0..Len(call[c].list) :
         call' = [call EXCEPT ![c] = [call[c] EXCEPT !.pc = pc2, !.at = n]]
  <2>1. call[c].at \in 0..Len(call[c].list) /\ call[c] \in OrderCalls
    BY <1>1 DEF OrderInv, DragsKeepPhotos, OrderCalls
  <2>2. CASE WriteRow(c)
    <3>1. call[c].pc = "tx" /\ call[c].at + 1 \in 0..Len(call[c].list)
      BY <2>1, <2>2, <1>1 DEF WriteRow
    <3>2. call' = [call EXCEPT ![c] = [call[c] EXCEPT !.pc = "tx", !.at = call[c].at + 1]]
      BY <2>1, <2>2, <3>1, <1>1 DEF WriteRow, OrderCalls
    <3> QED BY <3>1, <3>2
  <2>3. CASE BeginReorder(c)
    <3>1. call' = [call EXCEPT ![c] = [call[c] EXCEPT !.pc = "tx", !.at = call[c].at]]
      BY <2>1, <2>3, <1>1 DEF BeginReorder, OrderCalls
    <3> QED BY <3>1, <2>1
  <2>4. CASE Deadlock(c) \/ RequestFails(c)
    <3>1. call' = [call EXCEPT ![c] = [call[c] EXCEPT !.pc = "failed", !.at = call[c].at]]
      BY <2>1, <2>4, <1>1 DEF Deadlock, RequestFails, OrderCalls
    <3> QED BY <3>1, <2>1
  <2> QED BY <2>2, <2>3, <2>4
<1>3. PICK pc2 \in {"tx", "failed"}, n \in 0..Len(call[c].list) :
         call' = [call EXCEPT ![c] = [call[c] EXCEPT !.pc = pc2, !.at = n]]
  BY <1>2
<1>4. call[c].pc \in {"sent", "tx"}
  BY DEF BeginReorder, WriteRow, Deadlock, BlockedBy, Blocked, RequestFails
<1>5. place' = place
  <2>1. CASE WriteRow(c)
    <3>1. place' = [p \in Picture |-> place[p]]
      <4>1. Visible(c, call[c].at + 1) = {}
        <5>1. call[c].at + 1 # 0
          BY <1>1 DEF OrderCalls
        <5> QED BY <5>1 DEF Visible
      <4> QED BY <2>1, <4>1 DEF WriteRow, Show
    <3> QED BY <3>1, <1>1
  <2>2. CASE ~WriteRow(c)
    BY <2>2 DEF BeginReorder, Deadlock, RequestFails
  <2> QED BY <2>1, <2>2
<1>6. grid' = grid /\ reload' = reload /\ newest' = newest /\ mishaps' \in 0..MaxMishaps
  BY <1>1 DEF BeginReorder, WriteRow, Deadlock, RequestFails, Mishap
<1>7. /\ call' \in [Reorder -> OrderCalls] /\ call'[c].pc = pc2 /\ call'[c].at = n
      /\ call'[c].list = call[c].list /\ call'[c].shown = call[c].shown /\ call'[c].sort = call[c].sort
      /\ \A d \in Reorder \ {c} : call'[d] = call[d]
  <2> DEFINE new == [call[c] EXCEPT !.pc = pc2, !.at = n]
  <2>1. n \in 0..Cardinality(Picture) /\ call[c] \in OrderCalls
    BY <1>1
  <2>2. /\ new \in OrderCalls /\ new.pc = pc2 /\ new.at = n /\ new.list = call[c].list
        /\ new.shown = call[c].shown /\ new.sort = call[c].sort
    BY <2>1 DEF OrderCalls
  <2> HIDE DEF new
  <2>3. call' = [call EXCEPT ![c] = new]
    BY <1>3 DEF new
  <2> QED BY <1>1, <2>2, <2>3
<1>8. \A d \in Reorder : /\ CallOut(d)' <=> CallOut(d)
                         /\ call'[d].list = call[d].list /\ call'[d].shown = call[d].shown
                         /\ call'[d].sort = call[d].sort
                         /\ (call'[d].pc = "saved") <=> (call[d].pc = "saved")
                         /\ call'[d].at <= Len(call'[d].list)
  BY <1>1, <1>4, <1>7 DEF CallOut, OrderInv, DragsKeepPhotos
<1>9. ListPhotos' = ListPhotos
  BY <1>5, OrderSame
<1>10. OrderTypeOK'
  BY <1>1, <1>5, <1>6, <1>7, OrderTypes DEF OrderTypeOK, OrderCalls, OrderReloads, OrderPages
<1>11. ReorderIsWhole' /\ ListsUploaded' /\ DragsKeepPhotos'
  BY <1>5, <1>6, <1>8 DEF OrderInv, ReorderIsWhole, ListsUploaded, DragsKeepPhotos, WereUploaded
<1>12. OneOut'
  BY <1>6, <1>8 DEF OrderInv, OneOut, ReloadOut
<1>13. \A g \in Grid : PageInStep(g)'
  BY <1>6, <1>8, <1>9 DEF OrderInv, PageInStep
<1>14. (\A d \in Reorder : DragInStep(d)') /\ (\A r \in Reload : AnswerInStep(r)')
  BY <1>6, <1>8, <1>9 DEF OrderInv, DragInStep, AnswerInStep
<1> QED BY <1>10, <1>11, <1>12, <1>13, <1>14 DEF OrderInv

(* What a state that satisfies the invariant is made of.                    *)
LEMMA OrderParts ==
    ASSUME OrderInv
    PROVE  /\ place \in [Picture -> Unborn..Cardinality(Picture)] /\ call \in [Reorder -> OrderCalls]
           /\ reload \in [Reload -> OrderReloads] /\ grid \in [Grid -> OrderPages]
           /\ newest \in Lists /\ mishaps \in 0..MaxMishaps /\ MaxMishaps \in Nat
           /\ Cardinality(Picture) \in Nat
           /\ \A x \in Reorder \cup Reload : GridOf[x] \in Grid
           /\ Reorder \cap Reload = {}
BY OrderTypes, OrderAssumption, FS_CardinalityType DEF OrderInv

(* A drag: what the page showed is kept, should it fail.                    *)
LEMMA DragKeeps == ASSUME OrderInv, NEW c \in Reorder, Drag(c) PROVE OrderInv'
<1> DEFINE g == GridOf[c]
           old == grid[g].order
<1>1. /\ g \in Grid /\ grid[g] \in OrderPages /\ old \in Lists /\ call[c].pc = "idle"
      /\ place' = place /\ reload' = reload /\ newest' = newest /\ mishaps' = mishaps
  BY OrderParts DEF Drag, OrderPages
<1>2. PICK i \in DOMAIN old, j \in DOMAIN old :
         LET to == InsertAt(RemoveAt(old, i), j, old[i]) IN
         /\ call' = [call EXCEPT ![c] = [pc |-> "sent", list |-> to, shown |-> old, sort |-> FALSE, at |-> 0]]
         /\ grid' = [Crossing(g) EXCEPT ![g].order = to, ![g].dragging = TRUE]
  BY DEF Drag
<1> DEFINE to == InsertAt(RemoveAt(old, i), j, old[i])
           new == [pc |-> "sent", list |-> to, shown |-> old, sort |-> FALSE, at |-> 0]
<1>3. to \in Lists /\ ToSet(to) = ToSet(old) /\ Len(to) \in Nat
  <2>1. to \in Lists /\ ToSet(to) = ToSet(old)
    BY <1>1, DragMoves
  <2> QED BY <2>1, ListFacts
<1>4. call' = [call EXCEPT ![c] = new] /\ grid' = [Crossing(g) EXCEPT ![g].order = to, ![g].dragging = TRUE]
  BY <1>2
<1> HIDE DEF to
<1>5. new \in OrderCalls
  BY <1>1, <1>3, OrderParts DEF OrderCalls
<1> HIDE DEF new
<1>6. /\ call' \in [Reorder -> OrderCalls] /\ call'[c] = new /\ \A d \in Reorder \ {c} : call'[d] = call[d]
  BY <1>4, <1>5, OrderParts
<1>7. /\ grid' \in [Grid -> OrderPages] /\ grid'[g].order = to
      /\ grid'[g].synced = (grid[g].synced /\ ~InFlight(g))
      /\ \A h \in Grid \ {g} : grid'[h] = grid[h]
  BY <1>1, <1>3, <1>4, OrderParts DEF Crossing, OrderPages
<1>8. ListPhotos' = ListPhotos
  BY <1>1, OrderSame
<1>9. OrderTypeOK'
  BY <1>1, <1>6, <1>7, OrderParts DEF OrderTypeOK, OrderCalls, OrderReloads, OrderPages
<1>10. /\ new.list = to /\ new.shown = old /\ new.pc = "sent" /\ ~new.sort /\ new.at = 0
  BY DEF new
<1>11. ReorderIsWhole' /\ DragsKeepPhotos'
  BY <1>1, <1>3, <1>6, <1>10 DEF OrderInv, ReorderIsWhole, DragsKeepPhotos
<1>12. ListsUploaded'
  BY <1>1, <1>3, <1>6, <1>7, <1>10 DEF OrderInv, ListsUploaded, WereUploaded
<1>13. grid'[g].synced => grid[g].synced /\ \A d \in Reorder : GridOf[d] = g => ~CallOut(d)
  BY <1>7 DEF InFlight, CallOut
<1>14. grid'[g].synced => \A r \in Reload : GridOf[r] = g => ~ReloadOut(r)
  BY <1>7 DEF InFlight, ReloadOut
<1>15. \A d \in Reorder : d # c => (CallOut(d)' <=> CallOut(d))
  BY <1>6 DEF CallOut
<1>16. \A r \in Reload : ReloadOut(r)' <=> ReloadOut(r)
  BY <1>1 DEF ReloadOut
<1>17. OneOut'
  <2> SUFFICES ASSUME NEW h \in Grid, grid'[h].synced
               PROVE  /\ \A d, e \in Reorder : (GridOf[d] = h /\ GridOf[e] = h /\ CallOut(d)' /\ CallOut(e)') => d = e
                      /\ \A q, r \in Reload : (GridOf[q] = h /\ GridOf[r] = h /\ ReloadOut(q)' /\ ReloadOut(r)') => q = r
                      /\ \A d \in Reorder, r \in Reload : ~(GridOf[d] = h /\ GridOf[r] = h /\ CallOut(d)' /\ ReloadOut(r)')
    BY DEF OneOut
  <2>1. CASE h = g
    BY <2>1, <1>13, <1>14, <1>15, <1>16
  <2>2. CASE h # g
    BY <2>2, <1>7, <1>15, <1>16 DEF OrderInv, OneOut
  <2> QED BY <2>1, <2>2
<1>18. ASSUME NEW h \in Grid PROVE PageInStep(h)'
  <2>1. CASE h = g
    BY <2>1, <1>6, <1>10 DEF PageInStep, CallOut
  <2>2. CASE h # g
    BY <2>2, <1>6, <1>7, <1>8, <1>15, <1>1 DEF OrderInv, PageInStep
  <2> QED BY <2>1, <2>2
<1>19. ASSUME NEW d \in Reorder PROVE DragInStep(d)'
  <2>1. CASE d = c
    <3>1. grid'[g].synced => old \in ListPhotos
      BY <1>1, <1>13 DEF OrderInv, PageInStep
    <3> QED BY <2>1, <3>1, <1>6, <1>7, <1>8, <1>10 DEF DragInStep
  <2>2. CASE d # c /\ GridOf[d] = g
    BY <2>2, <1>13, <1>15 DEF DragInStep
  <2>3. CASE d # c /\ GridOf[d] # g
    BY <2>3, <1>6, <1>7, <1>8, <1>15, OrderParts DEF OrderInv, DragInStep
  <2> QED BY <2>1, <2>2, <2>3
<1>20. \A r \in Reload : AnswerInStep(r)'
  BY <1>1, <1>8 DEF OrderInv, AnswerInStep
<1> QED BY <1>9, <1>11, <1>12, <1>17, <1>18, <1>19, <1>20 DEF OrderInv

(* A sort by date shows nothing yet.                                        *)
LEMMA SortKeeps == ASSUME OrderInv, NEW c \in Reorder, SortByDate(c) PROVE OrderInv'
<1> DEFINE g == GridOf[c]
<1>1. /\ g \in Grid /\ grid[g] \in OrderPages /\ call[c].pc = "idle"
      /\ place' = place /\ reload' = reload /\ newest' = newest /\ mishaps' = mishaps
  BY OrderParts DEF SortByDate
<1>2. PICK q \in DateOrders(Rows) : call' = [call EXCEPT ![c] = [pc |-> "sent", list |-> q, shown |-> <<>>,
                                                          sort |-> TRUE, at |-> 0]]
  BY DEF SortByDate
<1> DEFINE new == [pc |-> "sent", list |-> q, shown |-> <<>>, sort |-> TRUE, at |-> 0]
<1>3. q \in Lists /\ ToSet(q) = Rows /\ Len(q) \in Nat
  <2>1. q \in Lists /\ ToSet(q) = Rows
    BY DEF DateOrders
  <2> QED BY <2>1, ListFacts
<1>4. call' = [call EXCEPT ![c] = new] /\ grid' = Crossing(g)
  BY <1>2 DEF SortByDate
<1>5. /\ new \in OrderCalls /\ new.list = q /\ new.shown = <<>> /\ new.pc = "sent" /\ new.sort /\ new.at = 0
  BY <1>3, OrderParts, EmptyList DEF OrderCalls
<1> HIDE DEF new
<1>6. /\ call' \in [Reorder -> OrderCalls] /\ call'[c] = new /\ \A d \in Reorder \ {c} : call'[d] = call[d]
  BY <1>4, <1>5, OrderParts
<1>7. /\ grid' \in [Grid -> OrderPages] /\ \A h \in Grid : grid'[h].order = grid[h].order
      /\ grid'[g].synced = (grid[g].synced /\ ~InFlight(g))
      /\ \A h \in Grid \ {g} : grid'[h] = grid[h]
  BY <1>1, <1>4, OrderParts DEF Crossing, OrderPages
<1>8. ListPhotos' = ListPhotos
  BY <1>1, OrderSame
<1>9. OrderTypeOK'
  BY <1>1, <1>6, <1>7, OrderParts DEF OrderTypeOK, OrderCalls, OrderReloads, OrderPages
<1>11. ReorderIsWhole' /\ DragsKeepPhotos'
  BY <1>1, <1>3, <1>6, <1>5 DEF OrderInv, ReorderIsWhole, DragsKeepPhotos
<1>12. ListsUploaded'
  <2>1. \A p \in ToSet(q) : place[p] # Unborn
    BY <1>3, OrderTypes
  <2>2. ToSet(new.shown) = {}
    BY <1>5, EmptyList
  <2> QED BY <2>1, <2>2, <1>1, <1>6, <1>7, <1>5 DEF OrderInv, ListsUploaded, WereUploaded
<1>13. grid'[g].synced => grid[g].synced /\ \A d \in Reorder : GridOf[d] = g => ~CallOut(d)
  BY <1>7 DEF InFlight, CallOut
<1>14. grid'[g].synced => \A r \in Reload : GridOf[r] = g => ~ReloadOut(r)
  BY <1>7 DEF InFlight, ReloadOut
<1>15. \A d \in Reorder : d # c => (CallOut(d)' <=> CallOut(d))
  BY <1>6 DEF CallOut
<1>16. \A r \in Reload : ReloadOut(r)' <=> ReloadOut(r)
  BY <1>1 DEF ReloadOut
<1>17. OneOut'
  <2> SUFFICES ASSUME NEW h \in Grid, grid'[h].synced
               PROVE  /\ \A d, e \in Reorder : (GridOf[d] = h /\ GridOf[e] = h /\ CallOut(d)' /\ CallOut(e)') => d = e
                      /\ \A p, r \in Reload : (GridOf[p] = h /\ GridOf[r] = h /\ ReloadOut(p)' /\ ReloadOut(r)') => p = r
                      /\ \A d \in Reorder, r \in Reload : ~(GridOf[d] = h /\ GridOf[r] = h /\ CallOut(d)' /\ ReloadOut(r)')
    BY DEF OneOut
  <2>1. CASE h = g
    BY <2>1, <1>13, <1>14, <1>15, <1>16
  <2>2. CASE h # g
    BY <2>2, <1>7, <1>15, <1>16 DEF OrderInv, OneOut
  <2> QED BY <2>1, <2>2
<1>18. ASSUME NEW h \in Grid PROVE PageInStep(h)'
  <2>1. CASE h = g
    BY <2>1, <1>7, <1>8, <1>13 DEF PageInStep, OrderInv
  <2>2. CASE h # g
    BY <2>2, <1>6, <1>7, <1>8, <1>15, <1>1 DEF OrderInv, PageInStep
  <2> QED BY <2>1, <2>2
<1>19. ASSUME NEW d \in Reorder PROVE DragInStep(d)'
  <2>1. CASE d = c
    BY <2>1, <1>6, <1>5 DEF DragInStep
  <2>2. CASE d # c /\ GridOf[d] = g
    BY <2>2, <1>13, <1>15 DEF DragInStep
  <2>3. CASE d # c /\ GridOf[d] # g
    BY <2>3, <1>6, <1>7, <1>8, <1>15, OrderParts DEF OrderInv, DragInStep
  <2> QED BY <2>1, <2>2, <2>3
<1>20. \A r \in Reload : AnswerInStep(r)'
  BY <1>1, <1>8 DEF OrderInv, AnswerInStep
<1> QED BY <1>9, <1>11, <1>12, <1>17, <1>18, <1>19, <1>20 DEF OrderInv

(* A commit: all rows of the list at once, and only its page stays in step. *)
LEMMA CommitKeeps == ASSUME OrderInv, NEW c \in Reorder, Commit(c) PROVE OrderInv'
<1> DEFINE g == GridOf[c]
           list == call[c].list
<1>1. /\ g \in Grid /\ list \in Lists /\ call[c].pc = "tx" /\ newest' = list
      /\ mishaps' = mishaps /\ ToSet(list) \subseteq Picture /\ DOMAIN list = 1..Len(list)
      /\ \A i, j \in DOMAIN list : list[i] = list[j] => i = j
  <2>1. g \in Grid /\ list \in Lists /\ call[c].pc = "tx" /\ newest' = list /\ mishaps' = mishaps
    BY OrderParts DEF Commit, OrderCalls
  <2> QED BY <2>1, ListFacts
<1>2. /\ \A i \in DOMAIN list : PlaceOf(list)[list[i]] = i - 1
      /\ \A p \in ToSet(list) : PlaceOf(list)[p] \in 0..Cardinality(Picture)
  BY <1>1, PlaceInList
<1>3. place' = [p \in Picture |-> IF p \in Rows \cap ToSet(list) THEN PlaceOf(list)[p] ELSE place[p]]
  <2>1. Visible(c, 0) = ToSet(list)
    BY DEF Visible
  <2> QED BY <2>1 DEF Commit, Show
<1>4. /\ place' \in [Picture -> Unborn..Cardinality(Picture)]
      /\ \A p \in Picture : place'[p] = Unborn => place[p] = Unborn
      /\ Rows' = Rows
  <2>1. ASSUME NEW p \in Picture
        PROVE  /\ place'[p] \in Unborn..Cardinality(Picture)
               /\ place'[p] = Unborn => place[p] = Unborn
               /\ place'[p] >= 0 <=> place[p] >= 0
    <3>1. CASE p \in Rows \cap ToSet(list)
      <4>1. place'[p] = PlaceOf(list)[p] /\ PlaceOf(list)[p] \in 0..Cardinality(Picture)
        BY <3>1, <1>2, <1>3
      <4>2. place[p] >= 0
        BY <3>1 DEF Rows
      <4>3. Cardinality(Picture) \in Nat
        BY OrderParts
      <4> HIDE DEF list
      <4> QED BY <4>1, <4>2, <4>3 DEF Unborn
    <3>2. CASE p \notin Rows \cap ToSet(list)
      BY <3>2, <1>3, OrderParts
    <3> QED BY <3>1, <3>2
  <2>2. place' = [p \in Picture |-> place'[p]]
    BY <1>3
  <2> QED BY <2>1, <2>2 DEF Rows
<1>5. call' = [call EXCEPT ![c].pc = "saved"] /\ grid' = OthersStale(g) /\ reload' = NoneFresh
  BY DEF Commit
<1>6. /\ call' \in [Reorder -> OrderCalls] /\ call'[c].pc = "saved" /\ call'[c].list = list
      /\ call'[c].shown = call[c].shown /\ call'[c].sort = call[c].sort /\ call'[c].at = call[c].at
      /\ \A d \in Reorder \ {c} : call'[d] = call[d]
  BY <1>5, OrderParts DEF OrderCalls
<1>7. /\ grid' \in [Grid -> OrderPages] /\ grid'[g].synced = grid[g].synced
      /\ \A h \in Grid : grid'[h].order = grid[h].order
      /\ \A h \in Grid \ {g} : ~grid'[h].synced
  <2>1. ASSUME NEW h \in Grid
        PROVE  /\ grid'[h] = [grid[h] EXCEPT !.synced = grid[h].synced /\ h = g]
               /\ grid'[h] \in OrderPages /\ grid'[h].order = grid[h].order
               /\ grid'[h].synced = (grid[h].synced /\ h = g)
    <3>1. grid[h] \in OrderPages
      BY OrderParts
    <3>2. grid'[h] = [grid[h] EXCEPT !.synced = grid[h].synced /\ h = g]
      BY <1>5 DEF OthersStale
    <3> QED BY <3>1, <3>2 DEF OrderPages
  <2>2. grid' = [h \in Grid |-> grid'[h]]
    BY <1>5 DEF OthersStale
  <2>3. grid' \in [Grid -> OrderPages]
    BY <2>1, <2>2
  <2>4. grid[g].synced \in BOOLEAN
    BY <1>1, OrderParts DEF OrderPages
  <2>5. grid'[g].synced = grid[g].synced
    BY <1>1, <2>1, <2>4
  <2> QED BY <2>1, <2>3, <2>5
<1>8. /\ reload' \in [Reload -> OrderReloads] /\ \A r \in Reload : ~reload'[r].fresh
      /\ \A r \in Reload : reload'[r].list = reload[r].list /\ reload'[r].pc = reload[r].pc
  BY <1>5, OrderParts DEF NoneFresh, OrderReloads
<1>9. OrderTypeOK'
  BY <1>1, <1>4, <1>6, <1>7, <1>8, OrderParts DEF OrderTypeOK, OrderCalls, OrderReloads, OrderPages
<1>10. ASSUME NEW i \in DOMAIN list
       PROVE  place'[list[i]] = (IF list[i] \in Rows THEN i - 1 ELSE NoRow)
  <2>1. list[i] \in ToSet(list) /\ list[i] \in Picture
    BY <1>1 DEF ToSet
  <2>2. CASE list[i] \in Rows
    BY <2>1, <2>2, <1>2, <1>3
  <2>3. CASE list[i] \notin Rows
    <3>1. place'[list[i]] = place[list[i]]
      BY <2>1, <2>3, <1>3
    <3>2. place[list[i]] # Unborn /\ ~(place[list[i]] >= 0)
      BY <2>1, <2>3 DEF OrderInv, ListsUploaded, WereUploaded, Rows
    <3>3. place[list[i]] \in Unborn..Cardinality(Picture)
      BY <2>1, OrderParts
    <3>4. Cardinality(Picture) \in Nat
      BY OrderParts
    <3> HIDE DEF list
    <3>5. place[list[i]] = NoRow
      BY <3>2, <3>3, <3>4 DEF NoRow, Unborn
    <3> QED BY <3>1, <3>5, <2>3
  <2> QED BY <2>2, <2>3
<1>11. ReorderIsWhole'
  <2>1. \A i \in DOMAIN list : place'[list[i]] \in {i - 1, NoRow}
    BY <1>10
  <2> QED BY <2>1, <1>1 DEF ReorderIsWhole
<1>12. ListsUploaded'
  <2>1. \A s \in SUBSET Picture : WereUploaded(s) => WereUploaded(s)'
    BY <1>4 DEF WereUploaded
  <2>2. \A q \in Lists : ToSet(q) \in SUBSET Picture
    BY ListFacts
  <2>3. /\ \A d \in Reorder : call'[d].list = call[d].list /\ call'[d].shown = call[d].shown
        /\ \A d \in Reorder : call[d].list \in Lists /\ call[d].shown \in Lists
        /\ \A r \in Reload : reload[r].list \in Lists
        /\ \A h \in Grid : grid[h].order \in Lists
    BY <1>6, OrderParts DEF OrderCalls, OrderReloads, OrderPages
  <2>4. /\ \A d \in Reorder : WereUploaded(ToSet(call[d].list))'
        /\ \A d \in Reorder : WereUploaded(ToSet(call[d].shown))'
    BY <2>1, <2>2, <2>3 DEF OrderInv, ListsUploaded, WereUploaded
  <2>5. \A r \in Reload : WereUploaded(ToSet(reload[r].list))'
    BY <2>1, <2>2, <2>3, <1>8 DEF OrderInv, ListsUploaded, WereUploaded
  <2>6. \A h \in Grid : WereUploaded(ToSet(grid[h].order))'
    BY <2>1, <2>2, <2>3, <1>7 DEF OrderInv, ListsUploaded, WereUploaded
  <2> QED BY <2>4, <2>5, <2>6 DEF ListsUploaded
<1>13. DragsKeepPhotos'
  BY <1>6 DEF OrderInv, DragsKeepPhotos
<1>14. /\ \A d \in Reorder : CallOut(d)' <=> CallOut(d)
       /\ \A r \in Reload : ReloadOut(r)' <=> ReloadOut(r)
  BY <1>1, <1>6, <1>8 DEF CallOut, ReloadOut
<1>15. OneOut'
  BY <1>7, <1>14 DEF OrderInv, OneOut
<1>16. ASSUME NEW h \in Grid PROVE PageInStep(h)'
  <2>1. CASE h = g
    BY <2>1, <1>6 DEF PageInStep, CallOut
  <2>2. CASE h # g
    BY <2>2, <1>7 DEF PageInStep
  <2> QED BY <2>1, <2>2
<1>17. CallOut(c)
  BY <1>1 DEF CallOut
<1>18. ASSUME NEW d \in Reorder PROVE DragInStep(d)'
  <2>1. CASE GridOf[d] # g
    BY <2>1, <1>7, OrderParts DEF DragInStep
  <2>2. CASE GridOf[d] = g /\ d # c
    BY <2>2, <1>1, <1>7, <1>14, <1>17 DEF DragInStep, OrderInv, OneOut
  <2>3. CASE d = c
    <3>1. SUFFICES ASSUME grid[g].synced, ~call[c].sort
                   PROVE  list = grid[g].order /\ list \in ListPhotos'
      <4>1. /\ call'[c].list = list /\ grid'[GridOf[c]].order = grid[g].order
            /\ grid'[GridOf[c]].synced = grid[g].synced
            /\ call'[c].sort = call[c].sort /\ call'[c].pc = "saved"
        BY <1>1, <1>6, <1>7
      <4> QED BY <2>3, <4>1 DEF DragInStep
    <3>2. list = grid[g].order /\ call[c].shown \in ListPhotos
      BY <3>1, <1>1, <1>17 DEF OrderInv, DragInStep
    <3>3. ToSet(list) = Rows
      BY <3>1, <3>2 DEF OrderInv, DragsKeepPhotos, ListPhotos
    <3>4. ASSUME NEW i \in DOMAIN list, NEW j \in DOMAIN list, i < j PROVE Before(list[i], list[j])'
      <4>1. list[i] \in Rows /\ list[j] \in Rows /\ i \in Int /\ j \in Int
        BY <3>3, <1>1 DEF ToSet
      <4>2. place'[list[i]] = i - 1 /\ place'[list[j]] = j - 1
        BY <4>1, <1>10
      <4> QED
        <5>1. list' [i] = list[i] /\ list'[j] = list[j]
          BY <1>6
        <5> HIDE DEF list
        <5>2. place'[list[i]] < place'[list[j]]
          BY <4>1, <4>2, <3>4
        <5> QED BY <5>1, <5>2 DEF Before
    <3> QED BY <3>2, <3>3, <3>4, <1>1, <1>4, <1>6 DEF ListPhotos
  <2> QED BY <2>1, <2>2, <2>3
<1>19. \A r \in Reload : AnswerInStep(r)'
  BY <1>8 DEF AnswerInStep
<1> QED BY <1>9, <1>11, <1>12, <1>13, <1>15, <1>16, <1>18, <1>19 DEF OrderInv

(* A drag or a sort is answered.                                            *)
LEMMA SettledKeeps == ASSUME OrderInv, NEW c \in Reorder, Settled(c) PROVE OrderInv'
<1> DEFINE g == GridOf[c]
<1>1. /\ g \in Grid /\ grid[g] \in OrderPages /\ call[c].pc = "saved" /\ CallOut(c)
      /\ place' = place /\ newest' = newest /\ mishaps' = mishaps
  BY OrderParts DEF Settled, CallOut
<1>2. /\ call' \in [Reorder -> OrderCalls] /\ call'[c].pc = "done"
      /\ \A d \in Reorder : /\ call'[d].list = call[d].list /\ call'[d].shown = call[d].shown
                            /\ call'[d].sort = call[d].sort /\ call'[d].at = call[d].at
                            /\ d # c => call'[d].pc = call[d].pc
  BY OrderParts DEF Settled, OrderCalls
<1>3. ListPhotos' = ListPhotos
  BY <1>1, OrderSame
<1>4. /\ grid' \in [Grid -> OrderPages] /\ \A h \in Grid : grid'[h].order = grid[h].order
      /\ \A h \in Grid : grid'[h].synced => grid[h].synced
      /\ call[c].sort => ~grid'[g].synced
  <2> DEFINE new == IF call[c].sort THEN [grid[g] EXCEPT !.synced = FALSE]
                    ELSE [grid[g] EXCEPT !.dragging = FALSE]
  <2>1. /\ new \in OrderPages /\ new.order = grid[g].order
        /\ new.synced => grid[g].synced
        /\ call[c].sort => ~new.synced
    BY <1>1 DEF OrderPages
  <2>2. grid' = [grid EXCEPT ![g] = new]
    BY <1>1, OrderParts DEF Settled
  <2> HIDE DEF new
  <2>3. grid'[g] = new /\ \A h \in Grid \ {g} : grid'[h] = grid[h]
    BY <2>2, <1>1, OrderParts
  <2>4. grid' \in [Grid -> OrderPages]
    BY <2>1, <2>2, <1>1, OrderParts
  <2>5. \A h \in Grid : h = g \/ grid'[h] = grid[h]
    BY <2>3
  <2> QED BY <2>1, <2>3, <2>4, <2>5, <1>1
<1>5. /\ reload' \in [Reload -> OrderReloads]
      /\ \A r \in Reload : reload'[r] = reload[r] \/ (reload'[r] = Asked /\ GridOf[r] = g /\ call[c].sort)
  <2>1. Asked \in OrderReloads
    BY EmptyList DEF Asked, OrderReloads
  <2>2. CASE call[c].sort
    <3>1. PICK r \in AskFor(g) : reload' = [reload EXCEPT ![r] = Asked]
      BY <2>2 DEF Settled
    <3>2. r \in Reload /\ GridOf[r] = g
      BY DEF AskFor
    <3> QED BY <2>1, <2>2, <3>1, <3>2, OrderParts
  <2>3. CASE ~call[c].sort
    BY <2>3, OrderParts DEF Settled
  <2> QED BY <2>2, <2>3
<1>6. /\ \A d \in Reorder : CallOut(d)' <=> (CallOut(d) /\ d # c)
      /\ \A r \in Reload : ReloadOut(r)' => ReloadOut(r) \/ (GridOf[r] = g /\ call[c].sort)
  BY <1>2, <1>5 DEF CallOut, ReloadOut
<1>7. OrderTypeOK'
  BY <1>1, <1>2, <1>4, <1>5, OrderParts DEF OrderTypeOK, OrderCalls, OrderReloads, OrderPages
<1>8. ReorderIsWhole' /\ DragsKeepPhotos'
  BY <1>1, <1>2 DEF OrderInv, ReorderIsWhole, DragsKeepPhotos
<1>9. ListsUploaded'
  <2>1. \A r \in Reload : reload'[r].list = reload[r].list \/ ToSet(reload'[r].list) = {}
    BY <1>5, EmptyList DEF Asked
  <2>2. \A r \in Reload : WereUploaded(ToSet(reload[r].list))'
    BY <2>1, <1>1 DEF OrderInv, ListsUploaded, WereUploaded
  <2> QED BY <2>2, <1>1, <1>2, <1>4 DEF OrderInv, ListsUploaded, WereUploaded
<1>10. OneOut'
  <2> SUFFICES ASSUME NEW h \in Grid, grid'[h].synced
               PROVE  /\ \A d, e \in Reorder : (GridOf[d] = h /\ GridOf[e] = h /\ CallOut(d)' /\ CallOut(e)') => d = e
                      /\ \A q, r \in Reload : (GridOf[q] = h /\ GridOf[r] = h /\ ReloadOut(q)' /\ ReloadOut(r)') => q = r
                      /\ \A d \in Reorder, r \in Reload : ~(GridOf[d] = h /\ GridOf[r] = h /\ CallOut(d)' /\ ReloadOut(r)')
    BY DEF OneOut
  <2> QED BY <1>4, <1>6 DEF OrderInv, OneOut
<1>11. ASSUME NEW h \in Grid PROVE PageInStep(h)'
  <2>1. SUFFICES ASSUME grid'[h].synced
                 PROVE  \/ grid[h].order \in ListPhotos
                        \/ \E d \in Reorder \ {c} : GridOf[d] = h /\ CallOut(d) /\ (~call[d].sort \/ call[d].pc = "saved")
    BY <1>2, <1>3, <1>4, <1>6 DEF PageInStep
  <2>2. CASE h # g
    BY <2>1, <2>2, <1>4 DEF OrderInv, PageInStep
  <2>3. CASE h = g
    <3>1. ~call[c].sort /\ grid[g].synced
      BY <2>1, <2>3, <1>4
    <3>2. call[c].list = grid[g].order /\ call[c].list \in ListPhotos
      BY <3>1, <1>1 DEF OrderInv, DragInStep
    <3> QED BY <3>2, <2>3
  <2> QED BY <2>2, <2>3
<1>12. ASSUME NEW d \in Reorder PROVE DragInStep(d)'
  <2>1. CASE d = c
    BY <2>1, <1>6 DEF DragInStep
  <2>2. CASE d # c
    BY <2>2, <1>2, <1>3, <1>4, <1>6, OrderParts DEF OrderInv, DragInStep
  <2> QED BY <2>1, <2>2
<1>13. ASSUME NEW r \in Reload PROVE AnswerInStep(r)'
  BY <1>3, <1>5 DEF OrderInv, AnswerInStep, Asked
<1> QED BY <1>7, <1>8, <1>9, <1>10, <1>11, <1>12, <1>13 DEF OrderInv

(* A drag that failed is taken back.                                        *)
LEMMA FailsKeeps == ASSUME OrderInv, NEW c \in Reorder, Fails(c) PROVE OrderInv'
<1> DEFINE g == GridOf[c]
<1>1. /\ g \in Grid /\ grid[g] \in OrderPages /\ call[c].pc \in {"failed", "saved"} /\ CallOut(c)
      /\ place' = place /\ newest' = newest /\ reload' = reload /\ mishaps' \in 0..MaxMishaps
  <2>1. mishaps' \in 0..MaxMishaps
    BY OrderParts DEF Fails, Mishap
  <2> QED BY <2>1, OrderParts DEF Fails, CallOut
<1>2. /\ call' \in [Reorder -> OrderCalls] /\ call'[c].pc = "done"
      /\ \A d \in Reorder : /\ call'[d].list = call[d].list /\ call'[d].shown = call[d].shown
                            /\ call'[d].sort = call[d].sort /\ call'[d].at = call[d].at
                            /\ d # c => call'[d].pc = call[d].pc
  BY OrderParts DEF Fails, OrderCalls
<1>3. ListPhotos' = ListPhotos
  BY <1>1, OrderSame
<1> DEFINE after == [grid EXCEPT ![g].synced = grid[g].synced /\ call[c].pc = "failed"]
<1>4. grid' = IF call[c].sort THEN after
              ELSE [after EXCEPT ![g].order = call[c].shown, ![g].dragging = FALSE]
  BY DEF Fails, Reverted
<1>5. /\ after \in [Grid -> OrderPages] /\ after[g].synced = (grid[g].synced /\ call[c].pc = "failed")
      /\ after[g].order = grid[g].order /\ \A h \in Grid \ {g} : after[h] = grid[h]
  BY <1>1, OrderParts DEF OrderPages
<1> HIDE DEF after
<1>6. call[c].shown \in Lists
  BY OrderParts DEF OrderCalls
<1>7. /\ grid' \in [Grid -> OrderPages] /\ \A h \in Grid \ {g} : grid'[h] = grid[h]
      /\ grid'[g].synced => grid[g].synced /\ call[c].pc = "failed"
      /\ grid'[g].order = IF call[c].sort THEN grid[g].order ELSE call[c].shown
  <2>1. CASE call[c].sort
    BY <2>1, <1>1, <1>4, <1>5
  <2>2. CASE ~call[c].sort
    BY <2>2, <1>1, <1>4, <1>5, <1>6 DEF OrderPages
  <2> QED BY <2>1, <2>2
<1>8. /\ \A d \in Reorder : CallOut(d)' <=> (CallOut(d) /\ d # c)
      /\ \A r \in Reload : ReloadOut(r)' <=> ReloadOut(r)
  BY <1>1, <1>2 DEF CallOut, ReloadOut
<1>9. OrderTypeOK'
  BY <1>1, <1>2, <1>7, OrderParts DEF OrderTypeOK, OrderCalls, OrderReloads, OrderPages
<1>10. ReorderIsWhole' /\ DragsKeepPhotos'
  BY <1>1, <1>2 DEF OrderInv, ReorderIsWhole, DragsKeepPhotos
<1>11. ListsUploaded'
  <2>1. \A h \in Grid : WereUploaded(ToSet(grid[h].order))'
    BY <1>1, <1>7 DEF OrderInv, ListsUploaded, WereUploaded
  <2> QED BY <2>1, <1>1, <1>2 DEF OrderInv, ListsUploaded, WereUploaded
<1>12. OneOut'
  <2> SUFFICES ASSUME NEW h \in Grid, grid'[h].synced
               PROVE  /\ \A d, e \in Reorder : (GridOf[d] = h /\ GridOf[e] = h /\ CallOut(d)' /\ CallOut(e)') => d = e
                      /\ \A q, r \in Reload : (GridOf[q] = h /\ GridOf[r] = h /\ ReloadOut(q)' /\ ReloadOut(r)') => q = r
                      /\ \A d \in Reorder, r \in Reload : ~(GridOf[d] = h /\ GridOf[r] = h /\ CallOut(d)' /\ ReloadOut(r)')
    BY DEF OneOut
  <2>1. grid[h].synced
    BY <1>7
  <2> QED BY <2>1, <1>8 DEF OrderInv, OneOut
<1>13. ASSUME NEW h \in Grid PROVE PageInStep(h)'
  <2>1. CASE h # g
    BY <2>1, <1>2, <1>3, <1>7, <1>8 DEF OrderInv, PageInStep
  <2>2. CASE h = g
    <3>1. SUFFICES ASSUME grid[g].synced, call[c].pc = "failed"
                   PROVE  grid'[g].order \in ListPhotos
      BY <2>2, <1>3, <1>7 DEF PageInStep
    <3>2. CASE call[c].sort
      <4>1. \A d \in Reorder : (GridOf[d] = g /\ CallOut(d)) => d = c
        BY <3>1, <1>1 DEF OrderInv, OneOut
      <4> QED BY <3>1, <3>2, <4>1, <1>7, <1>1 DEF OrderInv, PageInStep
    <3>3. CASE ~call[c].sort
      BY <3>1, <3>3, <1>1, <1>7 DEF OrderInv, DragInStep
    <3> QED BY <3>2, <3>3
  <2> QED BY <2>1, <2>2
<1>14. ASSUME NEW d \in Reorder PROVE DragInStep(d)'
  <2>1. CASE d = c
    BY <2>1, <1>8 DEF DragInStep
  <2>2. CASE d # c /\ GridOf[d] # g
    BY <2>2, <1>2, <1>3, <1>7, <1>8, OrderParts DEF OrderInv, DragInStep
  <2>3. CASE d # c /\ GridOf[d] = g
    BY <2>3, <1>1, <1>7, <1>8 DEF OrderInv, OneOut, DragInStep
  <2> QED BY <2>1, <2>2, <2>3
<1>15. \A r \in Reload : AnswerInStep(r)'
  BY <1>1, <1>3 DEF OrderInv, AnswerInStep
<1> QED BY <1>9, <1>10, <1>11, <1>12, <1>13, <1>14, <1>15 DEF OrderInv

(* What a page loads.                                                       *)
LEMMA ReloadsKeep ==
    ASSUME OrderInv, NEW r \in Reload, Poll(r) \/ Answer(r) \/ Apply(r) \/ ReloadFails(r)
    PROVE  OrderInv'
<1> DEFINE g == GridOf[r]
<1>1. /\ g \in Grid /\ grid[g] \in OrderPages /\ reload[r] \in OrderReloads /\ place' = place
      /\ newest' = newest /\ call' = call /\ mishaps' \in 0..MaxMishaps
  <2>1. mishaps' \in 0..MaxMishaps
    BY OrderParts DEF Poll, Answer, Apply, ReloadFails, Mishap
  <2> QED BY <2>1, OrderParts DEF Poll, Answer, Apply, ReloadFails
<1>2. ListPhotos' = ListPhotos
  BY <1>1, OrderSame
<1> DEFINE alone == /\ \A c \in Reorder : GridOf[c] = g => ~CallOut(c)
                    /\ \A q \in Reload \ {r} : GridOf[q] = g => ~ReloadOut(q)
<1>3. \E load \in OrderReloads : \E synced \in BOOLEAN :
        /\ reload' = [reload EXCEPT ![r] = load]
        /\ grid' \in [Grid -> OrderPages] /\ \A h \in Grid \ {g} : grid'[h] = grid[h]
        /\ grid'[g].synced = synced
        /\ ToSet(load.list) \subseteq Rows \/ load.list = reload[r].list
        /\ grid'[g].order = grid[g].order \/ grid'[g].order = reload[r].list
        /\ load.fresh /\ load.pc = "answered" => load.list \in ListPhotos
        /\ synced => \/ /\ grid[g].synced /\ grid'[g].order = grid[g].order
                        /\ load.pc \in {"asked", "answered"} => ReloadOut(r) \/ (alone /\ ~ReloadOut(r))
                     \/ alone /\ load.pc = "done" /\ grid'[g].order \in ListPhotos
  <2>1. CASE Poll(r)
    <3>1. /\ Asked \in OrderReloads /\ Asked.list = <<>> /\ Asked.pc = "asked" /\ ToSet(Asked.list) = {}
      BY EmptyList DEF Asked, OrderReloads
    <3>2. /\ grid' \in [Grid -> OrderPages] /\ \A h \in Grid \ {g} : grid'[h] = grid[h]
          /\ grid'[g].synced = (grid[g].synced /\ ~InFlight(g)) /\ grid'[g].order = grid[g].order
      BY <2>1, <1>1, OrderParts DEF Poll, Crossing, OrderPages
    <3>3. ~InFlight(g) => alone /\ ~ReloadOut(r)
      BY DEF InFlight, CallOut, ReloadOut
    <3>4. reload' = [reload EXCEPT ![r] = Asked]
      BY <2>1 DEF Poll
    <3>5. (grid[g].synced /\ ~InFlight(g)) \in BOOLEAN
      OBVIOUS
    <3> HIDE DEF alone
    <3> QED BY <3>1, <3>2, <3>3, <3>4, <3>5
  <2>2. CASE Answer(r)
    <3>1. PICK q \in ListPhotos : reload' = [reload EXCEPT ![r] = [pc |-> "answered", list |-> q, fresh |-> TRUE]]
      BY <2>2 DEF Answer
    <3> DEFINE load == [pc |-> "answered", list |-> q, fresh |-> TRUE]
    <3>2. /\ load \in OrderReloads /\ load.list = q /\ ToSet(q) = Rows /\ load.pc = "answered"
      BY OrderTypes DEF OrderReloads
    <3>3. ReloadOut(r) /\ grid' = grid /\ grid[g].synced \in BOOLEAN
      BY <2>2, <1>1 DEF Answer, ReloadOut, OrderPages
    <3> HIDE DEF load, alone
    <3>4. reload' = [reload EXCEPT ![r] = load]
      BY <3>1 DEF load
    <3> QED BY <3>2, <3>3, <3>4, OrderParts
  <2>3. CASE ReloadFails(r)
    <3> DEFINE load == [pc |-> "done", list |-> <<>>, fresh |-> FALSE]
    <3>1. load \in OrderReloads /\ load.pc = "done" /\ ToSet(load.list) = {}
      BY EmptyList DEF OrderReloads
    <3>2. ReloadOut(r) /\ grid' = grid /\ grid[g].synced \in BOOLEAN /\ reload' = [reload EXCEPT ![r] = load]
      BY <2>3, <1>1 DEF ReloadFails, ReloadOut, OrderPages
    <3> HIDE DEF load, alone
    <3> QED BY <3>1, <3>2, OrderParts
  <2>4. CASE Apply(r)
    <3> DEFINE load == [reload[r] EXCEPT !.pc = "done"]
               synced == reload[r].fresh /\ alone
    <3>1. /\ load \in OrderReloads /\ load.pc = "done" /\ load.list = reload[r].list
          /\ reload[r].list \in Lists /\ reload[r].fresh \in BOOLEAN /\ ToSet(reload[r].list) \subseteq Picture
      BY <1>1, ListFacts DEF OrderReloads
    <3>2. reload' = [reload EXCEPT ![r] = load] /\ reload[r].pc = "answered"
      BY <2>4, <1>1 DEF Apply
    <3>3. \A c \in Reorder : ~CallOut(c) <=> call[c].pc \in {"idle", "done"}
      BY DEF CallOut
    <3>4. \A q \in Reload : ~ReloadOut(q) <=> reload[q].pc \in {"idle", "done"}
      BY OrderParts DEF ReloadOut, OrderReloads
    <3>5. grid' = [grid EXCEPT ![g] = [grid[g] EXCEPT !.order = reload[r].list,
                                          !.data = ToSet(reload[r].list), !.synced = synced]]
      BY <2>4, <3>3, <3>4, <1>1, OrderParts DEF Apply, OrderPages
    <3>6. synced \in BOOLEAN
      OBVIOUS
    <3>7. synced => reload[r].list \in ListPhotos /\ alone
      BY <3>2 DEF OrderInv, AnswerInStep
    <3> HIDE DEF load, synced, alone
    <3>8. /\ grid' \in [Grid -> OrderPages] /\ \A h \in Grid \ {g} : grid'[h] = grid[h]
          /\ grid'[g].synced = synced /\ grid'[g].order = reload[r].list
      BY <3>1, <3>5, <3>6, <1>1, OrderParts DEF OrderPages
    <3> QED BY <3>1, <3>2, <3>6, <3>7, <3>8
  <2> QED BY <2>1, <2>2, <2>3, <2>4
<1>4. PICK load \in OrderReloads, synced \in BOOLEAN :
        /\ reload' = [reload EXCEPT ![r] = load]
        /\ grid' \in [Grid -> OrderPages] /\ \A h \in Grid \ {g} : grid'[h] = grid[h]
        /\ grid'[g].synced = synced
        /\ ToSet(load.list) \subseteq Rows \/ load.list = reload[r].list
        /\ grid'[g].order = grid[g].order \/ grid'[g].order = reload[r].list
        /\ load.fresh /\ load.pc = "answered" => load.list \in ListPhotos
        /\ synced => \/ /\ grid[g].synced /\ grid'[g].order = grid[g].order
                        /\ load.pc \in {"asked", "answered"} => ReloadOut(r) \/ (alone /\ ~ReloadOut(r))
                     \/ alone /\ load.pc = "done" /\ grid'[g].order \in ListPhotos
  BY <1>3
<1>5. /\ reload' \in [Reload -> OrderReloads] /\ reload'[r] = load
      /\ \A q \in Reload \ {r} : reload'[q] = reload[q]
  BY <1>4, OrderParts
<1>6. /\ \A c \in Reorder : CallOut(c)' <=> CallOut(c)
      /\ \A q \in Reload \ {r} : ReloadOut(q)' <=> ReloadOut(q)
      /\ ReloadOut(r)' <=> load.pc \in {"asked", "answered"}
  BY <1>1, <1>5 DEF CallOut, ReloadOut
<1>7. OrderTypeOK'
  BY <1>1, <1>4, <1>5, OrderParts DEF OrderTypeOK, OrderCalls, OrderReloads, OrderPages
<1>8. ReorderIsWhole' /\ DragsKeepPhotos'
  BY <1>1 DEF OrderInv, ReorderIsWhole, DragsKeepPhotos
<1>9. ListsUploaded'
  <2>1. \A p \in ToSet(load.list) : place[p] # Unborn
    BY <1>4, OrderTypes DEF OrderInv, ListsUploaded, WereUploaded
  <2>2. \A q \in Reload : WereUploaded(ToSet(reload[q].list))'
    BY <2>1, <1>1, <1>5 DEF OrderInv, ListsUploaded, WereUploaded
  <2>3. \A h \in Grid : WereUploaded(ToSet(grid[h].order))'
    BY <1>1, <1>4 DEF OrderInv, ListsUploaded, WereUploaded
  <2> QED BY <2>2, <2>3, <1>1 DEF OrderInv, ListsUploaded, WereUploaded
<1>10. ASSUME NEW h \in Grid, grid'[h].synced
       PROVE  /\ \A d, e \in Reorder : (GridOf[d] = h /\ GridOf[e] = h /\ CallOut(d)' /\ CallOut(e)') => d = e
              /\ \A q, s \in Reload : (GridOf[q] = h /\ GridOf[s] = h /\ ReloadOut(q)' /\ ReloadOut(s)') => q = s
              /\ \A d \in Reorder, q \in Reload : ~(GridOf[d] = h /\ GridOf[q] = h /\ CallOut(d)' /\ ReloadOut(q)')
  <2>1. CASE h # g
    BY <2>1, <1>10, <1>4, <1>6 DEF OrderInv, OneOut
  <2>2. CASE h = g /\ alone
    BY <2>2, <1>6
  <2>3. CASE h = g /\ grid[g].synced /\ (ReloadOut(r)' => ReloadOut(r))
    BY <2>3, <1>6 DEF OrderInv, OneOut
  <2> QED BY <2>1, <2>2, <2>3, <1>4, <1>6, <1>10
<1>11. OneOut'
  BY <1>10 DEF OneOut
<1>12. ASSUME NEW h \in Grid PROVE PageInStep(h)'
  <2>1. CASE h # g
    BY <2>1, <1>1, <1>2, <1>4, <1>6 DEF OrderInv, PageInStep
  <2>2. CASE h = g
    BY <2>2, <1>1, <1>2, <1>4, <1>6 DEF OrderInv, PageInStep
  <2> QED BY <2>1, <2>2
<1>13. ASSUME NEW d \in Reorder PROVE DragInStep(d)'
  <2>1. CASE GridOf[d] # g
    BY <2>1, <1>1, <1>2, <1>4, <1>6, OrderParts DEF OrderInv, DragInStep
  <2>2. CASE GridOf[d] = g
    BY <2>2, <1>1, <1>2, <1>4, <1>6 DEF OrderInv, DragInStep
  <2> QED BY <2>1, <2>2
<1>14. ASSUME NEW q \in Reload PROVE AnswerInStep(q)'
  BY <1>2, <1>4, <1>5 DEF OrderInv, AnswerInStep
<1> QED BY <1>7, <1>8, <1>9, <1>11, <1>12, <1>13, <1>14 DEF OrderInv

(* The last place of the album is a number, for there are so many photos.   *)
LEMMA NextPlaceTyped == ASSUME OrderInv PROVE NextPlace \in Nat
<1> DEFINE Free == {n \in Nat : \E p \in Rows : place[p] = Cardinality(Picture) - n}
<1>1. /\ Cardinality(Picture) \in Nat
      /\ \A p \in Rows : p \in Picture /\ place[p] \in Int /\ 0 <= place[p] /\ place[p] <= Cardinality(Picture)
  BY OrderParts DEF Rows, Unborn
<1>2. CASE Rows = {}
  BY <1>2 DEF NextPlace
<1>3. CASE Rows # {}
  <2>1. PICK p \in Rows : TRUE
    BY <1>3
  <2>2. Cardinality(Picture) - place[p] \in Free
    BY <1>1, <2>1
  <2>3. PICK n \in Free : \A m \in Free : n <= m
    <3>1. Free \subseteq Nat /\ Free # {}
      BY <2>2
    <3> HIDE DEF Free
    <3> QED BY <3>1, NatMin
  <2>4. PICK q \in Rows : place[q] = Cardinality(Picture) - n
    BY <2>3
  <2>5. ASSUME NEW s \in Rows PROVE place[s] <= place[q]
    <3>1. Cardinality(Picture) - place[s] \in Free
      BY <1>1
    <3>2. n <= Cardinality(Picture) - place[s] /\ n \in Nat
      BY <2>3, <3>1
    <3> QED BY <3>2, <2>4, <1>1
  <2>6. place[q] \in {place[s] : s \in Rows} /\ \A s \in Rows : place[s] <= place[q]
    BY <2>4, <2>5
  <2> DEFINE last == CHOOSE top \in {place[s] : s \in Rows} : \A s \in Rows : place[s] <= top
  <2>7. NextPlace = last + 1
    BY <1>3 DEF NextPlace
  <2>8. last \in {place[s] : s \in Rows}
    BY <2>6
  <2>9. {place[s] : s \in Rows} \subseteq Nat
    BY <1>1
  <2> HIDE DEF last
  <2>10. last \in Nat
    BY <2>8, <2>9
  <2> QED BY <2>7, <2>10
<1> QED BY <1>2, <1>3

(* Photos come and go: no page is in step.                                  *)
LEMMA ChangesKeep ==
    ASSUME OrderInv, NEW g \in Grid, InsertPhotos(g) \/ DeletePhotos(g)
    PROVE  OrderInv'
<1>1. PICK p \in Picture, n \in {NoRow} \cup 0..Cardinality(Picture) :
        /\ place' = [place EXCEPT ![p] = n]
        /\ n = NoRow \/ place[p] = Unborn
  <2>1. CASE InsertPhotos(g)
    <3>1. PICK p \in Newcomer : /\ place[p] = Unborn /\ NextPlace <= Cardinality(Picture)
                                /\ place' = [place EXCEPT ![p] = NextPlace]
      BY <2>1 DEF InsertPhotos
    <3>2. NextPlace \in 0..Cardinality(Picture) /\ p \in Picture
      BY <3>1, NextPlaceTyped, OrderParts, OrderAssumption
    <3> QED BY <3>1, <3>2
  <2>2. CASE DeletePhotos(g)
    <3>1. PICK p \in grid[g].data : p \in Rows /\ place' = [place EXCEPT ![p] = NoRow]
      BY <2>2 DEF DeletePhotos
    <3> QED BY <3>1 DEF Rows
  <2> QED BY <2>1, <2>2
<1>2. PhotosChange(g)
  BY DEF InsertPhotos, DeletePhotos
<1>3. PICK r \in AskFor(g) : reload' = [NoneFresh EXCEPT ![r] = Asked]
  BY <1>2 DEF PhotosChange
<1>4. call' = call /\ newest' = newest /\ mishaps' = mishaps
  BY <1>2 DEF PhotosChange
<1>5. grid' \in [Grid -> OrderPages] /\ \A h \in Grid : ~grid'[h].synced /\ grid'[h].order = grid[h].order
  <2>1. grid' = [h \in Grid |-> [grid[h] EXCEPT !.synced = FALSE]]
    BY <1>2 DEF PhotosChange
  <2> QED BY <2>1, OrderParts DEF OrderPages
<1>6. /\ reload' \in [Reload -> OrderReloads]
      /\ \A q \in Reload : ~reload'[q].fresh /\ (reload'[q].list = reload[q].list \/ reload'[q].list = <<>>)
  <2>1. Asked \in OrderReloads /\ ~Asked.fresh /\ Asked.list = <<>>
    BY EmptyList DEF Asked, OrderReloads
  <2>2. /\ NoneFresh \in [Reload -> OrderReloads]
        /\ \A q \in Reload : ~NoneFresh[q].fresh /\ NoneFresh[q].list = reload[q].list
    BY OrderParts DEF NoneFresh, OrderReloads
  <2> QED BY <2>1, <2>2, <1>3
<1>7. /\ place' \in [Picture -> Unborn..Cardinality(Picture)]
      /\ \A s \in Picture : place[s] # Unborn => place'[s] # Unborn
      /\ \A s \in Picture : place[s] # Unborn => place'[s] = place[s] \/ place'[s] = NoRow
  <2>1. n \in Unborn..Cardinality(Picture) /\ n # Unborn
    BY OrderParts DEF NoRow, Unborn
  <2> QED BY <2>1, <1>1, OrderParts
<1>8. OrderTypeOK'
  BY <1>4, <1>5, <1>6, <1>7, OrderParts DEF OrderTypeOK, OrderCalls, OrderReloads, OrderPages
<1>9. ReorderIsWhole'
  <2>1. ASSUME NEW i \in DOMAIN newest PROVE place'[newest[i]] \in {i - 1, NoRow}
    <3>1. newest[i] \in Picture /\ i \in Int /\ 1 <= i
      BY OrderParts, ListFacts
    <3>2. place[newest[i]] \in {i - 1, NoRow}
      BY DEF OrderInv, ReorderIsWhole
    <3>3. place[newest[i]] # Unborn
      BY <3>1, <3>2 DEF NoRow, Unborn
    <3> QED BY <3>1, <3>2, <3>3, <1>7
  <2> QED BY <2>1, <1>4 DEF ReorderIsWhole
<1>10. DragsKeepPhotos'
  BY <1>4 DEF OrderInv, DragsKeepPhotos
<1>11. ListsUploaded'
  <2>1. \A s \in SUBSET Picture : WereUploaded(s) => WereUploaded(s)'
    BY <1>7 DEF WereUploaded
  <2>2. \A q \in Lists : ToSet(q) \in SUBSET Picture
    BY ListFacts
  <2>3. /\ \A d \in Reorder : call[d].list \in Lists /\ call[d].shown \in Lists
        /\ \A q \in Reload : reload[q].list \in Lists
        /\ \A h \in Grid : grid[h].order \in Lists
    BY OrderParts DEF OrderCalls, OrderReloads, OrderPages
  <2>4. /\ \A d \in Reorder : WereUploaded(ToSet(call[d].list))'
        /\ \A d \in Reorder : WereUploaded(ToSet(call[d].shown))'
    BY <2>1, <2>2, <2>3, <1>4 DEF OrderInv, ListsUploaded, WereUploaded
  <2>5. \A q \in Reload : WereUploaded(ToSet(reload[q].list))'
    BY <2>1, <2>2, <2>3, <1>6, EmptyList DEF OrderInv, ListsUploaded, WereUploaded
  <2>6. \A h \in Grid : WereUploaded(ToSet(grid[h].order))'
    BY <2>1, <2>2, <2>3, <1>5 DEF OrderInv, ListsUploaded, WereUploaded
  <2> QED BY <2>4, <2>5, <2>6 DEF ListsUploaded
<1>12. OneOut' /\ \A h \in Grid : PageInStep(h)'
  BY <1>5 DEF OneOut, PageInStep
<1>13. \A d \in Reorder : DragInStep(d)'
  BY <1>5, OrderParts DEF DragInStep
<1>14. \A q \in Reload : AnswerInStep(q)'
  BY <1>6 DEF AnswerInStep
<1> QED BY <1>8, <1>9, <1>10, <1>11, <1>12, <1>13, <1>14 DEF OrderInv

LEMMA OrderStep == OrderInv /\ [OrderNext]_orderVars => OrderInv'
<1> SUFFICES ASSUME OrderInv, [OrderNext]_orderVars PROVE OrderInv'
  OBVIOUS
<1>1. CASE UNCHANGED orderVars
  BY <1>1 DEF orderVars, OrderInv, OrderTypeOK, ReorderIsWhole, ListsUploaded, WereUploaded, DragsKeepPhotos,
     OneOut, CallOut, ReloadOut, PageInStep, DragInStep, AnswerInStep, ListPhotos, Rows, Before
<1>2. ASSUME NEW c \in Reorder, BeginReorder(c) \/ WriteRow(c) \/ Deadlock(c) \/ RequestFails(c)
      PROVE  OrderInv'
  BY <1>2, CallGoesOn
<1>3. ASSUME NEW c \in Reorder, Drag(c) \/ SortByDate(c) \/ Commit(c) \/ Settled(c) \/ Fails(c)
      PROVE  OrderInv'
  BY <1>3, DragKeeps, SortKeeps, CommitKeeps, SettledKeeps, FailsKeeps
<1>4. ASSUME NEW r \in Reload, Poll(r) \/ Answer(r) \/ Apply(r) \/ ReloadFails(r)
      PROVE  OrderInv'
  BY <1>4, ReloadsKeep
<1>5. ASSUME NEW g \in Grid, InsertPhotos(g) \/ DeletePhotos(g)
      PROVE  OrderInv'
  BY <1>5, ChangesKeep
<1> QED BY <1>1, <1>2, <1>3, <1>4, <1>5 DEF OrderNext

(* Reorders do not mix, and a page with nothing out that no call overtook   *)
(* shows the album's order, for any photos, pages, reorders and reloads     *)
(* (reorderPhotos in lib/albums.ts, PhotoGrid.tsx).                         *)
THEOREM OrderAlwaysHolds == OrderSpec => [](OrderTypeOK /\ ReorderIsWhole /\ GridShowsAlbum)
<1>1. OrderInv => OrderTypeOK /\ ReorderIsWhole /\ GridShowsAlbum
  BY OrderShown DEF OrderInv
<1> QED BY <1>1, OrderBegins, OrderStep, PTL DEF OrderSpec

-----------------------------------------------------------------------------
(* Lightbox.                                                                *)

\* What was rendered still holds, unless the row was written since.
StillTrue(r, stars) == ~r.crossed => r.fav = (r.photo \in stars)

\* What a page believes of its row at each step of its loop.  Only the first
\* request of a loop starts from the state the loop would fall back to.
Believes(i, stars) ==
    /\ (~i.page.crossed /\ i.pc = "idle") =>
         /\ i.confirmed = (i.page.photo \in stars)
         /\ i.shown = i.confirmed
         /\ i.asked \subseteq {i.confirmed}
    /\ (~i.page.crossed /\ i.pc \in {"delete", "insert", "fail"} /\ i.guard = 0) =>
         i.confirmed = (i.page.photo \in stars)
    /\ (~i.page.crossed /\ i.pc = "answer") => i.res = (i.page.photo \in stars)
    /\ i.pc # "idle" => i.asked \subseteq {i.desired}

Refreshes == [pc : {"none", "owed", "read"}, page : ShotPage \cup {NoPage}]

ViewerInv ==
    /\ ready \subseteq Shot /\ hearts \subseteq Shot
    /\ linkOk \in BOOLEAN /\ onTop \in BOOLEAN /\ slips \in 0..MaxSlips
    /\ pages \in Seq(Instance) /\ Len(pages) <= MaxPages
    /\ onTop => Len(pages) > 0
    /\ coming # NoPage => coming \in ShotPage /\ StillTrue(coming, hearts) /\ Len(pages) < MaxPages
    /\ refresh \in Refreshes
    /\ refresh.pc = "read" => refresh.page \in ShotPage /\ StillTrue(refresh.page, hearts)
    /\ \A n \in DOMAIN pages : Believes(pages[n], hearts)

(* The nearest photo on a side is one.                                      *)
LEMMA NeighbourTyped ==
    ASSUME NEW p \in Shot, NEW step \in {-1, 1}
    PROVE  Neighbour(p, step) \in Shot \cup {Nowhere}
<1> DEFINE n == CHOOSE k \in DOMAIN Shots : Shots[k] = p
           side == {k \in DOMAIN Shots : Shots[k] \in ready /\ step * (k - n) > 0}
           far == {d \in Nat : \E k \in side : d = step * (k - n)}
           near == CHOOSE k \in side : \A m \in side : step * (m - k) >= 0
<1>1. DOMAIN Shots \subseteq Nat /\ n \in DOMAIN Shots
  <2>1. Shots \in Seq(Shot)
    BY LightboxAssumption
  <2>2. DOMAIN Shots \subseteq Nat
    BY <2>1, LenProperties
  <2>3. \E k \in DOMAIN Shots : Shots[k] = p
    BY DEF Shot
  <2> QED BY <2>2, <2>3
<1> HIDE DEF n
<1>2. CASE side # {}
  <2>1. \A k \in side : k \in DOMAIN Shots /\ k \in Int /\ step * (k - n) \in Nat
    BY <1>1
  <2>2. far \subseteq Nat /\ far # {}
    BY <1>2, <2>1
  <2>3. PICK d \in far : \A e \in far : d <= e
    <3> HIDE DEF far
    <3> QED BY <2>2, NatMin
  <2>4. PICK k \in side : d = step * (k - n)
    BY <2>3
  <2>5. ASSUME NEW m \in side PROVE step * (m - k) >= 0
    <3>1. step * (m - n) \in far /\ k \in Int /\ m \in Int /\ n \in Int
      BY <1>1, <2>1, <2>4
    <3>2. step * (k - n) <= step * (m - n)
      BY <2>3, <2>4, <3>1
    <3>3. CASE step = 1
      BY <3>1, <3>2, <3>3
    <3>4. CASE step = -1
      BY <3>1, <3>2, <3>4
    <3> QED BY <3>3, <3>4
  <2>6. near \in side
    BY <2>5
  <2> HIDE DEF near
  <2>7. Shots[near] \in Shot
    BY <2>1, <2>6 DEF Shot
  <2>8. Neighbour(p, step) = Shots[near]
    BY <1>2 DEF Neighbour, n, near
  <2> QED BY <2>7, <2>8
<1>3. CASE side = {}
  BY <1>3 DEF Neighbour, n
<1> QED BY <1>2, <1>3

LEMMA HrefsOf == ASSUME NEW p \in Shot PROVE RenderOf(p) \in ShotPage
BY NeighbourTyped DEF RenderOf, ShotPage

LEMMA RendersTrue ==
    ASSUME ViewerInv, NEW p \in Shot
    PROVE  RenderOf(p) \in ShotPage /\ StillTrue(RenderOf(p), hearts)
BY HrefsOf DEF ViewerInv, RenderOf, StillTrue

\* A page at rest that is reset, tapped or whose loop moves still believes
\* what is so.
LEMMA DecidedBelieves ==
    ASSUME NEW i \in Instance, NEW stars, Believes(i, stars), NEW intent \in BOOLEAN
    PROVE  Decided(i, intent) \in Instance /\ Believes(Decided(i, intent), stars)
<1> DEFINE j == Decided(i, intent)
<1>1. j \in Instance
  BY DEF Instance, Decided
<1>2. /\ j.page = i.page /\ j.shown = intent /\ j.desired = intent /\ j.confirmed = i.confirmed
      /\ j.res = i.res /\ j.guard = i.guard /\ j.asked = {intent}
      /\ j.pc = IF i.pc = "idle" /\ i.confirmed # intent THEN "delete" ELSE i.pc
  BY DEF Instance, Decided
<1>3. i.confirmed \in BOOLEAN
  BY DEF Instance
<1> HIDE DEF j
<1>4. i.pc = "idle" /\ i.confirmed # intent => Believes(j, stars)
  BY <1>2, <1>3 DEF Believes
<1>5. i.pc = "idle" /\ i.confirmed = intent => Believes(j, stars)
  BY <1>2 DEF Believes
<1>6. i.pc # "idle" => Believes(j, stars)
  BY <1>2 DEF Believes
<1> QED BY <1>1, <1>4, <1>5, <1>6 DEF j

LEMMA ResetBelieves ==
    ASSUME NEW i \in Instance, NEW stars, Believes(i, stars), NEW r \in ShotPage, StillTrue(r, stars),
           r.photo = i.page.photo
    PROVE  Reset(i, r) \in Instance /\ Believes(Reset(i, r), stars)
<1> DEFINE j == Reset(i, r)
<1>1. CASE r.fav = i.page.fav
  <2>1. j \in Instance
    BY <1>1 DEF Instance, ShotPage, Reset
  <2>2. /\ j.page.photo = i.page.photo /\ j.page.crossed = i.page.crossed
        /\ j.shown = i.shown /\ j.desired = i.desired /\ j.confirmed = i.confirmed
        /\ j.pc = i.pc /\ j.res = i.res /\ j.guard = i.guard /\ j.asked = i.asked
    BY <1>1 DEF Instance, ShotPage, Reset
  <2> HIDE DEF j
  <2> QED BY <2>1, <2>2 DEF Believes, j
<1>2. CASE r.fav # i.page.fav
  <2>1. j \in Instance
    BY <1>2 DEF Instance, ShotPage, Reset
  <2>2. /\ j.page.photo = i.page.photo
        /\ j.page.crossed = (r.crossed \/ i.page.crossed \/ i.pc # "idle")
        /\ j.shown = r.fav /\ j.desired = r.fav /\ j.confirmed = r.fav
        /\ j.pc = i.pc /\ j.res = i.res /\ j.guard = i.guard /\ j.asked = {}
    BY <1>2 DEF Instance, ShotPage, Reset
  <2> HIDE DEF j
  <2>3. ~j.page.crossed => ~r.crossed /\ i.pc = "idle"
    BY <2>2
  <2> QED BY <2>1, <2>2, <2>3 DEF Believes, StillTrue, j
<1> QED BY <1>1, <1>2

LEMMA GoOnBelieves ==
    ASSUME NEW i \in Instance, NEW stars, Believes(i, stars), i.pc = "answer"
    PROVE  GoOn(i) \in Instance /\ Believes(GoOn(i), stars)
<1> DEFINE j == GoOn(i)
<1>1. CASE i.res # i.desired /\ i.guard + 1 < LoopMax
  <2>0. i.guard + 1 \in 0..LoopMax /\ i.guard + 1 # 0
    BY <1>1, LightboxAssumption DEF Instance
  <2>1. j \in Instance
    BY <1>1, <2>0 DEF Instance, GoOn
  <2>2. j.page = i.page /\ j.desired = i.desired /\ j.pc = "delete" /\ j.guard # 0 /\ j.asked = i.asked
    BY <1>1, <2>0 DEF Instance, GoOn
  <2> HIDE DEF j
  <2> QED BY <2>1, <2>2 DEF Believes, j
<1>2. CASE ~(i.res # i.desired /\ i.guard + 1 < LoopMax)
  <2>0. 0 \in 0..LoopMax /\ {} \in SUBSET BOOLEAN
    BY LightboxAssumption
  <2>1. j \in Instance
    BY <1>2, <2>0 DEF Instance, GoOn
  <2>2. /\ j.page = i.page /\ j.pc = "idle" /\ j.confirmed = i.res /\ j.shown = i.res
        /\ j.asked = IF i.res = i.desired THEN i.asked ELSE {}
    BY <1>2 DEF Instance, GoOn
  <2> HIDE DEF j
  <2> QED BY <2>1, <2>2 DEF Believes, j
<1> QED BY <1>1, <1>2

\* Another's write to the row of p.
LEMMA OthersCrossed ==
    ASSUME NEW i \in Instance, NEW stars, NEW after, Believes(i, stars), NEW p,
           after \ {p} = stars \ {p}
    PROVE  /\ i.page.photo = p => /\ [i EXCEPT !.page.crossed = TRUE] \in Instance
                                  /\ Believes([i EXCEPT !.page.crossed = TRUE], after)
           /\ i.page.photo # p => Believes(i, after)
<1>1. CASE i.page.photo = p
  <2> DEFINE j == [i EXCEPT !.page.crossed = TRUE]
  <2>1. j \in Instance /\ j.page.crossed = TRUE /\ j.pc = i.pc /\ j.asked = i.asked /\ j.desired = i.desired
    BY DEF Instance, ShotPage
  <2> HIDE DEF j
  <2>2. Believes(j, after)
    BY <2>1 DEF Believes
  <2> QED BY <1>1, <2>1, <2>2 DEF j
<1>2. CASE i.page.photo # p
  <2>1. (i.page.photo \in after) = (i.page.photo \in stars)
    BY <1>2
  <2> QED BY <1>2, <2>1 DEF Believes
<1> QED BY <1>1, <1>2

LEMMA PageMoves ==
    ASSUME ViewerInv, NEW n \in DOMAIN pages, NEW j \in Instance, Believes(j, hearts),
           pages' = [pages EXCEPT ![n] = j], UNCHANGED <<ready, linkOk, hearts, onTop, coming>>,
           slips' \in 0..MaxSlips,
           UNCHANGED refresh \/ refresh' = NoRefresh
    PROVE  ViewerInv'
<1>1. pages' \in Seq(Instance) /\ Len(pages') = Len(pages) /\ DOMAIN pages' = DOMAIN pages
  BY ExceptSeq DEF ViewerInv
<1>2. refresh' \in Refreshes /\ (refresh'.pc = "read" => refresh' = refresh)
  BY DEF ViewerInv, Refreshes, NoRefresh
<1>3. ASSUME NEW m \in DOMAIN pages PROVE Believes(pages'[m], hearts)
  <2>1. pages'[m] = IF m = n THEN j ELSE pages[m]
    BY <1>1 DEF ViewerInv
  <2>2. Believes(pages[m], hearts)
    BY DEF ViewerInv
  <2> QED BY <2>1, <2>2
<1> QED BY <1>1, <1>2, <1>3 DEF ViewerInv, StillTrue

LEMMA PageTyped ==
    ASSUME ViewerInv, NEW n \in DOMAIN pages
    PROVE  pages[n] \in Instance /\ Believes(pages[n], hearts)
BY DEF ViewerInv

LEMMA TopPage == ASSUME ViewerInv, onTop PROVE Top \in DOMAIN pages
BY LenProperties DEF ViewerInv, Top

LEMMA PushKeeps == ASSUME ViewerInv, NEW p, Push(p) PROVE ViewerInv'
<1>1. UNCHANGED <<pages, ready, linkOk, hearts, slips>> /\ Len(pages) < MaxPages
  BY DEF Push, ShotsSame, Top
<1>2. refresh' \in Refreshes /\ (refresh'.pc = "read" => refresh' = refresh)
  BY DEF Push, ViewerInv, Refreshes, NoRefresh
<1>3. onTop' \in BOOLEAN /\ (onTop' => onTop)
  BY DEF Push, ViewerInv
<1>4. CASE Showable(p)
  <2>1. coming' = RenderOf(p) /\ p \in Shot
    BY <1>4 DEF Push, Showable, ViewerInv
  <2>2. coming' \in ShotPage /\ StillTrue(coming', hearts)
    BY <2>1, RendersTrue
  <2> QED BY <1>1, <1>2, <1>3, <2>2 DEF ViewerInv
<1>5. CASE ~Showable(p)
  <2>1. coming' = NoPage
    BY <1>5 DEF Push
  <2> QED BY <1>1, <1>2, <1>3, <2>1 DEF ViewerInv
<1> QED BY <1>4, <1>5

LEMMA LeaveKeeps == ASSUME ViewerInv, Leave PROVE ViewerInv'
<1>1. refresh' \in Refreshes /\ refresh'.pc # "read"
  BY DEF Leave, Refreshes, NoRefresh
<1> QED BY <1>1 DEF ViewerInv, Leave, ShotsSame, NoPage

LEMMA MountKeeps == ASSUME ViewerInv, Mount PROVE ViewerInv'
<1> DEFINE j == [page |-> coming, shown |-> coming.fav, desired |-> coming.fav, confirmed |-> coming.fav,
                 pc |-> "idle", res |-> FALSE, guard |-> 0, tapped |-> FALSE, asked |-> {}]
<1>1. coming \in ShotPage /\ StillTrue(coming, hearts) /\ coming.fav \in BOOLEAN
  BY DEF Mount, ViewerInv, ShotPage
<1>2. j \in Instance
  BY <1>1, LightboxAssumption DEF Instance
<1>3. Believes(j, hearts)
  BY <1>1 DEF Believes, StillTrue
<1>4. pages' = Append(pages, j)
  BY DEF Mount
<1> HIDE DEF j
<1>5. /\ pages' \in Seq(Instance) /\ Len(pages') = Len(pages) + 1
      /\ DOMAIN pages' = 1..(Len(pages) + 1)
      /\ \A n \in DOMAIN pages' : pages'[n] = IF n = Len(pages) + 1 THEN j ELSE pages[n]
      /\ DOMAIN pages = 1..Len(pages) /\ Len(pages) \in Nat
  BY <1>2, <1>4, AppendProperties, LenProperties DEF ViewerInv
<1>6. ASSUME NEW n \in DOMAIN pages' PROVE Believes(pages'[n], hearts)
  BY <1>3, <1>5 DEF ViewerInv
<1>7. coming' = NoPage /\ onTop' = TRUE /\ UNCHANGED <<refresh, ready, linkOk, hearts, slips>>
  BY DEF Mount, ShotsSame
<1>8. Len(pages') > 0 /\ Len(pages') <= MaxPages
  <2>1. Len(pages) < MaxPages /\ MaxPages \in Nat
    BY LightboxAssumption DEF Mount, ViewerInv
  <2> QED BY <2>1, <1>5
<1> QED BY <1>5, <1>6, <1>7, <1>8 DEF ViewerInv

LEMMA RefreshKeeps == ASSUME ViewerInv, RefreshRead \/ RefreshLands PROVE ViewerInv'
<1>1. CASE RefreshRead
  <2> DEFINE p == pages[Top].page.photo
  <2>1. UNCHANGED <<pages, coming, ready, linkOk, hearts, slips>> /\ onTop' \in BOOLEAN /\ (onTop' => onTop)
    BY <1>1 DEF RefreshRead, ShotsSame, ViewerInv
  <2>2. CASE Showable(p)
    <3>1. p \in Shot /\ refresh' = [pc |-> "read", page |-> RenderOf(p)]
      BY <1>1, <2>2 DEF RefreshRead, Showable, ViewerInv
    <3>2. RenderOf(p) \in ShotPage /\ StillTrue(RenderOf(p), hearts)
      BY <3>1, RendersTrue
    <3> QED BY <2>1, <3>1, <3>2 DEF ViewerInv, Refreshes
  <2>3. CASE ~Showable(p)
    <3>1. refresh' = NoRefresh
      BY <1>1, <2>3 DEF RefreshRead
    <3> QED BY <2>1, <3>1 DEF ViewerInv, Refreshes, NoRefresh
  <2> QED BY <2>2, <2>3
<1>2. CASE RefreshLands
  <2>1. Top \in DOMAIN pages
    BY <1>2, TopPage DEF RefreshLands
  <2>2. /\ refresh.page \in ShotPage /\ StillTrue(refresh.page, hearts)
        /\ refresh.page.photo = pages[Top].page.photo
        /\ pages' = [pages EXCEPT ![Top] = Reset(pages[Top], refresh.page)]
        /\ UNCHANGED <<ready, linkOk, hearts, onTop, coming>> /\ refresh' = NoRefresh
        /\ slips' \in 0..MaxSlips
    BY <1>2, <2>1 DEF RefreshLands, ViewerInv, ShotsSame
  <2>3. Reset(pages[Top], refresh.page) \in Instance /\ Believes(Reset(pages[Top], refresh.page), hearts)
    BY <2>1, <2>2, PageTyped, ResetBelieves
  <2> QED BY <2>1, <2>2, <2>3, PageMoves
<1> QED BY <1>1, <1>2

LEMMA TapKeeps ==
    ASSUME ViewerInv, onTop, TapOnce \/ \E intent \in BOOLEAN : CommitToggle(intent)
    PROVE  ViewerInv'
<1>1. Top \in DOMAIN pages
  BY TopPage
<1> DEFINE i == pages[Top]
<1>2. i \in Instance /\ Believes(i, hearts)
  BY <1>1, PageTyped
<1>3. ASSUME NEW intent \in BOOLEAN, CommitToggle(intent) PROVE ViewerInv'
  <2>1. Decided(i, intent) \in Instance /\ Believes(Decided(i, intent), hearts)
    BY <1>2, DecidedBelieves
  <2>2. /\ pages' = [pages EXCEPT ![Top] = Decided(i, intent)]
        /\ UNCHANGED <<ready, linkOk, hearts, onTop, coming, refresh>> /\ slips' \in 0..MaxSlips
    BY <1>1, <1>3 DEF CommitToggle, ShotsSame, ViewerInv
  <2> QED BY <1>1, <2>1, <2>2, PageMoves
<1>4. ASSUME NEW j \in Instance, Believes(j, hearts), NEW b \in BOOLEAN
      PROVE  [j EXCEPT !.tapped = b] \in Instance /\ Believes([j EXCEPT !.tapped = b], hearts)
  BY <1>4 DEF Instance, Believes
<1>5. CASE TapOnce
  <2>1. \E j \in Instance : \E b \in BOOLEAN :
          Believes(j, hearts) /\ pages' = [pages EXCEPT ![Top] = [j EXCEPT !.tapped = b]]
    <3>1. Decided(i, TRUE) \in Instance /\ Believes(Decided(i, TRUE), hearts)
      BY <1>2, DecidedBelieves
    <3>2. \/ pages' = [pages EXCEPT ![Top] = [Decided(i, TRUE) EXCEPT !.tapped = FALSE]]
          \/ pages' = [pages EXCEPT ![Top] = [i EXCEPT !.tapped = TRUE]]
      BY <1>1, <1>5 DEF TapOnce
    <3> QED BY <1>2, <3>1, <3>2
  <2>2. UNCHANGED <<ready, linkOk, hearts, onTop, coming, refresh>> /\ slips' \in 0..MaxSlips
    BY <1>5 DEF TapOnce, ShotsSame, ViewerInv
  <2> QED BY <1>1, <1>4, <2>1, <2>2, PageMoves
<1> QED BY <1>3, <1>5

\* A step of the loop of page i that writes no row.
LEMMA LoopKeeps ==
    ASSUME ViewerInv, NEW i \in DOMAIN pages,
           \/ Refuses(i) \/ AnswerLost(i) \/ FlipAnswered(i) \/ FallBack(i)
           \/ DeleteHeart(i) /\ pages[i].page.photo \notin hearts
           \/ AddHeart(i) /\ pages[i].page.photo \notin ready \ hearts
    PROVE  ViewerInv'
<1>1. pages[i] \in Instance /\ Believes(pages[i], hearts)
  BY PageTyped
<1> DEFINE v == pages[i]
<1>2. ASSUME NEW next \in {"insert", "fail"}, v.pc \in {"delete", "insert"},
             pages' = [pages EXCEPT ![i].pc = next],
             UNCHANGED <<ready, linkOk, hearts, onTop, coming, refresh>>, slips' \in 0..MaxSlips
      PROVE  ViewerInv'
  <2> DEFINE j == [v EXCEPT !.pc = next]
  <2>1. j \in Instance /\ Believes(j, hearts)
    BY <1>1, <1>2 DEF Instance, Believes
  <2> QED BY <1>2, <2>1, PageMoves
<1>0. slips' \in 0..MaxSlips
  <2>1. slips \in 0..MaxSlips /\ MaxSlips \in Nat
    BY LightboxAssumption DEF ViewerInv
  <2>2. slips' = slips \/ (slips < MaxSlips /\ slips' = slips + 1)
    BY DEF Refuses, AnswerLost, FlipAnswered, FallBack, DeleteHeart, AddHeart, ShotsSame
  <2> QED BY <2>1, <2>2
<1>3. CASE Refuses(i)
  BY <1>0, <1>2, <1>3 DEF Refuses
<1>4. CASE DeleteHeart(i) /\ v.page.photo \notin hearts
  BY <1>0, <1>2, <1>4 DEF DeleteHeart
<1>5. CASE AddHeart(i) /\ v.page.photo \notin ready \ hearts
  BY <1>0, <1>2, <1>5 DEF AddHeart
<1>6. CASE AnswerLost(i)
  <2> DEFINE j == [v EXCEPT !.pc = "fail", !.res = FALSE, !.page.crossed = TRUE]
  <2>1. j \in Instance
    BY <1>1 DEF Instance, ShotPage
  <2>2. j.page.crossed = TRUE /\ j.pc = "fail" /\ j.asked = v.asked /\ j.desired = v.desired /\ v.pc = "answer"
    BY <1>1, <1>6 DEF Instance, ShotPage, AnswerLost
  <2>3. pages' = [pages EXCEPT ![i] = j] /\ UNCHANGED <<ready, linkOk, hearts, onTop, coming, refresh>>
    BY <1>6 DEF AnswerLost
  <2> HIDE DEF j
  <2>4. Believes(j, hearts)
    BY <1>1, <2>2 DEF Believes
  <2> QED BY <1>0, <2>1, <2>3, <2>4, PageMoves
<1>7. CASE FlipAnswered(i)
  <2>1. GoOn(v) \in Instance /\ Believes(GoOn(v), hearts)
    BY <1>1, <1>7, GoOnBelieves DEF FlipAnswered
  <2>2. pages' = [pages EXCEPT ![i] = GoOn(v)] /\ UNCHANGED <<ready, linkOk, hearts, onTop, coming, refresh>>
    BY <1>7 DEF FlipAnswered, ShotsSame
  <2> QED BY <1>0, <2>1, <2>2, PageMoves
<1>8. CASE FallBack(i)
  <2> DEFINE j == [v EXCEPT !.pc = "idle", !.guard = 0, !.asked = {},
                   !.page.crossed = v.page.crossed \/ v.guard > 0,
                   !.desired = v.confirmed, !.shown = v.confirmed]
  <2>0. 0 \in 0..LoopMax /\ (v.page.crossed \/ v.guard > 0) \in BOOLEAN
    BY LightboxAssumption
  <2>1. j \in Instance
    BY <1>1, <2>0 DEF Instance, ShotPage
  <2>2. /\ j.page.crossed = (v.page.crossed \/ v.guard > 0) /\ j.page.photo = v.page.photo
        /\ j.pc = "idle" /\ j.asked = {} /\ j.shown = v.confirmed /\ j.confirmed = v.confirmed
        /\ v.pc = "fail" /\ v.guard \in Nat
    BY <1>1, <1>8 DEF Instance, ShotPage, FallBack
  <2>3. pages' = [pages EXCEPT ![i] = j] /\ UNCHANGED <<ready, linkOk, hearts, onTop, coming, refresh>>
    BY <1>8 DEF FallBack, ShotsSame
  <2> HIDE DEF j
  <2>4. ~j.page.crossed => ~v.page.crossed /\ ~(v.guard > 0)
    BY <2>2, Zenon
  <2>5. ~(v.guard > 0) => v.guard = 0
    BY <2>2
  <2>6. Believes(j, hearts)
    BY <1>1, <2>2, <2>4, <2>5 DEF Believes
  <2> QED BY <1>0, <2>1, <2>3, <2>6, PageMoves
<1> QED BY <1>3, <1>4, <1>5, <1>6, <1>7, <1>8

\* A write to the row of p, by page i or by nobody: who else read it has been
\* overtaken.
LEMMA WriteKeeps ==
    ASSUME ViewerInv, NEW i, NEW p, NEW new \in Seq(Instance), Len(new) = Len(pages),
           \A n \in DOMAIN pages : n # i => new[n] = pages[n],
           i \in DOMAIN pages => Believes(new[i], hearts'),
           hearts' \ {p} = hearts \ {p},
           ready' \subseteq Shot, hearts' \subseteq Shot, UNCHANGED <<linkOk, onTop, slips>>,
           Crossed(new, i, p)
    PROVE  ViewerInv'
<1>1. DOMAIN new = 1..Len(new) /\ DOMAIN pages = 1..Len(pages) /\ Len(pages) \in Nat
  BY LenProperties DEF ViewerInv
<1>2. ASSUME NEW n \in DOMAIN pages PROVE pages'[n] \in Instance /\ Believes(pages'[n], hearts')
  <2>1. pages'[n] = IF n # i /\ new[n].page.photo = p THEN [new[n] EXCEPT !.page.crossed = TRUE]
                    ELSE new[n]
    BY <1>1 DEF Crossed
  <2>2. CASE n = i
    BY <1>1, <2>1, <2>2
  <2>3. CASE n # i
    <3>1. new[n] = pages[n] /\ pages[n] \in Instance /\ Believes(pages[n], hearts)
      BY <2>3, PageTyped
    <3>2. pages'[n] = IF pages[n].page.photo = p THEN [pages[n] EXCEPT !.page.crossed = TRUE] ELSE pages[n]
      BY <2>1, <2>3, <3>1
    <3>3. CASE pages[n].page.photo = p
      <4>1. /\ [pages[n] EXCEPT !.page.crossed = TRUE] \in Instance
            /\ Believes([pages[n] EXCEPT !.page.crossed = TRUE], hearts')
        BY <3>1, <3>3, OthersCrossed
      <4>2. pages'[n] = [pages[n] EXCEPT !.page.crossed = TRUE]
        BY <3>2, <3>3
      <4> QED BY <4>1, <4>2
    <3>4. pages[n].page.photo # p => Believes(pages[n], hearts')
      BY <3>1, OthersCrossed
    <3> QED BY <3>1, <3>2, <3>3, <3>4
  <2> QED BY <2>2, <2>3
<1>3. pages' = [n \in 1..Len(pages) |-> pages'[n]] /\ DOMAIN pages' = DOMAIN pages
  BY <1>1 DEF Crossed
<1>4. pages' \in Seq(Instance) /\ Len(pages') = Len(pages)
  <2>1. pages' \in [1..Len(pages) -> Instance]
    BY <1>1, <1>2, <1>3
  <2> QED BY <1>1, <2>1, SeqDef, LenProperties
<1>5. ASSUME NEW r \in ShotPage, StillTrue(r, hearts)
      PROVE  LET c == IF r.photo = p THEN [r EXCEPT !.crossed = TRUE] ELSE r
             IN  c \in ShotPage /\ StillTrue(c, hearts')
  <2>1. [r EXCEPT !.crossed = TRUE] \in ShotPage /\ StillTrue([r EXCEPT !.crossed = TRUE], hearts')
    BY DEF ShotPage, StillTrue
  <2>2. r.photo # p => StillTrue(r, hearts')
    BY <1>5 DEF StillTrue
  <2> QED BY <2>1, <2>2
<1>6. coming' # NoPage => coming' \in ShotPage /\ StillTrue(coming', hearts') /\ coming # NoPage
  BY <1>5 DEF ViewerInv, Crossed
<1>7. CASE refresh.pc = "read" /\ refresh.page.photo = p
  <2>1. refresh' = [refresh EXCEPT !.page.crossed = TRUE]
    BY <1>7 DEF Crossed
  <2>2. refresh'.pc = refresh.pc /\ refresh'.page = [refresh.page EXCEPT !.crossed = TRUE]
        /\ refresh' = [pc |-> refresh'.pc, page |-> refresh'.page]
    BY <2>1 DEF ViewerInv, Refreshes
  <2>3. refresh'.page \in ShotPage /\ StillTrue(refresh'.page, hearts')
    BY <1>5, <1>7, <2>2 DEF ViewerInv
  <2>4. refresh' \in Refreshes
    BY <1>7, <2>2, <2>3 DEF Refreshes
  <2> QED BY <1>2, <1>3, <1>4, <1>6, <2>3, <2>4 DEF ViewerInv
<1>8. CASE ~(refresh.pc = "read" /\ refresh.page.photo = p)
  <2>1. refresh' = refresh
    BY <1>8 DEF Crossed
  <2>2. refresh.pc = "read" => refresh.page \in ShotPage /\ StillTrue(refresh.page, hearts')
    BY <1>5, <1>8 DEF ViewerInv
  <2> QED BY <1>2, <1>3, <1>4, <1>6, <2>1, <2>2 DEF ViewerInv
<1> QED BY <1>7, <1>8

LEMMA ServerKeeps ==
    ASSUME ViewerInv,
           \/ \E i \in DOMAIN pages :
                \/ DeleteHeart(i) /\ pages[i].page.photo \in hearts
                \/ AddHeart(i) /\ pages[i].page.photo \in ready \ hearts
           \/ \E p \in Shot : PhotoLeaves(p)
    PROVE  ViewerInv'
<1>1. ASSUME NEW i \in DOMAIN pages, NEW res \in BOOLEAN, NEW p, p = pages[i].page.photo,
             pages[i].pc # "idle", UNCHANGED <<ready, linkOk, onTop, slips>>,
             hearts' = IF res THEN hearts \cup {p} ELSE hearts \ {p},
             Crossed([pages EXCEPT ![i].pc = "answer", ![i].res = res], i, p)
      PROVE  ViewerInv'
  <2> DEFINE v == pages[i]
             j == [v EXCEPT !.pc = "answer", !.res = res]
             new == [pages EXCEPT ![i] = j]
  <2>1. v \in Instance /\ Believes(v, hearts)
    BY PageTyped
  <2>2. j \in Instance
    BY <2>1 DEF Instance
  <2>3. j.page = v.page /\ j.pc = "answer" /\ j.res = res /\ j.asked = v.asked /\ j.desired = v.desired
    BY <2>1 DEF Instance
  <2>4. [pages EXCEPT ![i].pc = "answer", ![i].res = res] = new
    BY <2>1 DEF ViewerInv, Instance
  <2>5. (p \in hearts') = res
    BY <1>1
  <2> HIDE DEF j
  <2>6. Believes(j, hearts')
    BY <1>1, <2>1, <2>3, <2>5 DEF Believes
  <2>7. p \in Shot
    BY <1>1, <2>1 DEF Instance, ShotPage
  <2>8. new \in Seq(Instance) /\ Len(new) = Len(pages) /\ new[i] = j
        /\ \A n \in DOMAIN pages : n # i => new[n] = pages[n]
    BY <2>2, ExceptSeq DEF ViewerInv
  <2>9. ready' \subseteq Shot /\ hearts' \subseteq Shot /\ hearts' \ {p} = hearts \ {p}
    BY <1>1, <2>7 DEF ViewerInv
  <2> HIDE DEF new
  <2> QED BY <1>1, <2>4, <2>6, <2>8, <2>9, WriteKeeps
<1>2. ASSUME NEW i \in DOMAIN pages, DeleteHeart(i), pages[i].page.photo \in hearts PROVE ViewerInv'
  BY <1>1, <1>2 DEF DeleteHeart
<1>3. ASSUME NEW i \in DOMAIN pages, AddHeart(i), pages[i].page.photo \in ready \ hearts PROVE ViewerInv'
  BY <1>1, <1>3 DEF AddHeart
<1>4. ASSUME NEW p \in Shot, PhotoLeaves(p) PROVE ViewerInv'
  <2>1. pages \in Seq(Instance) /\ 0 \notin DOMAIN pages
    BY LenProperties DEF ViewerInv
  <2>2. /\ hearts' = hearts \ {p} /\ ready' = ready \ {p} /\ UNCHANGED <<linkOk, onTop, slips>>
        /\ Crossed(pages, 0, p)
    BY <1>4 DEF PhotoLeaves
  <2>3. ready' \subseteq Shot /\ hearts' \subseteq Shot /\ hearts' \ {p} = hearts \ {p}
    BY <2>2 DEF ViewerInv
  <2> QED BY <2>1, <2>2, <2>3, WriteKeeps
<1> QED BY <1>2, <1>3, <1>4

LEMMA ViewerStep == ViewerInv /\ [LightboxNext]_lightboxVars => ViewerInv'
<1> SUFFICES ASSUME ViewerInv, [LightboxNext]_lightboxVars PROVE ViewerInv'
  OBVIOUS
<1>1. CASE UNCHANGED lightboxVars
  BY <1>1 DEF ViewerInv, lightboxVars
<1>2. CASE OpenShot
  BY <1>2, PushKeeps DEF OpenShot
<1>3. CASE Mount
  BY <1>3, MountKeeps
<1>4. CASE RefreshRead \/ RefreshLands
  BY <1>4, RefreshKeeps
<1>5. \A href : Turn(href) => ViewerInv'
  BY PushKeeps DEF Turn
<1>6. CASE TouchEnd
  BY <1>5, <1>6, LeaveKeeps, TapKeeps DEF TouchEnd
<1>7. CASE onTop /\ (Key \/ Click)
  <2>1. (~pages[Top].shown) \in BOOLEAN
    OBVIOUS
  <2> QED BY <1>5, <1>7, <2>1, LeaveKeeps, TapKeeps DEF Key, Click
<1>8. ASSUME NEW i \in DOMAIN pages,
             \/ Refuses(i) \/ DeleteHeart(i) \/ AddHeart(i)
             \/ AnswerLost(i) \/ FlipAnswered(i) \/ FallBack(i)
      PROVE  ViewerInv'
  BY <1>8, LoopKeeps, ServerKeeps
<1>9. CASE \E p \in Shot : PhotoLeaves(p)
  BY <1>9, ServerKeeps
<1>10. CASE LinkCloses
  BY <1>10 DEF LinkCloses, ViewerInv
<1> QED BY <1>1, <1>2, <1>3, <1>4, <1>6, <1>7, <1>8, <1>9, <1>10 DEF LightboxNext

(* Once the loop of a photo's own page has ended, its heart is what the       *)
(* server has and what the visitor last asked, with the exceptions that       *)
(* HeartEndsAsTapped states, for any photos, pages, taps and refreshes.       *)
THEOREM HeartAlwaysEndsAsTapped == LightboxSpec => [](LightboxTypeOK /\ HeartEndsAsTapped)
<1>1. LightboxInit => ViewerInv
  <2> SUFFICES ASSUME LightboxInit PROVE ViewerInv
    OBVIOUS
  <2>1. pages \in Seq(Instance) /\ Len(pages) = 0 /\ DOMAIN pages = {}
    BY EmptySeq DEF LightboxInit
  <2>2. Len(pages) <= MaxPages /\ slips \in 0..MaxSlips
    BY <2>1, LightboxAssumption DEF LightboxInit
  <2>3. refresh \in Refreshes /\ refresh.pc # "read"
    BY DEF LightboxInit, NoRefresh, Refreshes
  <2> QED BY <2>1, <2>2, <2>3 DEF LightboxInit, ViewerInv
<1>2. ViewerInv => HeartEndsAsTapped
  BY DEF ViewerInv, Believes, HeartEndsAsTapped
<1>3. ViewerInv => LightboxTypeOK
  BY DEF ViewerInv, Refreshes, LightboxTypeOK, Top
<1> QED BY <1>1, <1>2, <1>3, ViewerStep, PTL DEF LightboxSpec

-----------------------------------------------------------------------------
(* Insights.                                                                *)

(* The selections: what one pass over a visitor's hearts leaves, against    *)
(* what SelectionsIn says of them.                                          *)

HeartsIn(v, k, t) ==
    {n \in 1..k : events[n].who = v /\ events[n].kind = "favorite_add" /\ events[n].at > t - Horizon}

\* A heart is the last of its run; the hearts of the run that ends there; its row.
RunPauses(H, n) ==
    LET later == {m \in H : m > n} IN later = {} \/ events[Min(later)].at - events[n].at > BurstWindow
RunTo(H, n) == {m \in H : m <= n /\ \A o \in H : (m <= o /\ o < n) => ~RunPauses(H, o)}
RowTo(v, H, n) == [who |-> v, count |-> Cardinality(RunTo(H, n)), at |-> events[n].at]
RowsIn(v, H) == {RowTo(v, H, n) : n \in {m \in H : RunPauses(H, m)}}

LEMMA SelectionsByVisitor ==
    ASSUME NEW k, NEW t
    PROVE  SelectionsIn(k, t) = UNION {RowsIn(v, HeartsIn(v, k, t)) : v \in Visitor}
BY DEF SelectionsIn, RowsIn, RowTo, RunTo, RunPauses, HeartsIn

\* Where the pass is after the entries up to n, when l is the last heart among
\* them: l and its run are still open, the runs that ended before l are rows.
Passed(v, H, acc, n) ==
    \/ acc = NothingGrouped /\ \A m \in H : m > n
    \/ \E l \in H :
         /\ l <= n /\ \A m \in H : m <= l \/ m > n
         /\ acc = [rows |-> acc.rows, run |-> acc.run]
         /\ acc.run \in Seq(Event) /\ Len(acc.run) > 0 /\ Last(acc.run) = events[l]
         /\ Len(acc.run) = Cardinality(RunTo(H, l))
         /\ acc.rows = {RowTo(v, H, m) : m \in {o \in H : o < l /\ RunPauses(H, o)}}

LEMMA RunsAreFinite ==
    ASSUME NEW L \in Nat, NEW H, H \subseteq 1..L, NEW n
    PROVE  IsFiniteSet(RunTo(H, n)) /\ Cardinality(RunTo(H, n)) \in Nat /\ Cardinality(RunTo(H, n)) <= L
<1>1. IsFiniteSet(1..L) /\ Cardinality(1..L) = L
  BY FS_Interval
<1>2. RunTo(H, n) \in SUBSET (1..L)
  BY DEF RunTo
<1> QED BY <1>1, <1>2, FS_Subset, FS_CardinalityType

\* The next heart is the least of the later ones.
LEMMA NextHeart ==
    ASSUME NEW L \in Nat, NEW H, H \subseteq 1..L, NEW l \in H, NEW n \in H, l < n, \A m \in H : m <= l \/ n <= m
    PROVE  RunPauses(H, l) <=> events[n].at - events[l].at > BurstWindow
<1> DEFINE later == {m \in H : m > l}
<1>0. \A m \in H : m \in Nat
  OBVIOUS
<1>1. n \in later /\ (\A m \in later : n <= m) /\ later \subseteq Nat
  <2>1. n > l /\ n \in later
    BY <1>0 DEF later
  <2>2. ASSUME NEW m \in later PROVE n <= m /\ m \in Nat
    <3>1. m \in H /\ m > l /\ m \in Nat /\ l \in Nat
      BY <1>0, <2>2 DEF later
    <3>2. ~(m <= l)
      BY <3>1
    <3> HIDE DEF later
    <3> QED BY <3>1, <3>2
  <2> HIDE DEF later
  <2> QED BY <2>1, <2>2
<1> HIDE DEF later
<1>2. Min(later) = n
  <2>1. Min(later) \in later /\ \A m \in later : Min(later) <= m
    BY <1>1 DEF Min
  <2>2. Min(later) <= n /\ n <= Min(later) /\ Min(later) \in Nat /\ n \in Nat
    BY <1>1, <2>1
  <2> QED BY <2>2
<1>3. later # {}
  BY <1>1
<1> QED BY <1>2, <1>3 DEF RunPauses, later

\* The first heart of a run is one alone; the next goes on with it.
LEMMA RunStarts ==
    ASSUME NEW L \in Nat, NEW H, H \subseteq 1..L, NEW n \in H,
           \A m \in H : m < n => \E o \in H : m <= o /\ o < n /\ RunPauses(H, o)
    PROVE  Cardinality(RunTo(H, n)) = 1
<1>0. \A m \in H : m \in Nat
  OBVIOUS
<1>1. ASSUME NEW m \in RunTo(H, n), m # n PROVE FALSE
  <2>1. m \in H /\ m < n
    BY <1>0, <1>1 DEF RunTo
  <2> QED BY <1>1, <2>1 DEF RunTo
<1>2. n \in RunTo(H, n)
  <2>1. \A o \in H : ~(n <= o /\ o < n)
    BY <1>0
  <2> QED BY <1>0, <2>1 DEF RunTo
<1>3. RunTo(H, n) = {n}
  BY <1>1, <1>2
<1> QED BY <1>3, FS_Singleton

LEMMA RunGoesOn ==
    ASSUME NEW L \in Nat, NEW H, H \subseteq 1..L, NEW l \in H, NEW n \in H, l < n, \A m \in H : m <= l \/ n <= m,
           ~RunPauses(H, l)
    PROVE  Cardinality(RunTo(H, n)) = Cardinality(RunTo(H, l)) + 1
<1>0. \A m \in H : m \in Nat
  OBVIOUS
<1>1. ASSUME NEW m \in RunTo(H, n), m # n PROVE m \in RunTo(H, l)
  <2>1. m \in H /\ m <= n /\ \A o \in H : (m <= o /\ o < n) => ~RunPauses(H, o)
    BY <1>1 DEF RunTo
  <2>2. m <= l /\ \A o \in H : o < l => o < n
    BY <1>0, <1>1, <2>1
  <2> QED BY <2>1, <2>2 DEF RunTo
<1>2. ASSUME NEW m \in RunTo(H, l) PROVE m \in RunTo(H, n)
  <2>1. m \in H /\ m <= l /\ \A o \in H : (m <= o /\ o < l) => ~RunPauses(H, o)
    BY DEF RunTo
  <2>2. m <= n /\ \A o \in H : o < n => o < l \/ o = l
    BY <1>0, <2>1
  <2> QED BY <2>1, <2>2 DEF RunTo
<1>3. n \in RunTo(H, n)
  <2>1. n <= n /\ \A o \in H : ~(n <= o /\ o < n)
    BY <1>0
  <2> QED BY <2>1 DEF RunTo
<1>4. n \notin RunTo(H, l)
  <2>1. ~(n <= l)
    BY <1>0
  <2> QED BY <2>1 DEF RunTo
<1>5. RunTo(H, n) = RunTo(H, l) \cup {n}
  BY <1>1, <1>2, <1>3
<1> QED BY <1>4, <1>5, RunsAreFinite, FS_AddElement

LEMMA HeartPassed ==
    ASSUME NEW L \in Nat, NEW v, NEW H, H \subseteq 1..L, events \in Seq(Event), Len(events) = L,
           \A m \in H : events[m].who = v,
           NEW n \in H, NEW acc, Passed(v, H, acc, n - 1)
    PROVE  Passed(v, H, Grouped(acc, events[n]), n)
<1>1. n \in Nat /\ n - 1 \in Nat /\ n <= L /\ events[n] \in Event /\ (\A m \in H : m \in Nat /\ events[m] \in Event)
  BY LenProperties
<1> DEFINE e == events[n]
           one == <<e>>
<1>2. one \in Seq(Event) /\ Len(one) = 1 /\ Last(one) = e /\ one # <<>>
  BY <1>1 DEF Last
<1>3. BurstWindow \in Nat /\ \A m \in H : events[m].at \in Int
  <2>1. \A x \in Event : x.at \in Int
    BY DEF Event, Tock
  <2>2. BurstWindow \in Nat
    BY InsightAssumption
  <2> QED BY <1>1, <2>1, <2>2
<1>4. CASE acc = NothingGrouped /\ \A m \in H : m > n - 1
  <2>1. \A m \in H : n <= m
    BY <1>1, <1>4
  <2>2. Grouped(acc, e) = [rows |-> {}, run |-> one]
    BY <1>4 DEF Grouped, Continues, Flush, NothingGrouped
  <2>3. \A m \in H : ~(m < n)
    BY <1>1, <2>1
  <2>4. Cardinality(RunTo(H, n)) = 1 /\ {o \in H : o < n /\ RunPauses(H, o)} = {}
    BY <2>3, RunStarts
  <2>5. {} = {RowTo(v, H, m) : m \in {o \in H : o < n /\ RunPauses(H, o)}}
    BY <2>4
  <2> HIDE DEF one
  <2>6. \A m \in H : m <= n \/ m > n
    BY <1>1
  <2>7. Len(one) > 0 /\ Len(one) = Cardinality(RunTo(H, n)) /\ n <= n
    BY <1>1, <1>2, <2>4
  <2> QED BY <1>2, <2>2, <2>5, <2>6, <2>7 DEF Passed
<1>5. ASSUME NEW l \in H, l <= n - 1, \A m \in H : m <= l \/ m > n - 1,
             acc = [rows |-> acc.rows, run |-> acc.run],
             acc.run \in Seq(Event), Len(acc.run) > 0, Last(acc.run) = events[l],
             Len(acc.run) = Cardinality(RunTo(H, l)),
             acc.rows = {RowTo(v, H, m) : m \in {o \in H : o < l /\ RunPauses(H, o)}}
      PROVE  Passed(v, H, Grouped(acc, e), n)
  <2>1. l < n /\ (\A m \in H : m <= l \/ n <= m) /\ (\A m \in H : m <= n \/ m > n)
    BY <1>1, <1>5
  <2>2. acc.run # <<>>
    BY <1>5
  <2>6. ASSUME NEW o \in H PROVE (o < n) <=> (o < l \/ o = l)
    <3>1. o \in Nat /\ l \in Nat /\ n \in Nat
      BY <1>1
    <3>2. (o <= l \/ n <= o) /\ l < n
      BY <2>1
    <3> QED BY <3>1, <3>2
  <2>3. RunPauses(H, l) <=> ~Continues(acc.run, e)
    <3>1. RunPauses(H, l) <=> e.at - events[l].at > BurstWindow
      BY <2>1, NextHeart
    <3>2. Continues(acc.run, e) <=> e.at - events[l].at <= BurstWindow
      BY <1>5, <2>2 DEF Continues
    <3>3. e.at \in Int /\ events[l].at \in Int /\ BurstWindow \in Int
      BY <1>3
    <3> QED BY <3>1, <3>2, <3>3
  <2>4. CASE Continues(acc.run, e)
    <3> DEFINE more == Append(acc.run, e)
    <3>1. Grouped(acc, e) = [rows |-> acc.rows, run |-> more]
      BY <2>4 DEF Grouped
    <3>2. more \in Seq(Event) /\ Len(more) = Len(acc.run) + 1 /\ Last(more) = e
      BY <1>1, <1>5, AppendProperties DEF Last
    <3>3. Cardinality(RunTo(H, n)) = Cardinality(RunTo(H, l)) + 1
      BY <2>1, <2>3, <2>4, RunGoesOn
    <3>4. {o \in H : o < n /\ RunPauses(H, o)} = {o \in H : o < l /\ RunPauses(H, o)}
      BY <2>6, <2>3, <2>4
    <3>5. acc.rows = {RowTo(v, H, m) : m \in {o \in H : o < n /\ RunPauses(H, o)}}
      BY <1>5, <3>4
    <3> HIDE DEF more
    <3>6. Len(more) > 0 /\ Len(more) = Cardinality(RunTo(H, n)) /\ n <= n
      <4>1. Len(acc.run) \in Nat
        BY <1>5, LenProperties
      <4> QED BY <1>1, <1>5, <3>2, <3>3, <4>1
    <3> QED BY <2>1, <3>1, <3>2, <3>5, <3>6 DEF Passed
  <2>5. CASE ~Continues(acc.run, e)
    <3> DEFINE rows == acc.rows \cup {RowTo(v, H, l)}
    <3>1. Flush(acc.run) = {RowTo(v, H, l)}
      BY <1>5, <2>2 DEF Flush, RowTo
    <3>2. Grouped(acc, e) = [rows |-> rows, run |-> one]
      BY <2>5, <3>1 DEF Grouped
    <3>3. Cardinality(RunTo(H, n)) = 1
      <4>1. \A m \in H : m < n => m <= l
        BY <1>1, <2>1
      <4> QED BY <2>1, <2>3, <2>5, <4>1, RunStarts
    <3>4. {o \in H : o < n /\ RunPauses(H, o)} = {o \in H : o < l /\ RunPauses(H, o)} \cup {l}
      BY <2>6, <2>3, <2>5
    <3>5. rows = {RowTo(v, H, m) : m \in {o \in H : o < n /\ RunPauses(H, o)}}
      BY <1>5, <3>4
    <3> HIDE DEF rows, one
    <3>6. Len(one) > 0 /\ Len(one) = Cardinality(RunTo(H, n)) /\ n <= n
      BY <1>1, <1>2, <3>3
    <3> QED BY <1>2, <2>1, <3>2, <3>5, <3>6 DEF Passed
  <2> QED BY <2>4, <2>5
<1> QED BY <1>4, <1>5 DEF Passed

\* One pass leaves the runs that a pause ends.
LEMMA RunsAreRuns ==
    ASSUME events \in Seq(Event), NEW v, NEW t
    PROVE  Runs(v, t) = RowsIn(v, HeartsIn(v, Len(events), t))
<1> DEFINE L == Len(events)
           H == HeartsOf(v, t)
           One(a, n) == IF n \in H THEN Grouped(a, events[n]) ELSE a
           Body(f, k) == [n \in 0..k |-> IF n = 0 THEN NothingGrouped ELSE One(f[n - 1], n)]
<1>1. L \in Nat /\ DOMAIN events = 1..L
  BY LenProperties
<1>2. H = HeartsIn(v, L, t) /\ H \subseteq 1..L /\ \A m \in H : events[m].who = v
  BY <1>1 DEF HeartsOf, WithinHorizon, HeartsIn
<1>3. \E f : f = Body(f, L)
  <2> HIDE DEF One, H, L
  <2> DEFINE None == {k \in 0..L : ~\E f : f = Body(f, k)}
  <2>1. ASSUME None # {} PROVE FALSE
    <3>1. PICK k \in None : \A j \in None : k <= j
      <4>1. None \subseteq Nat
        BY <1>1
      <4> HIDE DEF None
      <4> QED BY <2>1, <4>1, NatMin
    <3>2. k \in Nat /\ k <= L
      BY <1>1
    <3>3. CASE k = 0
      <4> DEFINE f == [n \in 0..0 |-> NothingGrouped]
      <4>1. \A n \in 0..0 : n = 0
        OBVIOUS
      <4>2. f = Body(f, 0)
        BY <4>1
      <4> QED BY <3>3, <4>2
    <3>4. CASE k # 0
      <4>1. k - 1 \in 0..L /\ ~(k <= k - 1)
        BY <1>1, <3>2, <3>4
      <4>2. PICK g : g = Body(g, k - 1)
        BY <3>1, <4>1
      <4> DEFINE f == [n \in 0..k |-> IF n = k THEN One(g[k - 1], k) ELSE g[n]]
      <4>3. ASSUME NEW n \in 0..k PROVE f[n] = IF n = 0 THEN NothingGrouped ELSE One(f[n - 1], n)
        <5>1. CASE n = k
          <6>1. k - 1 \in 0..k /\ k - 1 # k
            BY <3>2, <3>4
          <6>2. f[k - 1] = g[k - 1]
            BY <6>1
          <6> QED BY <3>4, <5>1, <6>2
        <5>2. CASE n # k
          <6>1. n \in 0..(k - 1) /\ n \in Int
            BY <3>2, <5>2
          <6>2. f[n] = g[n]
            BY <5>2
          <6>3. g[n] = IF n = 0 THEN NothingGrouped ELSE One(g[n - 1], n)
            BY <4>2, <6>1
          <6>4. n # 0 => n - 1 \in 0..k /\ n - 1 # k
            BY <3>2, <6>1
          <6>5. n # 0 => f[n - 1] = g[n - 1]
            BY <6>4
          <6> QED BY <6>2, <6>3, <6>5
        <5> QED BY <5>1, <5>2
      <4>4. f = [n \in 0..k |-> f[n]]
        OBVIOUS
      <4> HIDE DEF f
      <4>5. f = Body(f, k)
        BY <4>3, <4>4
      <4> QED BY <4>5
    <3> QED BY <3>3, <3>4
  <2>2. None = {}
    BY <2>1
  <2>3. L \in 0..L
    BY <1>1
  <2> QED BY <2>2, <2>3
<1> DEFINE pass == CHOOSE f : f = Body(f, L)
<1>4. Runs(v, t) = pass[L].rows \cup Flush(pass[L].run)
  BY DEF Runs
<1>5. pass = Body(pass, L)
  <2> HIDE DEF One, H, L
  <2> QED BY <1>3
<1> HIDE DEF pass
<1>6. \A n \in 0..L : Passed(v, H, pass[n], n)
  <2> HIDE DEF L, H
  <2> DEFINE Wrong == {n \in 0..L : ~Passed(v, H, pass[n], n)}
  <2>1. ASSUME Wrong # {} PROVE FALSE
    <3>1. PICK k \in Wrong : \A j \in Wrong : k <= j
      <4>1. Wrong \subseteq Nat
        BY <1>1
      <4> HIDE DEF Wrong
      <4> QED BY <2>1, <4>1, NatMin
    <3>2. k \in Nat /\ k \in 0..L
      BY <1>1
    <3>3. CASE k = 0
      <4>1. pass[0] = NothingGrouped
        <5> HIDE DEF One
        <5> QED BY <1>5, <3>2, <3>3
      <4>2. \A m \in H : m > 0
        BY <1>2
      <4> QED BY <3>3, <4>1, <4>2 DEF Passed
    <3>4. CASE k # 0
      <4>1. k - 1 \in 0..L /\ ~(k <= k - 1)
        BY <1>1, <3>2, <3>4
      <4>2. Passed(v, H, pass[k - 1], k - 1)
        BY <3>1, <4>1
      <4>3. pass[k] = One(pass[k - 1], k)
        <5> HIDE DEF One
        <5> QED BY <1>5, <3>2, <3>4
      <4>4. CASE k \in H
        <5>1. pass[k] = Grouped(pass[k - 1], events[k])
          BY <4>3, <4>4
        <5>2. Passed(v, H, Grouped(pass[k - 1], events[k]), k)
          BY <1>1, <1>2, <4>2, <4>4, HeartPassed DEF L
        <5> QED BY <5>1, <5>2
      <4>5. CASE k \notin H
        <5>1. pass[k] = pass[k - 1]
          BY <4>3, <4>5
        <5>2. \A m \in H : m \in Nat /\ m # k
          BY <1>2, <4>5
        <5>3. \A m \in H : m > k - 1 => m > k
          BY <3>2, <5>2
        <5>4. \A m \in H : m <= k - 1 => m <= k
          BY <3>2, <5>2
        <5> QED BY <4>2, <5>1, <5>3, <5>4 DEF Passed
      <4> QED BY <4>4, <4>5
    <3> QED BY <3>3, <3>4
  <2> QED BY <2>1
<1>7. Passed(v, H, pass[L], L)
  BY <1>1, <1>6
<1> HIDE DEF L, H
<1>8. \A m \in H : m \in Nat /\ m <= L
  BY <1>1, <1>2
<1>9. CASE pass[L] = NothingGrouped /\ \A m \in H : m > L
  <2>1. H = {}
    BY <1>1, <1>8, <1>9
  <2>2. RowsIn(v, H) = {}
    BY <2>1 DEF RowsIn
  <2> QED BY <1>2, <1>4, <1>9, <2>2 DEF NothingGrouped, Flush, L
<1>10. ASSUME NEW l \in H, \A m \in H : m <= l \/ m > L,
              pass[L].run \in Seq(Event), Len(pass[L].run) > 0, Last(pass[L].run) = events[l],
              Len(pass[L].run) = Cardinality(RunTo(H, l)),
              pass[L].rows = {RowTo(v, H, m) : m \in {o \in H : o < l /\ RunPauses(H, o)}}
       PROVE  Runs(v, t) = RowsIn(v, H)
  <2>1. \A m \in H : m <= l /\ m \in Nat
    BY <1>1, <1>8, <1>10
  <2>2. RunPauses(H, l)
    <3>1. {m \in H : m > l} = {}
      BY <2>1
    <3> QED BY <3>1 DEF RunPauses
  <2>3. Flush(pass[L].run) = {RowTo(v, H, l)}
    <3>1. pass[L].run # <<>>
      BY <1>10
    <3> QED BY <1>2, <1>10, <3>1 DEF Flush, RowTo
  <2>4. {m \in H : RunPauses(H, m)} = {o \in H : o < l /\ RunPauses(H, o)} \cup {l}
    BY <2>1, <2>2
  <2> QED BY <1>4, <1>10, <2>3, <2>4 DEF RowsIn
<1> QED BY <1>2, <1>7, <1>9, <1>10 DEF Passed, L

LEMMA LeastIn == ASSUME NEW S, S \subseteq Nat, S # {} PROVE Min(S) \in S /\ \A m \in S : Min(S) <= m
<1>1. \E n \in S : \A m \in S : n <= m
  BY NatMin
<1> QED BY <1>1 DEF Min

\* What the log had is still said of it when it has grown.
LEMMA SelectionsKept ==
    ASSUME NEW k \in Nat, NEW t, \A n \in 1..k : events'[n] = events[n]
    PROVE  SelectionsIn(k, t)' = SelectionsIn(k, t)
<1>1. \A v : HeartsIn(v, k, t)' = HeartsIn(v, k, t)
  BY DEF HeartsIn
<1>2. ASSUME NEW H, H \subseteq 1..k, NEW n \in H PROVE RunPauses(H, n)' <=> RunPauses(H, n)
  <2> DEFINE later == {m \in H : m > n}
  <2>1. CASE later = {}
    BY <2>1 DEF RunPauses
  <2>2. CASE later # {}
    <3>1. later \subseteq Nat /\ later \subseteq 1..k
      <4>1. \A m \in 1..k : m \in Nat
        OBVIOUS
      <4>2. later \subseteq H
        OBVIOUS
      <4> HIDE DEF later
      <4> QED BY <1>2, <4>1, <4>2
    <3> HIDE DEF later
    <3>2. Min(later) \in 1..k /\ n \in 1..k
      BY <1>2, <2>2, <3>1, LeastIn
    <3>3. events'[Min(later)] = events[Min(later)] /\ events'[n] = events[n]
      BY <3>2
    <3> QED BY <3>3 DEF RunPauses, later
  <2> QED BY <2>1, <2>2
<1>3. ASSUME NEW v, NEW H, H \subseteq 1..k, NEW n \in H PROVE RowTo(v, H, n)' = RowTo(v, H, n)
  <2>1. RunTo(H, n)' = RunTo(H, n)
    BY <1>2, <1>3 DEF RunTo
  <2> QED BY <1>3, <2>1 DEF RowTo
<1>4. ASSUME NEW v, NEW H, H \subseteq 1..k PROVE RowsIn(v, H)' = RowsIn(v, H)
  <2>1. {m \in H : RunPauses(H, m)}' = {m \in H : RunPauses(H, m)}
    BY <1>2, <1>4
  <2> QED BY <1>3, <1>4, <2>1 DEF RowsIn
<1>5. \A v : RowsIn(v, HeartsIn(v, k, t))' = RowsIn(v, HeartsIn(v, k, t))
  <2> TAKE v
  <2>1. PICK H : H = HeartsIn(v, k, t)
    OBVIOUS
  <2>2. H \subseteq 1..k
    BY <2>1 DEF HeartsIn
  <2>3. H = HeartsIn(v, k, t)'
    BY <1>1, <2>1
  <2>4. RowsIn(v, HeartsIn(v, k, t))' = RowsIn(v, H)'
    BY <2>3 DEF RowsIn, RowTo, RunTo, RunPauses
  <2>5. RowsIn(v, H)' = RowsIn(v, H)
    BY <1>4, <2>2
  <2> QED BY <2>1, <2>4, <2>5
<1>6. SelectionsIn(k, t)' = UNION {RowsIn(v, HeartsIn(v, k, t))' : v \in Visitor}
  BY DEF SelectionsIn, RowsIn, RowTo, RunTo, RunPauses, HeartsIn
<1> QED BY <1>5, <1>6, SelectionsByVisitor

\* There are no more of them than hearts.
LEMMA SelectionsTyped ==
    ASSUME events \in Seq(Event), Len(events) <= MaxEvents, MaxEvents \in Nat, NEW t
    PROVE  IsFiniteSet(SelectionsIn(Len(events), t)) /\ SelectionsIn(Len(events), t) \subseteq Selection
<1> DEFINE L == Len(events)
           Hearts(v) == HeartsIn(v, L, t)
           row == [n \in 1..L |-> RowTo(events[n].who, Hearts(events[n].who), n)]
           image == {row[n] : n \in 1..L}
<1>1. L \in Nat /\ DOMAIN events = 1..L /\ \A n \in 1..L : events[n] \in Event
  BY LenProperties
<1>2. \A v : Hearts(v) \subseteq 1..L /\ \A n \in Hearts(v) : events[n].who = v
  BY DEF HeartsIn
<1> HIDE DEF L, Hearts
<1>3. IsFiniteSet(image)
  <2>1. row \in Surjection(1..L, image)
    BY DEF Surjection
  <2>2. IsFiniteSet(1..L)
    BY <1>1, FS_Interval
  <2> HIDE DEF row, image
  <2> QED BY <2>1, <2>2, FS_Surjection
<1>4. ASSUME NEW v, NEW n \in Hearts(v) PROVE RowTo(v, Hearts(v), n) \in image
  <2>1. events[n].who = v /\ n \in 1..L
    BY <1>2, <1>4
  <2>2. row[n] = RowTo(v, Hearts(v), n)
    BY <2>1
  <2> QED BY <2>1, <2>2
<1>5. ASSUME NEW v \in Visitor, NEW n \in Hearts(v) PROVE RowTo(v, Hearts(v), n) \in Selection
  <2> DEFINE run == RunTo(Hearts(v), n)
  <2>1. IsFiniteSet(run) /\ Cardinality(run) \in Nat /\ Cardinality(run) <= L
    BY <1>1, <1>2, RunsAreFinite
  <2>2. n \in run
    <3>1. \A m \in Hearts(v) : m \in Int
      BY <1>1, <1>2
    <3> QED BY <1>5, <3>1 DEF RunTo
  <2> HIDE DEF run
  <2>3. Cardinality(run) # 0
    BY <2>1, <2>2, FS_EmptySet
  <2>4. Cardinality(run) \in 1..MaxEvents
    BY <1>1, <2>1, <2>3 DEF L
  <2>5. events[n].at \in Tock
    BY <1>1, <1>2, <1>5 DEF Event
  <2> QED BY <2>4, <2>5 DEF RowTo, run, Selection
<1>6. SelectionsIn(L, t) = UNION {RowsIn(v, Hearts(v)) : v \in Visitor}
  BY SelectionsByVisitor DEF Hearts
<1>7. SelectionsIn(L, t) \in SUBSET image /\ SelectionsIn(L, t) \subseteq Selection
  BY <1>4, <1>5, <1>6 DEF RowsIn
<1> QED BY <1>3, <1>7, FS_Subset DEF L

\* What SelectionsAreNewest says of the rows.
NewestOf(rows, all) ==
    /\ Range(rows) \subseteq all
    /\ Len(rows) = Cardinality(Range(rows))
    /\ Len(rows) = IF Cardinality(all) > Shown THEN Shown ELSE Cardinality(all)
    /\ \A x \in all \ Range(rows) : \A y \in Range(rows) : x.at <= y.at

\* The first of a sorted list are the newest.
LEMMA FirstAreNewest ==
    ASSUME NEW all, IsFiniteSet(all), all \subseteq Selection, Shown \in Nat,
           NEW q \in SetToSeqs(all), \A i, j \in DOMAIN q : i < j => q[i].at >= q[j].at
    PROVE  LET rows == SubSeq(q, 1, IF Len(q) > Shown THEN Shown ELSE Len(q))
           IN  rows \in Seq(Selection) /\ NewestOf(rows, all)
<1> DEFINE n == Cardinality(all)
           k == IF Len(q) > Shown THEN Shown ELSE Len(q)
           rows == SubSeq(q, 1, k)
<1>1. n \in Nat
  BY FS_CardinalityType
<1>2. q \in [1..n -> all] /\ \A i, j \in 1..n : i # j => q[i] # q[j]
  BY DEF SetToSeqs
<1> HIDE DEF n
<1>3. q \in Seq(all) /\ Len(q) = n /\ DOMAIN q = 1..n
  BY <1>1, <1>2
<1>4. k \in Nat /\ k <= n /\ k = IF n > Shown THEN Shown ELSE n
  BY <1>1, <1>3
<1> HIDE DEF k
<1>5. rows \in Seq(all) /\ Len(rows) = k /\ \A i \in 1..k : rows[i] = q[i]
  <2>1. \A i \in 1..k : q[i] \in all
    BY <1>1, <1>2, <1>4
  <2>2. rows \in Seq(all) /\ Len(rows) = (IF 1 <= k THEN k - 1 + 1 ELSE 0) /\ \A i \in 1..(k - 1 + 1) : rows[i] = q[1 + i - 1]
    BY <1>4, <2>1, SubSeqProperties
  <2>3. \A i \in 1..k : 1 + i - 1 = i /\ i \in 1..(k - 1 + 1)
    BY <1>4
  <2> HIDE DEF rows
  <2> QED BY <1>4, <2>2, <2>3
<1> HIDE DEF rows
<1>6. rows \in [1..k -> all] /\ DOMAIN rows = 1..k
  BY <1>5, LenProperties
<1>7. Range(rows) = {rows[i] : i \in 1..k}
  BY <1>6 DEF Range
<1>8. IsFiniteSet(1..k) /\ Cardinality(1..k) = k /\ IsFiniteSet(1..n) /\ Cardinality(1..n) = n
  BY <1>1, <1>4, FS_Interval
<1>9. Cardinality(Range(rows)) = k
  <2>1. rows \in Surjection(1..k, Range(rows))
    BY <1>6, <1>7 DEF Surjection
  <2>2. \A i, j \in 1..k : i # j => rows[i] # rows[j]
    BY <1>1, <1>2, <1>4, <1>5
  <2>3. rows \in Injection(1..k, Range(rows))
    BY <1>6, <1>7, <2>2 DEF Injection, IsInjective
  <2> QED BY <1>8, <2>1, <2>3, FS_Surjection
<1>10. \A x \in all : \E j \in 1..n : x = q[j]
  <2> DEFINE image == {q[i] : i \in 1..n}
  <2>1. q \in Surjection(1..n, image)
    BY <1>2 DEF Surjection
  <2>2. q \in Injection(1..n, image)
    BY <1>2 DEF Injection, IsInjective
  <2>3. image \in SUBSET all
    BY <1>2
  <2> HIDE DEF image
  <2>4. Cardinality(image) = n
    BY <1>8, <2>1, <2>2, FS_Surjection
  <2>5. image = all
    BY <2>3, <2>4, FS_Subset DEF n
  <2> QED BY <2>5 DEF image
<1>11. ASSUME NEW x \in all \ Range(rows), NEW y \in Range(rows) PROVE x.at <= y.at
  <2>1. PICK j \in 1..n : x = q[j]
    BY <1>10
  <2>2. PICK i \in 1..k : y = q[i]
    BY <1>5, <1>7
  <2>3. j \notin 1..k
    BY <1>5, <1>7, <1>11, <2>1
  <2>4. i < j /\ i \in 1..n
    BY <1>1, <1>4, <2>3
  <2>5. q[i].at >= q[j].at
    BY <1>3, <2>4
  <2>6. x.at \in Int /\ y.at \in Int
    <3>1. \A z \in Selection : z.at \in Int
      BY DEF Selection, Tock
    <3>2. y \in all
      BY <1>2, <2>2, <2>4
    <3> QED BY <3>1, <3>2
  <2> QED BY <2>1, <2>2, <2>5, <2>6
<1>12. NewestOf(rows, all)
  BY <1>4, <1>5, <1>6, <1>7, <1>9, <1>11 DEF NewestOf, n
<1> QED BY <1>5, <1>12 DEF rows, k

\* What GroupSelections may list is the newest of the log it reads.
LEMMA SelectionsNewest ==
    ASSUME events \in Seq(Event), Len(events) <= MaxEvents, MaxEvents \in Nat, Shown \in Nat,
           NEW t, NEW rows \in Selections(t)
    PROVE  rows \in Seq(Selection) /\ NewestOf(rows, SelectionsIn(Len(events), t))
<1> DEFINE all == UNION {Runs(v, t) : v \in Visitor}
<1>1. all = SelectionsIn(Len(events), t)
  <2>1. \A v : Runs(v, t) = RowsIn(v, HeartsIn(v, Len(events), t))
    BY RunsAreRuns
  <2> QED BY <2>1, SelectionsByVisitor
<1>2. IsFiniteSet(all) /\ all \subseteq Selection
  BY <1>1, SelectionsTyped
<1>3. PICK q \in SetToSeqs(all) :
         /\ \A i, j \in DOMAIN q : i < j => q[i].at >= q[j].at
         /\ rows = SubSeq(q, 1, IF Len(q) > Shown THEN Shown ELSE Len(q))
  BY DEF Selections
<1> HIDE DEF all
<1> QED BY <1>1, <1>2, <1>3, FirstAreNewest

\* The log when its first s entries were there: later ones are not older than
\* the moment t.
Since(log, s, t) ==
    /\ s \in Nat /\ s <= Len(log)
    /\ \A n \in DOMAIN log : n > s => log[n].at >= t

\* The page views of the first s entries in the window of a chart at t.
Charted(log, s, t) == {n \in 1..s : log[n].at > t - ChartDays * DayLength /\ log[n].kind = "page_view"}
BarsOf(log, s, t) ==
    [d \in {DayOf(log[n].at) : n \in Charted(log, s, t)} |->
       Cardinality({n \in Charted(log, s, t) : DayOf(log[n].at) = d})]

\* The rows of an entry are the newest of the log that was read for them.
RowsOK(value) ==
    /\ value.rows \in Seq(Selection) /\ value.read \in Tock
    /\ value.rowsSeen \in Nat /\ value.rowsSeen <= Len(events)
    /\ NewestOf(value.rows, SelectionsIn(value.rowsSeen, value.read))

LogOK ==
    /\ tock \in Tock /\ tock \in Nat /\ events \in Seq(Event) /\ Len(events) <= MaxEvents
    /\ \A n \in DOMAIN events : events[n].at \in Nat /\ events[n].at <= tock

SummaryOK ==
    /\ summary = [pc |-> summary.pc, began |-> summary.began, value |-> summary.value]
    /\ summary.value = [views |-> summary.value.views, seen |-> summary.value.seen,
                        rows |-> summary.value.rows, read |-> summary.value.read,
                        rowsSeen |-> summary.value.rowsSeen]
    /\ summary.pc # "idle" =>
         /\ summary.began \in Nat /\ summary.began <= tock /\ tock <= summary.began + SlowSummary
         /\ Since(events, summary.value.seen, summary.began)
    /\ summary.pc \in {"idle", "counted", "grouped"} /\ summary.began \in Tock
    /\ summary.value.views \in Nat /\ summary.value.seen \in Nat
    /\ summary.pc # "grouped" =>
         summary.value.rows = <<>> /\ summary.value.read = 0 /\ summary.value.rowsSeen = 0
    /\ summary.pc = "grouped" => RowsOK(summary.value)

CachedOK ==
    /\ cached.at \in Int /\ cached.at <= tock
    /\ cached.at >= 0 => Since(events, cached.value.seen, cached.at - SlowSummary)
    /\ cached \in [at : Tock \cup {-1}, value : Summary]
    /\ cached.at >= 0 => RowsOK(cached.value)

TrendOK ==
    /\ trend = [pc |-> trend.pc, seen |-> trend.seen, counts |-> trend.counts, points |-> trend.points]
    /\ trend.pc \in {"idle", "queried", "drawn"} /\ trend.seen \in Nat
    /\ trend.pc # "idle" => trend.seen \in Nat /\ trend.seen <= Len(events)
    /\ trend.pc = "queried" =>
         \E t \in Nat : t <= tock /\ trend.counts = BarsOf(events, trend.seen, t)
    /\ BarsAreWholeDays

InsightInv == LogOK /\ SummaryOK /\ CachedOK /\ TrendOK

LEMMA InsightNumbers ==
    /\ CacheLife \in Nat /\ SlowSummary \in Nat /\ Horizon \in Nat /\ LastTock \in Nat
    /\ DayLength \in Nat /\ DayLength > 0 /\ ChartDays \in Nat /\ ChartDays > 0
BY InsightAssumption

LEMMA MomentsRead == 0 \in Tock /\ Tock \subseteq Nat /\ BurstWindow \in Nat /\ Shown \in Nat /\ MaxEvents \in Nat
BY InsightAssumption DEF Tock

\* The distinct viewers are no more than the events.
LEMMA ViewersCounted ==
    ASSUME events \in Seq(Event), NEW M, M \subseteq DOMAIN events
    PROVE  Cardinality({events[n].who : n \in M}) \in Nat
<1> DEFINE seen == {events[n].who : n \in M}
           who == [n \in M |-> events[n].who]
<1>1. IsFiniteSet(DOMAIN events)
  BY LenProperties, FS_Interval
<1>2. IsFiniteSet(M)
  BY <1>1, FS_Subset
<1>3. who \in Surjection(M, seen)
  BY DEF Surjection
<1> HIDE DEF seen, who
<1>4. IsFiniteSet(seen)
  BY <1>2, <1>3, FS_Surjection
<1> QED BY <1>4, FS_CardinalityType DEF seen

LEMMA EventKeeps == ASSUME InsightInv, NEW e \in Event, EventLogged(e) PROVE InsightInv'
<1>1. /\ Len(events') = Len(events) + 1 /\ Len(events) \in Nat
      /\ DOMAIN events = 1..Len(events) /\ DOMAIN events' = 1..(Len(events) + 1)
      /\ \A n \in 1..Len(events) : events'[n] = events[n]
      /\ events'[Len(events) + 1] = e /\ events' \in Seq(Event)
  BY AppendProperties, LenProperties DEF InsightInv, LogOK, EventLogged
<1>2. UNCHANGED <<tock, summary, cached, trend>> /\ e.at = tock
  BY DEF EventLogged
<1>3. ASSUME NEW s, NEW t \in Int, t <= tock, Since(events, s, t) PROVE Since(events', s, t)
  BY <1>1, <1>2, <1>3 DEF Since
<1>4. LogOK'
  <2>1. Len(events) < MaxEvents
    BY DEF EventLogged
  <2>2. Len(events') <= MaxEvents
    BY <1>1, <2>1, MomentsRead
  <2> QED BY <1>1, <1>2, <2>2 DEF InsightInv, LogOK
<1>11. ASSUME NEW value, RowsOK(value) PROVE RowsOK(value)'
  <2>1. value.rowsSeen \in Nat /\ value.rowsSeen <= Len(events')
    BY <1>1, <1>11 DEF RowsOK
  <2>2. \A n \in 1..value.rowsSeen : events'[n] = events[n]
    BY <1>1, <1>11 DEF RowsOK
  <2>3. SelectionsIn(value.rowsSeen, value.read)' = SelectionsIn(value.rowsSeen, value.read)
    BY <2>1, <2>2, SelectionsKept
  <2> QED BY <1>11, <2>1, <2>3 DEF RowsOK, NewestOf
<1>5. SummaryOK'
  <2>1. PICK value : value = summary.value
    OBVIOUS
  <2>2. summary.pc = "grouped" => RowsOK(summary.value)'
    BY <1>2, <1>11, <2>1 DEF InsightInv, SummaryOK, RowsOK
  <2> QED BY <1>2, <1>3, <2>2 DEF InsightInv, LogOK, SummaryOK
<1>6. CachedOK'
  <2>1. cached.at - SlowSummary \in Int /\ cached.at - SlowSummary <= tock
    BY InsightNumbers DEF InsightInv, LogOK, CachedOK
  <2>2. PICK value : value = cached.value
    OBVIOUS
  <2>3. cached.at >= 0 => RowsOK(cached.value)'
    BY <1>2, <1>11, <2>2 DEF InsightInv, CachedOK, RowsOK
  <2> QED BY <1>2, <1>3, <2>1, <2>3 DEF InsightInv, CachedOK
<1>7. ASSUME trend.pc # "idle" PROVE \A n \in 1..trend.seen : events'[n] = events[n]
  BY <1>1, <1>7 DEF InsightInv, TrendOK
<1>8. ASSUME trend.pc # "idle", NEW t \in Nat
      PROVE  BarsOf(events', trend.seen, t) = BarsOf(events, trend.seen, t)
  <2> DEFINE C == Charted(events, trend.seen, t)
  <2>1. Charted(events', trend.seen, t) = C
    BY <1>7, <1>8 DEF Charted
  <2>2. \A n \in C : DayOf(events'[n].at) = DayOf(events[n].at)
    BY <1>7, <1>8 DEF Charted
  <2> HIDE DEF C
  <2>3. {DayOf(events'[n].at) : n \in C} = {DayOf(events[n].at) : n \in C}
    BY <2>2
  <2>4. \A d : {n \in C : DayOf(events'[n].at) = d} = {n \in C : DayOf(events[n].at) = d}
    BY <2>2
  <2>5. [d \in {DayOf(events'[n].at) : n \in C} |-> Cardinality({n \in C : DayOf(events'[n].at) = d})]
        = [d \in {DayOf(events[n].at) : n \in C} |-> Cardinality({n \in C : DayOf(events[n].at) = d})]
    BY <2>3, <2>4
  <2> QED BY <2>1, <2>5 DEF C, BarsOf
<1>9. BarsAreWholeDays'
  <2> SUFFICES ASSUME trend.pc = "drawn", NEW i \in DOMAIN trend.points
               PROVE  trend.points[i].count =
                        Cardinality({n \in 1..trend.seen : events'[n].kind = "page_view"
                                       /\ DayOf(events'[n].at) = trend.points[i].day})
    BY <1>2 DEF BarsAreWholeDays, DayOf
  <2>1. {n \in 1..trend.seen : events'[n].kind = "page_view" /\ DayOf(events'[n].at) = trend.points[i].day}
        = {n \in 1..trend.seen : events[n].kind = "page_view" /\ DayOf(events[n].at) = trend.points[i].day}
    BY <1>7
  <2> QED BY <2>1 DEF InsightInv, TrendOK, BarsAreWholeDays
<1>10. TrendOK'
  <2>1. trend.pc # "idle" => trend.seen \in Nat /\ trend.seen <= Len(events')
    BY <1>1 DEF InsightInv, TrendOK
  <2>2. trend.pc = "queried" => \E t \in Nat : t <= tock /\ trend.counts = BarsOf(events', trend.seen, t)
    BY <1>8 DEF InsightInv, TrendOK
  <2> QED BY <1>2, <1>9, <2>1, <2>2 DEF InsightInv, TrendOK
<1> QED BY <1>4, <1>5, <1>6, <1>10 DEF InsightInv

LEMMA SummaryKeeps ==
    ASSUME InsightInv, TockPasses \/ CountViewers \/ GroupSelections \/ KeepSummary \/ SummaryFails
    PROVE  InsightInv'
<1>1. UNCHANGED <<events, trend>>
  BY DEF TockPasses, CountViewers, GroupSelections, KeepSummary, SummaryFails
<1>2. Len(events) \in Nat /\ DOMAIN events = 1..Len(events)
  BY LenProperties DEF InsightInv, LogOK
<1>3. tock \in Nat /\ tock' \in Nat /\ tock <= tock' /\ tock' \in Tock /\ tock \in Tock
  <2>1. CASE TockPasses
    BY <2>1, InsightNumbers DEF InsightInv, LogOK, TockPasses, Tock
  <2>2. CASE ~TockPasses
    <3>1. UNCHANGED tock
      BY <2>2 DEF CountViewers, GroupSelections, KeepSummary, SummaryFails
    <3>2. tock \in Nat /\ tock \in Tock
      BY DEF InsightInv, LogOK
    <3> QED BY <3>1, <3>2
  <2> QED BY <2>1, <2>2
<1>4. LogOK'
  BY <1>1, <1>2, <1>3 DEF InsightInv, LogOK
<1>5. TrendOK'
  <2>1. BarsAreWholeDays'
    BY <1>1 DEF InsightInv, TrendOK, BarsAreWholeDays
  <2>2. \A t \in Nat : t <= tock => t <= tock'
    BY <1>3
  <2> QED BY <1>1, <2>1, <2>2 DEF InsightInv, TrendOK
<1>6. ASSUME NEW value PROVE RowsOK(value)' <=> RowsOK(value)
  <2>1. SelectionsIn(value.rowsSeen, value.read)' = SelectionsIn(value.rowsSeen, value.read)
    BY <1>1 DEF SelectionsIn
  <2> QED BY <1>1, <2>1 DEF RowsOK, NewestOf
<1>7. SummaryOK'
  <2>1. CASE TockPasses
    <3>1. tock' = tock + 1 /\ UNCHANGED summary /\ (summary.pc # "idle" => tock < summary.began + SlowSummary)
      BY <2>1 DEF TockPasses
    <3>2. summary.pc # "idle" => summary.began <= tock' /\ tock' <= summary.began + SlowSummary
      BY <1>3, <3>1, InsightNumbers DEF InsightInv, SummaryOK
    <3>3. PICK value : value = summary.value
      OBVIOUS
    <3>4. summary.pc = "grouped" => RowsOK(summary.value)'
      BY <1>6, <3>1, <3>3 DEF InsightInv, SummaryOK, RowsOK
    <3> QED BY <1>1, <3>1, <3>2, <3>4 DEF InsightInv, SummaryOK
  <2>2. CASE CountViewers
    <3> DEFINE viewers == {events[n].who : n \in {m \in DOMAIN events : events[m].kind = "page_view"}}
    <3>1. /\ summary' = [pc |-> "counted", began |-> tock,
                         value |-> [NoSummary EXCEPT !.views = Cardinality(viewers), !.seen = Len(events)]]
          /\ UNCHANGED tock
      BY <2>2 DEF CountViewers
    <3>2. Cardinality(viewers) \in Nat
      BY ViewersCounted DEF InsightInv, LogOK
    <3> HIDE DEF viewers
    <3>3. summary'.value = [views |-> Cardinality(viewers), seen |-> Len(events), rows |-> <<>>, read |-> 0,
                            rowsSeen |-> 0]
      BY <3>1 DEF NoSummary
    <3>4. /\ summary'.pc = "counted" /\ summary'.began = tock
          /\ summary' = [pc |-> summary'.pc, began |-> summary'.began, value |-> summary'.value]
      BY <3>1
    <3>5. Since(events, Len(events), tock)
      BY <1>2 DEF Since
    <3>6. tock <= tock /\ tock <= tock + SlowSummary
      BY <1>3, InsightNumbers
    <3> QED BY <1>1, <1>2, <1>3, <3>1, <3>2, <3>3, <3>4, <3>5, <3>6 DEF SummaryOK
  <2>3. CASE GroupSelections
    <3>1. PICK rows \in Selections(tock) :
            summary' = [summary EXCEPT !.pc = "grouped", !.value.rows = rows,
                                       !.value.read = tock, !.value.rowsSeen = Len(events)]
      BY <2>3 DEF GroupSelections
    <3>2. /\ summary'.value = [views |-> summary.value.views, seen |-> summary.value.seen, rows |-> rows,
                               read |-> tock, rowsSeen |-> Len(events)]
          /\ summary'.pc = "grouped" /\ summary'.began = summary.began
          /\ summary' = [pc |-> summary'.pc, began |-> summary'.began, value |-> summary'.value]
      BY <3>1 DEF SummaryOK, InsightInv
    <3>3. UNCHANGED tock /\ summary.pc # "idle"
      BY <2>3 DEF GroupSelections
    <3>4. rows \in Seq(Selection) /\ NewestOf(rows, SelectionsIn(Len(events), tock))
      BY SelectionsNewest, MomentsRead DEF InsightInv, LogOK
    <3>5. PICK value : value = summary'.value
      OBVIOUS
    <3>6. RowsOK(value)
      BY <1>2, <1>3, <3>2, <3>4, <3>5 DEF RowsOK
    <3>7. RowsOK(summary.value)'
      BY <1>6, <3>5, <3>6 DEF RowsOK
    <3> QED BY <1>1, <3>2, <3>3, <3>7 DEF InsightInv, SummaryOK
  <2>4. CASE KeepSummary \/ SummaryFails
    <3>1. summary' = NoLoad
      BY <2>4 DEF KeepSummary, SummaryFails
    <3> QED BY <3>1, MomentsRead DEF SummaryOK, NoLoad, NoSummary
  <2> QED BY <2>1, <2>2, <2>3, <2>4
<1>8. CachedOK'
  <2>1. CASE ~KeepSummary
    <3>1. UNCHANGED cached
      BY <2>1 DEF TockPasses, CountViewers, GroupSelections, SummaryFails
    <3>2. cached.at <= tock'
      BY <1>3 DEF InsightInv, CachedOK
    <3>3. PICK value : value = cached.value
      OBVIOUS
    <3>4. cached.at >= 0 => RowsOK(cached.value)'
      BY <1>6, <3>1, <3>3 DEF InsightInv, CachedOK, RowsOK
    <3> QED BY <1>1, <3>1, <3>2, <3>4 DEF InsightInv, CachedOK
  <2>2. CASE KeepSummary
    <3>1. /\ cached' = [at |-> tock, value |-> summary.value]
          /\ UNCHANGED tock /\ summary.pc = "grouped"
      BY <2>2 DEF KeepSummary
    <3>2. Since(events, summary.value.seen, summary.began) /\ summary.began >= tock - SlowSummary
          /\ summary.began \in Nat
      BY <1>3, <3>1, InsightNumbers DEF InsightInv, SummaryOK
    <3>3. \A n \in DOMAIN events : events[n].at \in Nat
      BY DEF InsightInv, LogOK
    <3>4. Since(events, summary.value.seen, tock - SlowSummary)
      BY <1>3, <3>2, <3>3, InsightNumbers DEF Since
    <3>5. PICK value : value = summary.value
      OBVIOUS
    <3>6. RowsOK(value)
      BY <3>1, <3>5 DEF InsightInv, SummaryOK
    <3>7. value \in Summary
      BY <3>5, <3>6 DEF InsightInv, SummaryOK, RowsOK, Summary
    <3>8. cached' = [at |-> tock, value |-> value]
      BY <3>1, <3>5
    <3>9. RowsOK(cached.value)'
      BY <1>6, <3>6, <3>8 DEF RowsOK
    <3>10. cached' \in [at : Tock \cup {-1}, value : Summary]
      BY <1>3, <3>7, <3>8
    <3> QED BY <1>1, <1>3, <3>1, <3>4, <3>5, <3>8, <3>9, <3>10 DEF CachedOK
  <2> QED BY <2>1, <2>2
<1> QED BY <1>4, <1>5, <1>7, <1>8 DEF InsightInv

(* The parts of the invariant stay as long as what they are about does.      *)
LEMMA InsightSame ==
    ASSUME UNCHANGED <<tock, events, summary, cached>>, LogOK, SummaryOK, CachedOK
    PROVE  LogOK' /\ SummaryOK' /\ CachedOK'
<1>1. ASSUME NEW k, NEW t
      PROVE  SelectionsIn(k, t)' = SelectionsIn(k, t)
  BY DEF SelectionsIn
<1>2. ASSUME NEW value, RowsOK(value)
      PROVE  RowsOK(value)'
  BY <1>1, <1>2 DEF RowsOK
<1>3. LogOK'
  BY DEF LogOK
<1>4. SummaryOK'
  BY <1>2 DEF SummaryOK
<1>5. CachedOK'
  BY <1>2 DEF CachedOK
<1> QED BY <1>3, <1>4, <1>5

LEMMA TrendKeeps == ASSUME InsightInv, QueryTrend \/ FillDays PROVE InsightInv'
<1>1. UNCHANGED <<tock, events, summary, cached>>
  BY DEF QueryTrend, FillDays
<1>2. LogOK' /\ SummaryOK' /\ CachedOK'
  BY <1>1, InsightSame DEF InsightInv
<1>3. Len(events) \in Nat /\ DOMAIN events = 1..Len(events) /\ tock \in Nat
  BY LenProperties DEF InsightInv, LogOK
<1>4. CASE QueryTrend
  <2> DEFINE in == {n \in TrendWindow(tock) : events[n].kind = "page_view"}
  <2>1. in = Charted(events, Len(events), tock)
    BY <1>3 DEF Charted, TrendWindow
  <2>2. trend' = [pc |-> "queried", seen |-> Len(events), points |-> <<>>,
                  counts |-> [d \in {DayOf(events[n].at) : n \in in} |->
                                Cardinality({n \in in : DayOf(events[n].at) = d})]]
    BY <1>4 DEF QueryTrend
  <2> HIDE DEF in
  <2>3. trend' = [pc |-> "queried", seen |-> Len(events), points |-> <<>>,
                  counts |-> BarsOf(events, Len(events), tock)]
    BY <2>1, <2>2 DEF BarsOf
  <2>4. BarsAreWholeDays'
    BY <2>3 DEF BarsAreWholeDays
  <2>5. TrendOK'
    BY <1>1, <1>3, <2>3, <2>4 DEF TrendOK
  <2> QED BY <1>2, <2>5 DEF InsightInv
<1>5. CASE FillDays
  <2> DEFINE first == DayOf(tock) - (ChartDays - 1)
  <2>1. trend.pc = "queried" /\ trend.seen \in Nat /\ trend.seen <= Len(events)
    BY <1>5 DEF FillDays, InsightInv, TrendOK
  <2>2. PICK t \in Nat : t <= tock /\ trend.counts = BarsOf(events, trend.seen, t)
    BY <2>1 DEF InsightInv, TrendOK
  <2>3. /\ trend'.pc = "drawn" /\ trend'.seen = trend.seen
        /\ trend'.points = [i \in 1..ChartDays |->
             [day |-> first + i - 1,
              count |-> IF first + i - 1 \in DOMAIN trend.counts THEN trend.counts[first + i - 1] ELSE 0]]
        /\ trend' = [pc |-> trend'.pc, seen |-> trend'.seen, counts |-> trend'.counts, points |-> trend'.points]
    BY <1>5 DEF FillDays, InsightInv, TrendOK
  <2>4. DayOf(tock) \in Nat /\ first \in Int /\ tock < DayLength * DayOf(tock) + DayLength
    BY <1>3, InsightNumbers, DivBounds DEF DayOf
  \* A day of the chart began after the query's window did.
  <2>5. ASSUME NEW d \in Int, d >= first, NEW n \in 1..trend.seen, DayOf(events[n].at) = d
        PROVE  events[n].at > t - ChartDays * DayLength
    <3>1. events[n].at \in Nat
      BY <1>3, <2>1 DEF InsightInv, LogOK
    <3>2. d \in Nat /\ DayLength * d <= events[n].at
      BY <2>5, <3>1, InsightNumbers, DivBounds DEF DayOf
    <3>3. PICK k \in Nat : d + (ChartDays - 1) = DayOf(tock) + k
      <4>1. d + (ChartDays - 1) - DayOf(tock) \in Nat
        BY <2>4, <2>5, <3>2, InsightNumbers
      <4> QED BY <2>4, <4>1, <3>2, InsightNumbers
    <3>4. DayLength * (d + (ChartDays - 1)) = DayLength * d + ChartDays * DayLength - DayLength
      BY <3>2, InsightNumbers
    <3>5. DayLength * (DayOf(tock) + k) = DayLength * DayOf(tock) + DayLength * k /\ DayLength * k \in Nat
      BY <2>4, <3>3, InsightNumbers
    <3>6. DayLength * d \in Int /\ ChartDays * DayLength \in Int /\ DayLength * DayOf(tock) \in Int
      BY <2>4, <3>2, InsightNumbers
    <3> DEFINE before == DayLength * d
               window == ChartDays * DayLength
               midnight == DayLength * DayOf(tock)
               rest == DayLength * k
    <3>7. before + window - DayLength = midnight + rest
      BY <3>3, <3>4, <3>5
    <3>8. /\ before \in Int /\ window \in Int /\ midnight \in Int /\ rest \in Nat /\ before <= events[n].at
          /\ tock < midnight + DayLength /\ t <= tock /\ t \in Nat /\ tock \in Nat /\ DayLength \in Nat
      BY <1>3, <2>2, <2>4, <3>2, <3>5, <3>6, InsightNumbers
    <3> HIDE DEF before, window, midnight, rest
    <3>9. events[n].at > t - window
      BY <3>1, <3>7, <3>8
    <3> QED BY <3>9 DEF window
  <2>6. ASSUME NEW d \in Int, d >= first
        PROVE  (IF d \in DOMAIN trend.counts THEN trend.counts[d] ELSE 0)
                 = Cardinality({n \in 1..trend.seen : events[n].kind = "page_view" /\ DayOf(events[n].at) = d})
    <3> DEFINE C == Charted(events, trend.seen, t)
               D == {n \in 1..trend.seen : events[n].kind = "page_view" /\ DayOf(events[n].at) = d}
    <3>1. D = {n \in C : DayOf(events[n].at) = d}
      BY <2>5, <2>6 DEF Charted
    <3>2. DOMAIN trend.counts = {DayOf(events[n].at) : n \in C}
      BY <2>2 DEF BarsOf
    <3>3. CASE d \in DOMAIN trend.counts
      <4>1. trend.counts[d] = Cardinality({n \in C : DayOf(events[n].at) = d})
        BY <2>2, <3>3 DEF BarsOf
      <4> HIDE DEF C, D
      <4>2. trend.counts[d] = Cardinality(D)
        BY <3>1, <4>1
      <4> QED BY <3>3, <4>2 DEF D
    <3>4. CASE d \notin DOMAIN trend.counts
      <4> HIDE DEF C, D
      <4>1. D = {}
        BY <3>1, <3>2, <3>4
      <4>2. Cardinality(D) = 0
        BY <4>1, FS_EmptySet
      <4> QED BY <3>4, <4>2 DEF D
    <3> QED BY <3>3, <3>4
  <2>7. BarsAreWholeDays'
    <3> SUFFICES ASSUME NEW i \in 1..ChartDays
                 PROVE  trend'.points[i].count =
                          Cardinality({n \in 1..trend.seen : events[n].kind = "page_view"
                                         /\ DayOf(events[n].at) = trend'.points[i].day})
      BY <1>1, <2>3 DEF BarsAreWholeDays, DayOf
    <3> DEFINE d == first + i - 1
    <3>1. d \in Int /\ d >= first
      BY <2>4, InsightNumbers
    <3>2. /\ trend'.points[i].day = d
          /\ trend'.points[i].count = IF d \in DOMAIN trend.counts THEN trend.counts[d] ELSE 0
      BY <2>3
    <3> HIDE DEF d, first
    <3> QED BY <2>6, <3>1, <3>2
  <2>8. TrendOK'
    BY <1>1, <2>1, <2>3, <2>7 DEF TrendOK
  <2> QED BY <1>2, <2>8 DEF InsightInv
<1> QED BY <1>4, <1>5

(* For any log, loads and charts: no event older than the cache's life and    *)
(* one load is missing from what the widget serves, its selections are the    *)
(* newest runs of the log it read, and every bar of a chart counts the views  *)
(* of its whole day (lib/widgetQuery.ts, viewerGrouping.ts, metrics.ts).      *)
THEOREM DashboardsAreAlwaysRight == InsightSpec => [](InsightTypeOK /\ DashboardsAreRight)
<1>1. InsightInit => InsightInv
  <2> SUFFICES ASSUME InsightInit PROVE InsightInv
    OBVIOUS
  <2>1. LogOK
    BY EmptySeq, MomentsRead DEF InsightInit, LogOK
  <2>2. SummaryOK
    BY MomentsRead DEF InsightInit, SummaryOK, NoLoad, NoSummary
  <2>3. CachedOK
    <3>1. NoSummary \in Summary
      BY EmptySeq, MomentsRead DEF NoSummary, Summary
    <3> QED BY <3>1, MomentsRead DEF InsightInit, CachedOK
  <2>4. TrendOK
    BY DEF InsightInit, TrendOK, BarsAreWholeDays
  <2> QED BY <2>1, <2>2, <2>3, <2>4 DEF InsightInv
<1>2. InsightInv /\ [InsightNext]_insightVars => InsightInv'
  <2> SUFFICES ASSUME InsightInv, [InsightNext]_insightVars PROVE InsightInv'
    OBVIOUS
  <2>1. CASE UNCHANGED insightVars
    <3>1. UNCHANGED <<tock, events, summary, cached, trend>>
      BY <2>1 DEF insightVars
    <3>2. LogOK' /\ SummaryOK' /\ CachedOK'
      BY <3>1, InsightSame DEF InsightInv
    <3>3. TrendOK'
      BY <3>1 DEF InsightInv, TrendOK, BarsAreWholeDays
    <3> QED BY <3>2, <3>3 DEF InsightInv
  <2>2. CASE InsightNext
    BY <2>2, EventKeeps, SummaryKeeps, TrendKeeps DEF InsightNext
  <2> QED BY <2>1, <2>2
<1>3. InsightInv => OldEventsAreSummed
  <2> SUFFICES ASSUME InsightInv, SummaryFresh, NEW n \in DOMAIN events,
                      events[n].at + CacheLife + SlowSummary <= tock
               PROVE  n \in 1..cached.value.seen
    BY DEF OldEventsAreSummed
  <2>1. /\ cached.at \in Int /\ cached.at >= 0 /\ tock \in Nat /\ tock - cached.at < CacheLife
        /\ Since(events, cached.value.seen, cached.at - SlowSummary) /\ events[n].at \in Nat
        /\ n \in Nat /\ n >= 1
    BY LenProperties DEF InsightInv, LogOK, CachedOK, SummaryFresh
  <2>2. ~(events[n].at >= cached.at - SlowSummary)
    BY <2>1, InsightNumbers
  <2> QED BY <2>1, <2>2 DEF Since
<1>4. InsightInv => SelectionsAreNewest
  BY DEF InsightInv, CachedOK, RowsOK, NewestOf, SummaryFresh, SelectionsAreNewest
<1>5. InsightInv => InsightTypeOK
  <2> SUFFICES ASSUME InsightInv PROVE InsightTypeOK
    OBVIOUS
  <2>1. summary.value \in Summary
    <3>1. CASE summary.pc = "grouped"
      BY <3>1 DEF InsightInv, SummaryOK, RowsOK, Summary
    <3>2. CASE summary.pc # "grouped"
      BY <3>2, EmptySeq, MomentsRead DEF InsightInv, SummaryOK, Summary
    <3> QED BY <3>1, <3>2
  <2> QED BY <2>1 DEF InsightInv, LogOK, SummaryOK, CachedOK, TrendOK, InsightTypeOK
<1>6. InsightInv => InsightTypeOK /\ DashboardsAreRight
  BY <1>3, <1>4, <1>5 DEF InsightInv, TrendOK, DashboardsAreRight
<1> QED BY <1>1, <1>2, <1>6, PTL DEF InsightSpec
=============================================================================
