--------------------------- MODULE Progress_proofs ----------------------------
(***************************************************************************)
(* Theorems about GridDesk, PageLoad, FavoriteToggle and Notifications, and *)
(* about MCProgress, in which each has its scene: for any photos, images,   *)
(* tiles, callers, handlers and jobs, and any bounds.                       *)
(***************************************************************************)
EXTENDS MCProgress, FiniteSetTheorems, TLAPS

Trackers == [active : BOOLEAN, status : BOOLEAN, allDone : BOOLEAN,
             poll : {"none", "asked", "busy", "done"}, late : BOOLEAN,
             landed : {"no", "late", "fresh"}]

TrackerTyped ==
    /\ row \in [Frame -> {"absent", "processing", "ready", "gone"}]
    /\ tracker \in Trackers
    /\ announced \subseteq Frame

\* A photo that is ready has been seen through; an edit may put it to work again.
FinishedOK ==
    /\ \A p \in Frame : row[p] = "ready" => p \in finished
    /\ \A p \in announced : row[p] # "absent"

BatchFinished == \A p \in announced : p \in finished \/ row[p] = "gone"

\* An answer that is not late, on its way or landed, has seen every announced
\* photo.
AnswersAreOf ==
    /\ (tracker.poll = "done" /\ ~tracker.late) => BatchFinished
    /\ tracker.landed = "fresh" => BatchFinished
    /\ tracker.allDone => tracker.landed # "no"

TrackerInv == TrackerTyped /\ FinishedOK /\ AnswersAreOf

-----------------------------------------------------------------------------
(* The first state.                                                         *)
LEMMA TrackerInit == DeskInit => TrackerInv
BY DEF DeskInit, TrackerInv, TrackerTyped, Trackers, FinishedOK, AnswersAreOf, BatchFinished, Silent

(* The server's steps only finish photos; nobody announces one.             *)
LEMMA ServerStep ==
    ASSUME TrackerInv, NEW p \in Frame,
           FinalizePrint(p) \/ DeriveInTime(p) \/ PrintLeaves(p) \/ EditSaved(p)
    PROVE  TrackerInv'
<1>1. UNCHANGED <<announced, tracker>> /\ finished \subseteq finished'
  BY DEF FinalizePrint, DeriveInTime, PrintLeaves, EditSaved
<1>0. \A q \in Frame : row[q] = "gone" => row'[q] = "gone"
  BY DEF FinalizePrint, DeriveInTime, PrintLeaves, EditSaved, TrackerInv, TrackerTyped
<1>2. row' \in [Frame -> {"absent", "processing", "ready", "gone"}]
  BY DEF FinalizePrint, DeriveInTime, PrintLeaves, EditSaved, TrackerInv, TrackerTyped
<1>3. FinishedOK'
  BY DEF FinalizePrint, DeriveInTime, PrintLeaves, EditSaved, TrackerInv, TrackerTyped, FinishedOK
<1>4. QED
  BY <1>0, <1>1, <1>2, <1>3 DEF TrackerInv, TrackerTyped, AnswersAreOf, BatchFinished

(* A batch is announced: what was said of the last one is taken back, and   *)
(* an answer already read counts as late.                                   *)
LEMMA AnnounceStep == ASSUME TrackerInv, UploadComplete PROVE TrackerInv'
<1>1. /\ announced' = {p \in Frame : row[p] # "absent"}
      /\ tracker' = Triggered(tracker) /\ UNCHANGED <<row, finished>>
  BY DEF UploadComplete
<1>2. /\ tracker' \in Trackers /\ ~tracker'.allDone /\ tracker'.landed = "no"
      /\ tracker'.poll = "done" => tracker'.late
  <2> DEFINE late == tracker.poll \in {"busy", "done"}
  <2>1. late \in BOOLEAN
    OBVIOUS
  <2>2. tracker' = [tracker EXCEPT !.active = TRUE, !.allDone = FALSE, !.landed = "no",
                                   !.late = late]
    BY <1>1 DEF Triggered
  <2> HIDE DEF late
  <2>3. tracker' \in Trackers /\ ~tracker'.allDone /\ tracker'.landed = "no"
    BY <2>1, <2>2 DEF TrackerInv, TrackerTyped, Trackers
  <2>4. tracker'.poll = "done" => tracker'.late
    BY <2>2 DEF TrackerInv, TrackerTyped, Trackers, late
  <2>5. QED
    BY <2>3, <2>4
<1>3. TrackerTyped' /\ FinishedOK'
  BY <1>1, <1>2 DEF TrackerInv, TrackerTyped, FinishedOK
<1>4. AnswersAreOf'
  BY <1>2 DEF AnswersAreOf
<1>5. QED
  BY <1>3, <1>4 DEF TrackerInv

(* A poll that reads "done" has seen every announced photo.                 *)
LEMMA ReadStep == ASSUME TrackerInv, TrackerRead PROVE TrackerInv'
<1>1. UNCHANGED <<row, announced, finished>>
  BY DEF TrackerRead
<1>2. /\ tracker' \in Trackers /\ tracker'.landed = tracker.landed
      /\ tracker'.allDone = tracker.allDone
  BY DEF TrackerRead, TrackerInv, TrackerTyped, Trackers
<1>3. tracker'.poll = "done" => BatchFinished
  <2>1. ASSUME tracker'.poll = "done" PROVE \A p \in InAlbum : row[p] = "ready"
    BY <2>1 DEF TrackerRead, TrackerInv, TrackerTyped, Trackers
  <2>2. QED
    BY <2>1 DEF InAlbum, BatchFinished, TrackerInv, TrackerTyped, FinishedOK
<1>4. QED
  BY <1>1, <1>2, <1>3 DEF TrackerInv, TrackerTyped, FinishedOK, AnswersAreOf, BatchFinished

(* An answer lands.                                                         *)
LEMMA LandStep == ASSUME TrackerInv, TrackerLands PROVE TrackerInv'
<1>1. UNCHANGED <<row, announced, finished>>
  BY DEF TrackerLands
<1>2. CASE tracker.poll = "busy"
  <2>1. /\ tracker' \in Trackers /\ tracker'.poll = "none"
        /\ tracker'.landed = tracker.landed /\ tracker'.allDone = tracker.allDone
    BY <1>2 DEF TrackerLands, TrackerInv, TrackerTyped, Trackers
  <2>2. QED
    BY <1>1, <2>1 DEF TrackerInv, TrackerTyped, FinishedOK, AnswersAreOf, BatchFinished
<1>3. CASE tracker.poll = "done"
  <2>1. /\ tracker' \in Trackers /\ tracker'.poll = "none" /\ tracker'.landed # "no"
        /\ tracker'.landed = "fresh" => tracker.landed = "fresh" \/ ~tracker.late
    BY <1>3 DEF TrackerLands, TrackerInv, TrackerTyped, Trackers
  <2>2. QED
    BY <1>1, <1>3, <2>1 DEF TrackerInv, TrackerTyped, FinishedOK, AnswersAreOf, BatchFinished
<1>4. QED
  BY <1>2, <1>3 DEF TrackerLands

(* A poll starts or fails, or the card goes away.                           *)
LEMMA QuietTracker ==
    ASSUME TrackerInv, TrackerPoll \/ TrackerFails \/ TrackerDismiss
    PROVE  TrackerInv'
<1>1. UNCHANGED <<row, announced, finished>>
  BY DEF TrackerPoll, TrackerFails, TrackerDismiss
<1>2. /\ tracker' \in Trackers /\ tracker'.poll \in {"none", "asked"}
      /\ \/ tracker'.landed = tracker.landed /\ tracker'.allDone = tracker.allDone
         \/ tracker'.landed = "no" /\ ~tracker'.allDone
  <2>1. CASE TrackerPoll
    BY <2>1 DEF TrackerPoll, TrackerInv, TrackerTyped, Trackers
  <2>2. CASE TrackerFails
    BY <2>2 DEF TrackerFails, TrackerInv, TrackerTyped, Trackers
  <2>3. CASE TrackerDismiss
    BY <2>3 DEF TrackerDismiss, Silent, Trackers
  <2>4. QED
    BY <2>1, <2>2, <2>3
<1>3. QED
  BY <1>1, <1>2 DEF TrackerInv, TrackerTyped, FinishedOK, AnswersAreOf, BatchFinished

(* Every step keeps the invariant.                                          *)
LEMMA TrackerStep == TrackerInv /\ [DeskNext]_deskVars => TrackerInv'
<1> SUFFICES ASSUME TrackerInv, [DeskNext]_deskVars PROVE TrackerInv'
  OBVIOUS
<1>1. CASE UNCHANGED <<row, announced, finished, tracker>>
  BY <1>1 DEF TrackerInv, TrackerTyped, FinishedOK, AnswersAreOf, BatchFinished
<1>2. CASE Uploading
  BY <1>2, ServerStep, AnnounceStep DEF Uploading
<1>3. CASE GridNext
  <2>1. ASSUME NEW f \in GridFetch, Poll(f) \/ FetchStep(f) \/ FetchFails(f)
        PROVE  UNCHANGED <<row, announced, finished, tracker>>
    BY <2>1 DEF Poll, FetchStep, FetchRead, FetchLands, FetchFails
  <2>2. ASSUME StartDrag \/ EndDrag
        PROVE  UNCHANGED <<row, announced, finished, tracker>>
    BY <2>2 DEF StartDrag, EndDrag, DragSaved, DragFails
  <2>3. QED
    BY <1>1, <1>2, <1>3, <2>1, <2>2, ServerStep DEF GridNext
<1>4. CASE TrackerNext
  BY <1>2, <1>4, ReadStep, LandStep, QuietTracker DEF TrackerNext
<1>5. CASE UNCHANGED deskVars
  BY <1>1, <1>5 DEF deskVars
<1>6. QED
  BY <1>3, <1>4, <1>5 DEF DeskNext

(* However polls, batches, edits and deletions overlap, "All ready" rests   *)
(* on an answer of this batch, and one asked since on all of its photos     *)
(* that were not deleted.                                                   *)
THEOREM TrackerAlwaysSeesTheBatchThrough == DeskSpec => []TrackerSeesTheBatchThrough
<1>1. TrackerInv => TrackerSeesTheBatchThrough
  BY DEF TrackerInv, AnswersAreOf, BatchFinished, TrackerSeesTheBatchThrough
<1>2. QED
  BY TrackerInit, TrackerStep, <1>1, PTL DEF DeskSpec

-----------------------------------------------------------------------------
(* The page while it loads.                                                 *)

Unmounted == {i \in Image : img[i] = "unmounted"}

\* An image registers once, so the counter stays within the images.
PageInv ==
    /\ PageTypeOK
    /\ counter.loaded <= counter.registered
    /\ counter.registered + Cardinality(Unmounted) <= Cardinality(Image)

LEMMA FiniteImages ==
    /\ Cardinality(Image) \in Nat
    /\ \A S \in SUBSET Image : IsFiniteSet(S) /\ Cardinality(S) \in Nat
BY PageAssumption, FS_Subset, FS_CardinalityType

Counts == [registered : Nat, loaded : Nat, coverRegistered : BOOLEAN, coverLoaded : BOOLEAN]

LEMMA CountedAs ==
    ASSUME NEW c \in Counts, c.loaded <= c.registered, NEW i \in Image
    PROVE  /\ RegisterFor(i, c) \in Counts
           /\ RegisterFor(i, c).registered <= c.registered + 1
           /\ RegisterFor(i, c).loaded <= RegisterFor(i, c).registered
           /\ ReportFor(i, c) \in Counts
           /\ ReportFor(i, c).registered = c.registered
           /\ ReportFor(i, c).loaded <= ReportFor(i, c).registered
<1>1. /\ Register(c) \in Counts /\ Register(c).registered \in {c.registered, c.registered + 1}
      /\ Register(c).loaded = c.loaded
  BY DEF Register, Counts
<1>2. /\ ReportLoaded(c) \in Counts /\ ReportLoaded(c).registered = c.registered
      /\ ReportLoaded(c).loaded <= c.registered
  BY DEF ReportLoaded, Counts
<1>3. /\ RegisterFor(i, c) \in Counts /\ RegisterFor(i, c).registered = Register(c).registered
      /\ RegisterFor(i, c).loaded = Register(c).loaded
  BY <1>1 DEF RegisterFor, Counts
<1>4. /\ ReportFor(i, c) \in Counts /\ ReportFor(i, c).registered = ReportLoaded(c).registered
      /\ ReportFor(i, c).loaded = ReportLoaded(c).loaded
  BY <1>2 DEF ReportFor, Counts
<1>5. QED
  BY <1>1, <1>2, <1>3, <1>4 DEF Counts

LEMMA BarTyped ==
    ASSUME bar \in [forced : BOOLEAN, done : BOOLEAN, hold : BOOLEAN],
           NEW c \in Counts, NEW forced \in BOOLEAN
    PROVE  BarAfter(c, forced) \in [forced : BOOLEAN, done : BOOLEAN, hold : BOOLEAN]
BY DEF BarAfter

LEMMA PageFirst == PageInit => PageInv
<1> SUFFICES ASSUME PageInit PROVE PageInv
  OBVIOUS
<1>1. PageTypeOK
  BY FiniteImages, PageAssumption DEF PageInit, PageTypeOK, Counter, InitialCounter, Snapshot
<1>2. Unmounted \in SUBSET Image /\ Cardinality(Unmounted) <= Cardinality(Image)
  BY PageAssumption, FS_Subset DEF Unmounted
<1>3. QED
  BY <1>1, <1>2, FiniteImages DEF PageInit, PageInv, InitialCounter

(* An image hydrates, or is reported.                                       *)
LEMMA ImageStep ==
    ASSUME PageInv, NEW i \in Image, Mount(i) \/ Resolve(i)
    PROVE  PageInv'
<1>1. /\ counter \in Counts /\ counter.loaded <= counter.registered
      /\ img \in [Image -> {"unmounted", "loading", "resolved"}]
  BY FiniteImages DEF PageInv, PageTypeOK, Counter, Counts
<1>2. CASE Mount(i)
  <2>1. PICK cached \in BOOLEAN :
          /\ img' = [img EXCEPT ![i] = IF cached THEN "resolved" ELSE "loading"]
          /\ Count(IF cached THEN ReportFor(i, RegisterFor(i, counter))
                   ELSE RegisterFor(i, counter))
    BY <1>2 DEF Mount
  <2>2. /\ counter' \in Counts /\ counter'.loaded <= counter'.registered
        /\ counter'.registered <= counter.registered + 1
    <3>1. /\ RegisterFor(i, counter) \in Counts
          /\ RegisterFor(i, counter).registered <= counter.registered + 1
          /\ RegisterFor(i, counter).loaded <= RegisterFor(i, counter).registered
      BY <1>1, CountedAs
    <3>2. /\ ReportFor(i, RegisterFor(i, counter)) \in Counts
          /\ ReportFor(i, RegisterFor(i, counter)).registered = RegisterFor(i, counter).registered
          /\ ReportFor(i, RegisterFor(i, counter)).loaded
               <= ReportFor(i, RegisterFor(i, counter)).registered
      BY <3>1, CountedAs
    <3>3. QED
      BY <2>1, <3>1, <3>2 DEF Count
  <2>3. Unmounted' = Unmounted \ {i} /\ i \in Unmounted
    BY <1>1, <1>2, <2>1 DEF Mount, Unmounted
  <2>4. Cardinality(Unmounted') = Cardinality(Unmounted) - 1
        /\ Cardinality(Unmounted) \in Nat /\ Cardinality(Unmounted') \in Nat
    <3>1. IsFiniteSet(Unmounted) /\ IsFiniteSet(Unmounted')
      BY <2>3, FiniteImages DEF Unmounted
    <3>2. QED
      BY <2>3, <3>1, FS_RemoveElement, FS_CardinalityType
  <2>5. counter'.registered + Cardinality(Unmounted') <= Cardinality(Image)
    BY <1>1, <2>2, <2>4, FiniteImages DEF PageInv, Counts
  <2>6. counter' \in Counter
    BY <2>2, <2>4, <2>5, FiniteImages DEF Counter, Counts
  <2>7. bar' \in [forced : BOOLEAN, done : BOOLEAN, hold : BOOLEAN]
    BY <2>1, <2>2, BarTyped DEF PageInv, PageTypeOK, Count
  <2>8. img' \in [Image -> {"unmounted", "loading", "resolved"}]
    BY <1>1, <2>1
  <2>9. QED
    BY <1>2, <2>2, <2>5, <2>6, <2>7, <2>8 DEF Mount, SplashUnchanged, PageInv, PageTypeOK
<1>3. CASE Resolve(i)
  <2>1. /\ counter' \in Counts /\ counter'.loaded <= counter'.registered
        /\ counter'.registered = counter.registered
    BY <1>1, <1>3, CountedAs DEF Resolve, Count
  <2>2. Unmounted' = Unmounted
    BY <1>1, <1>3 DEF Resolve, Unmounted
  <2>3. counter' \in Counter
    BY <2>1, FiniteImages DEF Counter, Counts, PageInv, PageTypeOK
  <2>4. bar' \in [forced : BOOLEAN, done : BOOLEAN, hold : BOOLEAN]
    BY <1>3, <2>1, BarTyped DEF PageInv, PageTypeOK, Resolve, Count
  <2>5. img' \in [Image -> {"unmounted", "loading", "resolved"}]
    BY <1>1, <1>3 DEF Resolve
  <2>6. QED
    BY <1>3, <2>1, <2>2, <2>3, <2>4, <2>5 DEF Resolve, SplashUnchanged, PageInv, PageTypeOK
<1>4. QED
  BY <1>2, <1>3

(* Timers and frames leave images and counter alone.                        *)
LEMMA TimerStep == ASSUME PageInv, Timers PROVE PageInv'
<1>1. UNCHANGED <<img, counter>>
  BY DEF Timers, Stall, HideBar, SplashUnchanged, Push, Age, Dismiss, Remove
<1>2. bar' \in [forced : BOOLEAN, done : BOOLEAN, hold : BOOLEAN]
  <2>1. counter \in Counts
    BY FiniteImages DEF PageInv, PageTypeOK, Counter, Counts
  <2>2. BarAfter(counter, TRUE) \in [forced : BOOLEAN, done : BOOLEAN, hold : BOOLEAN]
    BY <2>1, BarTyped DEF PageInv, PageTypeOK
  <2>3. QED
    BY <2>2 DEF Timers, Stall, HideBar, Push, Age, Dismiss, Remove, PageInv, PageTypeOK
<1>3. seen' \in [coverRegistered : BOOLEAN, coverLoaded : BOOLEAN]
  <2>1. Snapshot(counter) \in [coverRegistered : BOOLEAN, coverLoaded : BOOLEAN]
    BY DEF PageInv, PageTypeOK, Snapshot, Counter
  <2>2. seen' = seen \/ seen' = Snapshot(counter)
    BY DEF Timers, Stall, HideBar, SplashUnchanged, Push, Age, Dismiss, Remove
  <2>3. QED
    BY <2>1, <2>2 DEF PageInv, PageTypeOK
<1>4. splash' \in {"up", "dismissed", "removed"} /\ age' \in {"young", "shown", "old"}
  BY DEF Timers, Stall, HideBar, SplashUnchanged, Push, Age, Dismiss, Remove,
         PageInv, PageTypeOK
<1>5. QED
  BY <1>1, <1>2, <1>3, <1>4 DEF PageInv, PageTypeOK, Unmounted

LEMMA PageStep == PageInv /\ [PageNext]_pageVars => PageInv'
<1> SUFFICES ASSUME PageInv, [PageNext]_pageVars PROVE PageInv'
  OBVIOUS
<1>1. CASE UNCHANGED pageVars
  BY <1>1 DEF pageVars, PageInv, PageTypeOK, Unmounted
<1>2. QED
  BY <1>1, ImageStep, TimerStep DEF PageNext

-----------------------------------------------------------------------------
(* The desk: every variable keeps its type.                                 *)

Fetches == [pc : {"idle", "asked", "read"}, shown : [Frame -> ShownStatus],
            reload : BOOLEAN, late : BOOLEAN]
Grids == [loaded : BOOLEAN, shown : [Frame -> ShownStatus], order : SUBSET Frame, hadPending : BOOLEAN]
Drags == [begun : 1..MaxMoves, prev : SUBSET Frame]

LEMMA NoFetchTyped == NoFetch \in Fetches /\ Asked \in Fetches /\ NothingShown \in [Frame -> ShownStatus]
BY DEF NoFetch, Asked, NothingShown, Fetches, ShownStatus

LEMMA DeskFirst == DeskInit => DeskTypeOK
<1> SUFFICES ASSUME DeskInit PROVE DeskTypeOK
  OBVIOUS
<1>1. fetch \in [GridFetch -> Fetches]
  BY NoFetchTyped DEF DeskInit
<1>2. grid \in Grids /\ tracker \in Trackers
  BY NoFetchTyped DEF DeskInit, Grids, Silent, Trackers
<1>3. row \in [Frame -> {"absent", "processing", "ready", "gone"}]
  <2>1. row \in [Frame -> {"absent", "ready"}]
    BY DEF DeskInit
  <2>2. QED
    BY <2>1
<1>4. moves \in 0..MaxMoves
  BY DeskAssumption DEF DeskInit
<1>5. announced \subseteq Frame /\ finished = announced /\ drags = {} /\ reordering = FALSE /\ missed \in BOOLEAN
  BY DEF DeskInit
<1>6. QED
  BY <1>1, <1>2, <1>3, <1>4, <1>5 DEF DeskTypeOK, Fetches, Grids, Trackers

LEMMA ReloadTyped ==
    ASSUME fetch \in [GridFetch -> Fetches], NEW f \in GridFetch, Reload(f)
    PROVE  fetch' \in [GridFetch -> Fetches]
<1>1. \A g \in GridFetch : [fetch[g] EXCEPT !.late = @ \/ fetch[g].pc = "read"] \in Fetches
  BY DEF Fetches
<1>2. QED
  BY <1>1, NoFetchTyped DEF Reload

(* The server's steps, the page's and the grid's.                           *)
LEMMA GridTyped == ASSUME DeskTypeOK, GridNext \/ Uploading PROVE DeskTypeOK'
<1>1. /\ fetch \in [GridFetch -> Fetches] /\ grid \in Grids /\ tracker \in Trackers
      /\ moves \in 0..MaxMoves
      /\ row \in [Frame -> {"absent", "processing", "ready", "gone"}]
  BY DEF DeskTypeOK, Fetches, Grids, Trackers
<1>2. ASSUME NEW p \in Frame, FinalizePrint(p) \/ DeriveInTime(p) \/ PrintLeaves(p)
      PROVE  DeskTypeOK'
  <2>0. fetch' \in [GridFetch -> Fetches]
    BY <1>1, <1>2, ReloadTyped DEF FinalizePrint, DeriveInTime, PrintLeaves
  <2>1. row' \in [Frame -> {"absent", "processing", "ready", "gone"}]
    BY <1>1, <1>2 DEF FinalizePrint, DeriveInTime, PrintLeaves
  <2>2. moves' \in 0..MaxMoves
    BY <1>1, <1>2, DeskAssumption DEF FinalizePrint, DeriveInTime, PrintLeaves
  <2>3. finished' \subseteq Frame
    BY <1>2 DEF DeskTypeOK, FinalizePrint, DeriveInTime, PrintLeaves
  <2>4. QED
    BY <1>2, <2>0, <2>1, <2>2, <2>3 DEF DeskTypeOK, FinalizePrint, DeriveInTime, PrintLeaves, Fetches
<1>3. CASE UploadComplete
  <2>1. tracker' \in Trackers
    <3>1. (tracker.poll \in {"busy", "done"}) \in BOOLEAN
      OBVIOUS
    <3>2. QED
      BY <1>1, <1>3, <3>1 DEF UploadComplete, Triggered, Trackers
  <2>2. fetch' \in [GridFetch -> Fetches]
    BY <1>1, <1>3, ReloadTyped DEF UploadComplete
  <2>3. announced' \subseteq Frame
    BY <1>3 DEF UploadComplete
  <2>4. QED
    BY <1>3, <2>1, <2>2, <2>3 DEF DeskTypeOK, UploadComplete, Fetches, Trackers
<1>4. ASSUME NEW p \in Frame, EditSaved(p) PROVE DeskTypeOK'
  <2>1. fetch' \in [GridFetch -> Fetches]
    BY <1>1, <1>4, ReloadTyped DEF EditSaved
  <2>2. row' \in [Frame -> {"absent", "processing", "ready", "gone"}]
    BY <1>1, <1>4 DEF EditSaved
  <2>3. moves' \in 0..MaxMoves
    BY <1>1, <1>4, DeskAssumption DEF EditSaved
  <2>4. QED
    BY <1>4, <2>1, <2>2, <2>3 DEF DeskTypeOK, EditSaved, Fetches
<1>5. ASSUME NEW f \in GridFetch, Poll(f) \/ FetchRead(f)
      PROVE  DeskTypeOK'
  <2>1. fetch' \in [GridFetch -> Fetches]
    <3>1. CASE Poll(f)
      BY <1>1, <3>1 DEF Poll, Fetches
    <3>2. CASE FetchRead(f)
      <4> DEFINE read == [p \in Frame |-> IF row[p] \in {"absent", "gone"} THEN "none" ELSE row[p]]
      <4>1. read \in [Frame -> ShownStatus]
        BY <1>1 DEF ShownStatus
      <4>2. fetch' = [fetch EXCEPT ![f].pc = "read", ![f].shown = read]
        BY <3>2 DEF FetchRead
      <4> HIDE DEF read
      <4>3. QED
        BY <1>1, <4>1, <4>2 DEF Fetches
    <3>3. QED
      BY <1>5, <3>1, <3>2
  <2>2. QED
    BY <1>5, <2>1 DEF DeskTypeOK, Poll, FetchRead, Fetches
<1>6. ASSUME NEW f \in GridFetch, FetchLands(f) \/ FetchFails(f)
      PROVE  DeskTypeOK'
  <2>1. fetch' \in [GridFetch -> Fetches]
    BY <1>1, <1>6, NoFetchTyped DEF FetchLands, FetchFails
  <2>2. /\ fetch[f].shown \in [Frame -> ShownStatus]
        /\ fetch[f].late \in BOOLEAN /\ fetch[f].reload \in BOOLEAN
    BY <1>1 DEF Fetches
  <2>3. grid' \in Grids
    <3>1. AnyProcessing(fetch[f].shown) \in BOOLEAN
      BY DEF AnyProcessing
    <3>2. QED
      <4> DEFINE any == AnyProcessing(fetch[f].shown)
                 ord == {p \in Frame : fetch[f].shown[p] # "none"}
      <4>1. grid' = grid \/ grid' = [loaded |-> TRUE, shown |-> fetch[f].shown, order |-> ord, hadPending |-> any]
        BY <1>6 DEF FetchLands, FetchFails
      <4>2. any \in BOOLEAN
        BY <3>1
      <4>3. [loaded |-> TRUE, shown |-> fetch[f].shown, order |-> ord, hadPending |-> any] \in Grids
        <5>1. ord \in SUBSET Frame
          OBVIOUS
        <5> HIDE DEF any, ord
        <5> QED
          BY <2>2, <4>2, <5>1 DEF Grids
      <4>4. QED
        BY <1>1, <4>1, <4>3
  <2>4. missed' \in BOOLEAN
    BY <1>6, <2>2 DEF FetchLands, FetchFails, DeskTypeOK
  <2>5. moves' \in 0..MaxMoves
    BY <1>1, <1>6, DeskAssumption DEF FetchLands, FetchFails
  <2>6. QED
    BY <1>6, <2>1, <2>3, <2>4, <2>5 DEF DeskTypeOK, FetchLands, FetchFails, Fetches, Grids
<1>7. CASE StartDrag
  <2>1. moves' \in 1..MaxMoves /\ grid.order \in SUBSET Frame
    BY <1>1, <1>7, DeskAssumption DEF StartDrag, Grids
  <2>2. [begun |-> moves', prev |-> grid.order] \in Drags
    BY <2>1 DEF Drags
  <2>3. drags' \subseteq Drags /\ moves' \in 0..MaxMoves
    BY <1>7, <2>1, <2>2 DEF StartDrag, DeskTypeOK, Drags
  <2>4. QED
    BY <1>7, <2>3 DEF StartDrag, DeskTypeOK, Drags
<1>8. ASSUME NEW d \in drags, DragSaved(d) \/ DragFails(d) PROVE DeskTypeOK'
  <2>1. d.prev \in SUBSET Frame
    BY DEF DeskTypeOK
  <2>2. grid' \in Grids
    BY <1>1, <1>8, <2>1 DEF DragSaved, DragFails, Grids
  <2>3. missed' \in BOOLEAN
    BY <1>8 DEF DragSaved, DragFails, DeskTypeOK
  <2>4. QED
    BY <1>8, <2>2, <2>3 DEF DragSaved, DragFails, DeskTypeOK, Grids
<1>9. QED
  BY <1>2, <1>3, <1>4, <1>5, <1>6, <1>7, <1>8 DEF EndDrag, GridNext, Uploading, FetchStep

(* The card's.                                                              *)
LEMMA CardTyped == ASSUME DeskTypeOK, TrackerNext PROVE DeskTypeOK'
<1>1. tracker \in Trackers /\ moves \in 0..MaxMoves
  BY DEF DeskTypeOK, Trackers
<1>2. CASE Uploading
  BY <1>2, GridTyped
<1>3. CASE TrackerPoll \/ TrackerRead \/ TrackerFails \/ TrackerDismiss
  <2>1. tracker' \in Trackers
    <3>1. CASE TrackerPoll
      BY <1>1, <3>1 DEF TrackerPoll, Trackers
    <3>2. CASE TrackerRead
      BY <1>1, <3>2 DEF TrackerRead, Trackers
    <3>3. CASE TrackerFails
      BY <1>1, <3>3 DEF TrackerFails, Trackers
    <3>4. CASE TrackerDismiss
      BY <3>4 DEF TrackerDismiss, Silent, Trackers
    <3>5. QED
      BY <1>3, <3>1, <3>2, <3>3, <3>4
  <2>2. moves' \in 0..MaxMoves
    BY <1>1, <1>3, DeskAssumption DEF TrackerPoll, TrackerRead, TrackerFails, TrackerDismiss
  <2>3. QED
    BY <1>3, <2>1, <2>2 DEF DeskTypeOK, TrackerPoll, TrackerRead, TrackerFails, TrackerDismiss, Trackers
<1>4. CASE TrackerLands
  <2>1. /\ (tracker.allDone \/ tracker.poll = "done") \in BOOLEAN
        /\ (IF tracker.poll = "busy" \/ tracker.landed = "fresh" THEN tracker.landed
            ELSE IF tracker.late THEN "late" ELSE "fresh") \in {"no", "late", "fresh"}
    BY <1>1 DEF Trackers
  <2>2. tracker' \in Trackers
    BY <1>1, <1>4, <2>1 DEF TrackerLands, Trackers
  <2>3. QED
    BY <1>4, <2>2 DEF DeskTypeOK, TrackerLands, Trackers
<1>5. QED
  BY <1>2, <1>3, <1>4 DEF TrackerNext

LEMMA DeskStep == DeskTypeOK /\ [DeskNext]_deskVars => DeskTypeOK'
<1>1. DeskTypeOK /\ UNCHANGED deskVars => DeskTypeOK'
  BY DEF deskVars, DeskTypeOK
<1>2. QED
  BY <1>1, GridTyped, CardTyped DEF DeskNext

-----------------------------------------------------------------------------
(* The heart on every tile of a page (FavoriteToggle).                      *)
Tiles == [shown : BOOLEAN, desired : BOOLEAN, confirmed : BOOLEAN,
          pc : {"idle", "send", "insert", "answer", "fail"},
          res : BOOLEAN, guard : 0..GuardMax]

\* Untouched by a failure, a second tab or the island's late answer, the page
\* shows one state everywhere and counts it, at most one tile asks the server,
\* and what it has been told, or will find, is what the row says.
OneStory ==
    /\ ids \in BOOLEAN /\ badge = One(ids)
    /\ \A t \in Tile : /\ tile[t].shown = ids /\ tile[t].desired = ids
                       /\ tile[t].confirmed = ids
    /\ \A s, t \in Busy : s = t
    /\ Busy = {} => ids = fav
    /\ \A t \in Tile : /\ tile[t].pc # "fail"
                       /\ tile[t].pc = "insert" => ~fav
                       /\ tile[t].pc = "answer" => tile[t].res = fav

ToggleInv == ToggleTypeOK /\ (~apart /\ faults = 0 => OneStory)

-----------------------------------------------------------------------------
(* The badge never goes below zero, and one change of it is exact.          *)
LEMMA BadgeIsNat ==
    ASSUME NEW n \in Nat, NEW up \in BOOLEAN, NEW down \in BOOLEAN
    PROVE  BumpBadge(n, One(up), One(down)) \in Nat
BY DEF BumpBadge, One

LEMMA BadgeIsExact ==
    ASSUME NEW old \in BOOLEAN, NEW new \in BOOLEAN
    PROVE  BumpBadge(One(old), One(new), One(old)) = One(new)
BY DEF BumpBadge, One

LEMMA IdsTyped ==
    ASSUME ToggleTypeOK, NEW intent \in BOOLEAN
    PROVE  /\ IdsAfter(intent) \in BOOLEAN \cup {Null}
           /\ ids \in BOOLEAN => IdsAfter(intent) = intent
BY ToggleAssumption DEF ToggleTypeOK, IdsAfter

(* The effect every tile runs.                                              *)
LEMMA MirrorTyped ==
    ASSUME NEW tiles \in [Tile -> Tiles], NEW set \in BOOLEAN \cup {Null}
    PROVE  /\ Mirror(tiles, set) \in [Tile -> Tiles]
           /\ \A t \in Tile : /\ Mirror(tiles, set)[t].pc = tiles[t].pc
                              /\ Mirror(tiles, set)[t].res = tiles[t].res
<1>1. CASE set = Null
  BY <1>1 DEF Mirror
<1>2. CASE set # Null
  BY <1>2 DEF Mirror, Tiles
<1>3. QED
  BY <1>1, <1>2

LEMMA MirrorShows ==
    ASSUME NEW tiles \in [Tile -> Tiles], NEW set \in BOOLEAN, NEW t \in Tile
    PROVE  /\ Mirror(tiles, set)[t].confirmed = set
           /\ tiles[t].pc = "idle" => /\ Mirror(tiles, set)[t].shown = set
                                      /\ Mirror(tiles, set)[t].desired = set
           /\ tiles[t].pc # "idle" => /\ Mirror(tiles, set)[t].shown = tiles[t].shown
                                      /\ Mirror(tiles, set)[t].desired = tiles[t].desired
<1>1. set # Null
  BY ToggleAssumption
<1>2. QED
  BY <1>1 DEF Mirror, Tiles

-----------------------------------------------------------------------------
LEMMA ToggleFirst == ToggleInit => ToggleInv
BY ToggleAssumption DEF ToggleInit, ToggleInv, ToggleTypeOK

(* A tap, on an idle tile or while its loop runs.                           *)
LEMMA TapStep ==
    ASSUME ToggleInv, NEW t \in Tile, NEW intent \in BOOLEAN,
           TapBusy(t, intent) \/ TapIdle(t, intent)
    PROVE  ToggleInv'
<1> DEFINE pc == IF tile[t].pc # "idle" THEN tile[t].pc
                 ELSE IF tile[t].confirmed = intent THEN "idle" ELSE "send"
           tapped == [u \in Tile |->
                        IF u = t THEN [shown |-> intent, desired |-> intent,
                                       confirmed |-> tile[t].confirmed, pc |-> pc,
                                       res |-> tile[t].res, guard |-> tile[t].guard]
                        ELSE tile[u]]
<1>1. /\ tile \in [Tile -> Tiles] /\ fav \in BOOLEAN /\ badge \in Nat
      /\ ids \in BOOLEAN \cup {Null} /\ apart \in BOOLEAN
  BY DEF ToggleInv, ToggleTypeOK, Tiles
<1>2. pc \in {"idle", "send", "insert", "answer", "fail"}
  BY <1>1 DEF Tiles
<1>3. tapped \in [Tile -> Tiles]
  BY <1>1, <1>2 DEF Tiles
<1>4. /\ tile' = Mirror(tapped, ids') /\ ids' = IdsAfter(intent)
      /\ badge' = BumpBadge(badge, One(intent), One(tile[t].shown))
      /\ apart' = (apart \/ Busy \ {t} # {})
      /\ UNCHANGED <<fav, island, faults>>
  <2>1. CASE TapBusy(t, intent)
    <3>1. tapped = [tile EXCEPT ![t].shown = intent, ![t].desired = intent]
      BY <1>1, <2>1 DEF TapBusy, Tiles
    <3>2. QED
      BY <3>1, <2>1 DEF TapBusy
  <2>2. CASE TapIdle(t, intent)
    <3>1. tapped = [tile EXCEPT ![t].shown = intent, ![t].desired = intent,
                      ![t].pc = IF tile[t].confirmed = intent THEN "idle" ELSE "send"]
      BY <1>1, <2>2 DEF TapIdle, Tiles
    <3>2. QED
      BY <3>1, <2>2 DEF TapIdle
  <2>3. QED
    BY <2>1, <2>2
<1>5. tapped[t].pc = pc /\ tapped[t].res = tile[t].res
      /\ tapped[t].shown = intent /\ tapped[t].desired = intent
  OBVIOUS
<1>6. \A u \in Tile : u # t => tapped[u] = tile[u]
  OBVIOUS
<1> HIDE DEF tapped
<1>7. /\ ids' \in BOOLEAN \cup {Null}
      /\ ids \in BOOLEAN => ids' = intent
  BY <1>4, IdsTyped DEF ToggleInv
<1>8. /\ tile' \in [Tile -> Tiles]
      /\ \A u \in Tile : tile'[u].pc = tapped[u].pc /\ tile'[u].res = tapped[u].res
  BY <1>3, <1>4, <1>7, MirrorTyped
<1>9. ToggleTypeOK'
  <2>1. badge' \in Nat
    BY <1>1, <1>4, BadgeIsNat DEF Tiles
  <2>2. QED
    BY <1>1, <1>4, <1>7, <1>8, <2>1 DEF ToggleInv, ToggleTypeOK, Tiles
<1>10. ASSUME ~apart', faults' = 0 PROVE OneStory'
  <2>1. OneStory /\ Busy \subseteq {t}
    BY <1>4, <1>10, <1>1 DEF ToggleInv
  <2>2. ids' = intent /\ ids' \in BOOLEAN
    BY <1>7, <2>1 DEF OneStory
  <2>3. badge' = One(ids')
    <3>1. badge = One(ids) /\ tile[t].shown = ids
      BY <2>1 DEF OneStory
    <3>2. ids \in BOOLEAN
      BY <2>1 DEF OneStory
    <3>3. QED
      BY <1>4, <2>2, <3>1, <3>2, BadgeIsExact
  <2>4. \A u \in Tile : u # t => tile[u].pc = "idle"
    BY <2>1 DEF Busy
  <2>5. \A u \in Tile : /\ tile'[u].shown = ids' /\ tile'[u].desired = ids'
                        /\ tile'[u].confirmed = ids'
    <3>1. TAKE u \in Tile
    <3>2. tapped[u].pc # "idle" => tapped[u].shown = ids' /\ tapped[u].desired = ids'
      BY <1>5, <1>6, <2>2, <2>4
    <3>3. QED
      BY <1>3, <1>4, <2>2, <3>2, MirrorShows
  <2>6. \A u \in Tile : u # t => tile'[u].pc = "idle"
    BY <1>6, <1>8, <2>4
  <2>7. tile'[t].pc = pc /\ tile'[t].res = tile[t].res
    BY <1>5, <1>8
  <2>8. Busy' = {} => ids' = fav'
    <3> SUFFICES ASSUME Busy' = {} PROVE ids' = fav'
      OBVIOUS
    <3>1. tile'[t].pc = "idle"
      BY DEF Busy
    <3>2. tile[t].pc = "idle" /\ tile[t].confirmed = intent
      BY <2>7, <3>1
    <3>3. Busy = {}
      BY <3>2, <2>4 DEF Busy
    <3>4. QED
      BY <1>4, <2>1, <2>2, <3>2, <3>3 DEF OneStory
  <2>9. \A u \in Tile : /\ tile'[u].pc # "fail"
                        /\ tile'[u].pc = "insert" => ~fav'
                        /\ tile'[u].pc = "answer" => tile'[u].res = fav'
    BY <1>4, <2>1, <2>6, <2>7 DEF OneStory
  <2>10. \A u, v \in Busy' : u = v
    BY <2>6 DEF Busy
  <2>11. QED
    BY <2>2, <2>3, <2>5, <2>8, <2>9, <2>10 DEF OneStory
<1>11. QED
  BY <1>9, <1>10 DEF ToggleInv

-----------------------------------------------------------------------------
(* The server's half of a toggle, and another round of the loop.            *)
LEMMA ServerHalfStep ==
    ASSUME ToggleInv, NEW t \in Tile, DeleteRow(t) \/ InsertHeart(t) \/ Again(t)
    PROVE  ToggleInv'
<1>1. /\ tile \in [Tile -> Tiles] /\ fav \in BOOLEAN /\ badge \in Nat
      /\ ids \in BOOLEAN \cup {Null} /\ apart \in BOOLEAN
      /\ tile[t].guard \in 0..GuardMax
  BY DEF ToggleInv, ToggleTypeOK, Tiles
<1>2. UNCHANGED <<ids, badge, island, faults>>
  BY DEF DeleteRow, InsertHeart, Again, ClientUnchanged
<1>3. PICK pc \in {"send", "insert", "answer", "fail"}, res \in BOOLEAN, guard \in 0..GuardMax :
        tile' = [tile EXCEPT ![t] = [tile[t] EXCEPT !.pc = pc, !.res = res, !.guard = guard]]
  <2>1. CASE DeleteRow(t)
    <3>1. tile' = [tile EXCEPT ![t] = [tile[t] EXCEPT !.pc = IF fav THEN "answer" ELSE "insert",
                                         !.res = FALSE, !.guard = tile[t].guard]]
      BY <1>1, <2>1 DEF DeleteRow, Tiles
    <3>2. QED
      BY <1>1, <3>1
  <2>2. CASE InsertHeart(t)
    <3>1. tile' = [tile EXCEPT ![t] = [tile[t] EXCEPT !.pc = IF fav THEN "fail" ELSE "answer",
                                         !.res = ~fav, !.guard = tile[t].guard]]
      BY <1>1, <2>2 DEF InsertHeart, Tiles
    <3>2. QED
      BY <1>1, <3>1
  <2>3. CASE Again(t)
    <3>1. tile' = [tile EXCEPT ![t] = [tile[t] EXCEPT !.pc = "send",
                                         !.res = tile[t].res, !.guard = tile[t].guard + 1]]
      BY <1>1, <2>3 DEF Again, Tiles
    <3>2. tile[t].guard + 1 \in 0..GuardMax /\ tile[t].res \in BOOLEAN
      BY <1>1, <2>3, ToggleAssumption DEF Again, GoesOn, Tiles
    <3>3. QED
      BY <3>1, <3>2
  <2>4. QED
    BY <2>1, <2>2, <2>3
<1>4. /\ tile' \in [Tile -> Tiles]
      /\ tile'[t].pc = pc /\ tile'[t].res = res
      /\ \A u \in Tile : /\ tile'[u].shown = tile[u].shown
                         /\ tile'[u].desired = tile[u].desired
                         /\ tile'[u].confirmed = tile[u].confirmed
                         /\ u # t => tile'[u] = tile[u]
  BY <1>1, <1>3 DEF Tiles
<1>5. tile[t].pc # "idle"
  BY DEF DeleteRow, InsertHeart, Again
<1>6. fav' \in BOOLEAN /\ apart' \in BOOLEAN /\ (~apart' => ~apart)
  BY <1>1 DEF DeleteRow, InsertHeart, Again
<1>7. ToggleTypeOK'
  BY <1>1, <1>2, <1>4, <1>6 DEF ToggleInv, ToggleTypeOK, Tiles
<1>8. ASSUME ~apart', faults' = 0 PROVE OneStory'
  <2>1. OneStory
    BY <1>2, <1>6, <1>8 DEF ToggleInv
  <2>2. Busy = {t} /\ Busy' = {t}
    <3>1. \A u \in Tile : u # t => tile[u].pc = "idle"
      BY <1>5, <2>1 DEF OneStory, Busy
    <3>2. QED
      BY <1>4, <1>5, <3>1 DEF Busy
  <2>3. /\ tile'[t].pc # "fail"
        /\ tile'[t].pc = "insert" => ~fav'
        /\ tile'[t].pc = "answer" => tile'[t].res = fav'
    <3>1. CASE DeleteRow(t)
      BY <1>1, <3>1 DEF DeleteRow, Tiles
    <3>2. CASE InsertHeart(t)
      BY <1>1, <1>8, <3>2 DEF InsertHeart, Tiles
    <3>3. CASE Again(t)
      BY <1>1, <3>3 DEF Again, Tiles
    <3>4. QED
      BY <3>1, <3>2, <3>3
  <2>4. \A u \in Tile : u # t => tile'[u].pc = "idle"
    BY <2>2 DEF Busy
  <2>5. \A u \in Tile : /\ tile'[u].pc # "fail"
                        /\ tile'[u].pc = "insert" => ~fav'
                        /\ tile'[u].pc = "answer" => tile'[u].res = fav'
    BY <2>3, <2>4
  <2>6. QED
    BY <1>2, <1>4, <2>1, <2>2, <2>5 DEF OneStory
<1>9. QED
  BY <1>7, <1>8 DEF ToggleInv

(* The loop ends with what the server said.                                 *)
LEMMA FinishStep ==
    ASSUME ToggleInv, NEW t \in Tile, Finish(t)
    PROVE  ToggleInv'
<1> DEFINE res == tile[t].res
           ended == [u \in Tile |->
                       IF u = t THEN [shown |-> res, desired |-> tile[t].desired,
                                      confirmed |-> res, pc |-> "idle",
                                      res |-> FALSE, guard |-> 0]
                       ELSE tile[u]]
<1>1. /\ tile \in [Tile -> Tiles] /\ fav \in BOOLEAN /\ badge \in Nat
      /\ ids \in BOOLEAN \cup {Null} /\ apart \in BOOLEAN
      /\ res \in BOOLEAN /\ tile[t].desired \in BOOLEAN /\ tile[t].pc = "answer"
  BY DEF ToggleInv, ToggleTypeOK, Tiles, Finish
<1>2. ended \in [Tile -> Tiles]
  BY <1>1, ToggleAssumption DEF Tiles
<1>3. /\ ids' = IdsAfter(res)
      /\ badge' = IF res = tile[t].desired THEN badge
                  ELSE BumpBadge(badge, One(res), One(tile[t].desired))
      /\ UNCHANGED <<fav, island, faults, apart>>
  BY DEF Finish, Ended
<1>4. tile' = Mirror(ended, ids')
  <2>1. ended = [tile EXCEPT ![t] =
                   [@ EXCEPT !.pc = "idle", !.confirmed = res, !.shown = res,
                             !.res = FALSE, !.guard = 0]]
    BY <1>1 DEF Tiles
  <2>2. QED
    BY <2>1 DEF Finish, Ended
<1>5. /\ ended[t].pc = "idle"
      /\ \A u \in Tile : u # t => ended[u] = tile[u]
  OBVIOUS
<1> HIDE DEF ended
<1>6. /\ ids' \in BOOLEAN \cup {Null}
      /\ ids \in BOOLEAN => ids' = res
  BY <1>1, <1>3, IdsTyped DEF ToggleInv
<1>7. /\ tile' \in [Tile -> Tiles]
      /\ \A u \in Tile : tile'[u].pc = ended[u].pc /\ tile'[u].res = ended[u].res
  BY <1>2, <1>4, <1>6, MirrorTyped
<1>8. badge' \in Nat
  BY <1>1, <1>3, BadgeIsNat
<1>9. ToggleTypeOK'
  BY <1>1, <1>3, <1>6, <1>7, <1>8 DEF ToggleInv, ToggleTypeOK, Tiles
<1>10. ASSUME ~apart', faults' = 0 PROVE OneStory'
  <2>1. OneStory
    BY <1>3, <1>10 DEF ToggleInv
  <2>2. ids' = res /\ res = fav /\ ids \in BOOLEAN /\ badge = One(ids) /\ tile[t].desired = ids
    BY <1>1, <1>6, <2>1 DEF OneStory
  <2>3. badge' = One(ids')
    BY <1>1, <1>3, <2>2, BadgeIsExact
  <2>4. \A u \in Tile : u # t => tile[u].pc = "idle"
    BY <1>1, <2>1 DEF OneStory, Busy
  <2>5. \A u \in Tile : ended[u].pc = "idle"
    BY <1>5, <2>4
  <2>6. \A u \in Tile : /\ tile'[u].shown = ids' /\ tile'[u].desired = ids'
                        /\ tile'[u].confirmed = ids' /\ tile'[u].pc = "idle"
    BY <1>1, <1>2, <1>4, <1>7, <2>2, <2>5, MirrorShows
  <2>7. Busy' = {}
    BY <2>6 DEF Busy
  <2>8. QED
    BY <1>1, <1>3, <2>2, <2>3, <2>6, <2>7 DEF OneStory
<1>11. QED
  BY <1>9, <1>10 DEF ToggleInv

(* The catch: only where a request failed.                                  *)
LEMMA RollBackStep ==
    ASSUME ToggleInv, NEW t \in Tile, RollBack(t)
    PROVE  ToggleInv'
<1> DEFINE target == tile[t].confirmed
           back == [u \in Tile |->
                      IF u = t THEN [shown |-> target, desired |-> target,
                                     confirmed |-> target, pc |-> "idle",
                                     res |-> FALSE, guard |-> 0]
                      ELSE tile[u]]
<1>1. /\ tile \in [Tile -> Tiles] /\ badge \in Nat /\ target \in BOOLEAN
      /\ tile[t].desired \in BOOLEAN /\ tile[t].pc = "fail"
  BY DEF ToggleInv, ToggleTypeOK, Tiles, RollBack
<1>2. back \in [Tile -> Tiles]
  BY <1>1, ToggleAssumption DEF Tiles
<1>3. /\ ids' = IdsAfter(target)
      /\ badge' = BumpBadge(badge, One(target), One(tile[t].desired))
      /\ UNCHANGED <<fav, island, faults, apart>>
  BY DEF RollBack
<1>4. tile' = Mirror(back, ids')
  <2>1. back = [tile EXCEPT ![t] =
                   [tile[t] EXCEPT !.pc = "idle", !.shown = target, !.desired = target,
                                   !.res = FALSE, !.guard = 0]]
    BY <1>1 DEF Tiles
  <2>2. QED
    BY <2>1 DEF RollBack
<1> HIDE DEF back
<1>5. ids' \in BOOLEAN \cup {Null} /\ badge' \in Nat
  BY <1>1, <1>3, IdsTyped, BadgeIsNat DEF ToggleInv
<1>6. tile' \in [Tile -> Tiles]
  BY <1>2, <1>4, <1>5, MirrorTyped
<1>7. ToggleTypeOK'
  BY <1>3, <1>5, <1>6 DEF ToggleInv, ToggleTypeOK, Tiles
<1>8. ~(~apart /\ faults = 0)
  BY <1>1 DEF ToggleInv, OneStory
<1>9. QED
  BY <1>3, <1>7, <1>8 DEF ToggleInv

(* A failure or a second tab: what the page shows is no longer promised.    *)
LEMMA DisturbStep ==
    ASSUME ToggleInv, OtherFlip \/ IslandFails \/ \E t \in Tile : Fault(t)
    PROVE  ToggleInv'
<1>1. CASE OtherFlip
  BY <1>1 DEF OtherFlip, ClientUnchanged, ToggleInv, ToggleTypeOK
<1>2. CASE IslandFails
  <2>1. island' \in [pc : {"idle", "read", "landed", "failed"}, got : BOOLEAN]
    BY <1>2 DEF IslandFails, ToggleInv, ToggleTypeOK
  <2>2. faults' \in 0..MaxFaults /\ faults' # 0
    BY <1>2, ToggleAssumption DEF IslandFails, ToggleInv, ToggleTypeOK
  <2>3. QED
    BY <1>2, <2>1, <2>2 DEF IslandFails, ToggleInv, ToggleTypeOK
<1>3. ASSUME NEW t \in Tile, Fault(t) PROVE ToggleInv'
  <2>1. tile' \in [Tile -> Tiles]
    BY <1>3 DEF Fault, ToggleInv, ToggleTypeOK, Tiles
  <2>2. faults' \in 0..MaxFaults /\ faults' # 0
    BY <1>3, ToggleAssumption DEF Fault, ToggleInv, ToggleTypeOK
  <2>3. apart' \in BOOLEAN
    BY <1>3 DEF Fault, ToggleInv, ToggleTypeOK
  <2>4. QED
    BY <1>3, <2>1, <2>2, <2>3 DEF Fault, ClientUnchanged, ToggleInv, ToggleTypeOK, Tiles
<1>4. QED
  BY <1>1, <1>2, <1>3

(* The island reads, and lands: with no toggle since, the page is made over *)
(* to what it read.                                                         *)
LEMMA IslandStep ==
    ASSUME ToggleInv, ReadIsland \/ LandIsland
    PROVE  ToggleInv'
<1>1. CASE ReadIsland
  BY <1>1 DEF ReadIsland, ToggleInv, ToggleTypeOK, OneStory, Busy
<1>2. CASE LandIsland
  <2>1. /\ tile \in [Tile -> Tiles] /\ fav \in BOOLEAN
        /\ ids' = island.got /\ island.got \in BOOLEAN
        /\ badge' = One(ids') /\ tile' = Mirror(tile, ids')
        /\ apart' = (Busy # {} \/ island.got # fav)
        /\ UNCHANGED <<fav, faults>>
    BY <1>2 DEF LandIsland, ToggleInv, ToggleTypeOK, Tiles
  <2>2. /\ tile' \in [Tile -> Tiles]
        /\ \A u \in Tile : tile'[u].pc = tile[u].pc
    BY <2>1, MirrorTyped
  <2>3. badge' \in Nat
    BY <2>1 DEF One
  <2>4. island' \in [pc : {"idle", "read", "landed", "failed"}, got : BOOLEAN]
    BY <1>2 DEF LandIsland, ToggleInv, ToggleTypeOK
  <2>5. ToggleTypeOK'
    BY <2>1, <2>2, <2>3, <2>4 DEF ToggleInv, ToggleTypeOK, Tiles
  <2>6. ASSUME ~apart' PROVE OneStory'
    <3>1. Busy = {} /\ island.got = fav
      BY <2>1, <2>6
    <3>2. \A u \in Tile : tile[u].pc = "idle"
      BY <3>1 DEF Busy
    <3>3. \A u \in Tile : /\ tile'[u].shown = ids' /\ tile'[u].desired = ids'
                          /\ tile'[u].confirmed = ids' /\ tile'[u].pc = "idle"
      BY <2>1, <2>2, <3>2, MirrorShows
    <3>4. Busy' = {}
      BY <3>3 DEF Busy
    <3>5. QED
      BY <2>1, <3>1, <3>3, <3>4 DEF OneStory
  <2>7. QED
    BY <2>5, <2>6 DEF ToggleInv
<1>3. QED
  BY <1>1, <1>2

LEMMA ToggleStep == ToggleInv /\ [ToggleNext]_toggleVars => ToggleInv'
<1> SUFFICES ASSUME ToggleInv, [ToggleNext]_toggleVars PROVE ToggleInv'
  OBVIOUS
<1>1. ASSUME NEW t \in Tile, Tap(t) PROVE ToggleInv'
  <2>1. PICK intent \in {~tile[t].shown, TRUE} : TapBusy(t, intent) \/ TapIdle(t, intent)
    BY <1>1 DEF Tap
  <2>2. intent \in BOOLEAN
    BY DEF ToggleInv, ToggleTypeOK
  <2>3. QED
    BY <2>1, <2>2, TapStep
<1>2. CASE UNCHANGED toggleVars
  BY <1>2 DEF toggleVars, ToggleInv, ToggleTypeOK, OneStory, Busy
<1>3. QED
  BY <1>1, <1>2, ServerHalfStep, FinishStep, RollBackStep, DisturbStep, IslandStep DEF ToggleNext

(* Whatever taps, double taps, answers, failures, a second tab and the      *)
(* island's late answer do, a page they left alone shows at rest what the   *)
(* server has, on every tile, and counts it.                                *)
THEOREM RestingPageAlwaysMatches == ToggleSpec => []RestingPageMatchesServer
<1>1. ToggleInv => RestingPageMatchesServer
  BY DEF ToggleInv, OneStory, RestingPageMatchesServer
<1>2. QED
  BY ToggleFirst, ToggleStep, <1>1, PTL DEF ToggleSpec

-----------------------------------------------------------------------------
(* Notifications: the log, the queue, and the handlers of its jobs.         *)
Rules == [enabled : BOOLEAN, interval : Nat, min : Nat]
LogRows == [status : Status, at : Time, by : Caller \cup {NoChat}]
Jobs == [state : {"free", "queued", "active", "done", "dead"},
         row : RowId \cup {NoRow}, tries : Nat]
Calls == [pc : {"idle", "min", "load", "rule", "throttle", "insert", "send", "done"},
          row : RowId \cup {NoRow}, looked : SUBSET RowId, start : Time, interval : Nat]
Hands == [pc : {"idle", "read", "skip", "limit", "post", "sent",
                "failed", "bump", "return", "throw"},
          job : 0..MaxJob, row : RowId \cup {NoRow}, took : BOOLEAN]

\* Who holds a row holds one that is in the log; a handler knows its job's.
CallsKnowRows ==
    \A c \in Caller :
      /\ call[c].pc = "idle" => call[c] = Idle
      /\ call[c].pc \in {"rule", "throttle", "insert"} => call[c].row \in RowId
      /\ call[c].pc = "send" => call[c].row \in Logged
JobsKnowRows == \A j \in Job : job[j].state # "free" => job[j].row \in Logged
HandsKnowJobs ==
    \A h \in Handler :
      /\ hand[h].pc = "idle" => hand[h] = IdleHand
      /\ hand[h].pc # "idle" => /\ hand[h].job \in Job /\ job[hand[h].job].state # "free"
                                /\ hand[h].row = job[hand[h].job].row
      /\ hand[h].took <=> hand[h].pc = "sent"

\* A job that nobody is about to complete.
Carries(j, r) ==
    /\ job[j].row = r /\ job[j].state \in {"queued", "active"}
    /\ \A h \in Handler : hand[h].job = j => hand[h].pc # "return"
RowsInCare ==
    \A r \in RowId : log[r].status = "queued" =>
      \/ r \in stranded
      \/ \E c \in Caller : call[c].pc = "send" /\ call[c].row = r
      \/ \E j \in Job : Carries(j, r)

\* Each row of the stream the dispatch saw is older than the interval, now
\* while it may insert its own, at the insert afterwards.
Spaced(c, mine, t) ==
    \A x \in call[c].looked : SameStream(x, mine) => log[x].at + call[c].interval <= t
LooksBack ==
    /\ \A r \in Logged : log[r].at <= now
    /\ \A c \in Dispatch :
         /\ call[c].looked \subseteq Logged
         /\ call[c].pc = "insert" => Spaced(c, call[c].row, now)
    /\ \A q \in Logged : log[q].by \in Dispatch =>
         /\ call[log[q].by].pc \in {"send", "done"}
         /\ Spaced(log[q].by, q, log[q].at)

\* Handlers that may still post the row, or have and not written so.
AtWork == {"read", "skip", "limit", "post", "sent", "failed"}
WorkingOf(hands, r) == {h \in Handler : hands[h].row = r /\ hands[h].pc \in AtWork}
TookOf(hands, r) == {h \in Handler : hands[h].row = r /\ hands[h].took}
Working(r) == WorkingOf(hand, r)
Took(r) == TookOf(hand, r)
Reading(r) == \E h \in Working(r) : hand[h].pc = "read" /\ Attending(h)
Attended(r) == \E h \in Working(r) : Attending(h)
Bit(b) == IF b THEN 1 ELSE 0

\* A delivered row is posted again only by handlers past their reading of it;
\* each but one of those that are at work lost its job.
RowAccounted(r) ==
    accepted[r] + Cardinality(Working(r)) <=
      unrecorded[r] + Cardinality(Took(r)) + count.overruns +
        IF log[r].status = "sent" THEN 1 + Bit(Reading(r)) ELSE Bit(Attended(r))

\* The same, with handler h, at pc and with or without an unwritten message,
\* apart from the others of the row.
OthersWorking(h, r) == Cardinality(WorkingOf(hand, r) \ {h})
OthersTook(h, r) == Cardinality(TookOf(hand, r) \ {h})
OthersReading(h, r) == \E g \in WorkingOf(hand, r) \ {h} : hand[g].pc = "read" /\ Attending(g)
OthersAttended(h, r) == \E g \in WorkingOf(hand, r) \ {h} : Attending(g)
Fits(h, r, pc, took, acc, unrec, sent) ==
    acc + OthersWorking(h, r) + Bit(pc \in AtWork) <=
      unrec + OthersTook(h, r) + Bit(took) + count.overruns +
        IF sent THEN 1 + Bit(OthersReading(h, r) \/ (pc = "read" /\ Attending(h)))
        ELSE Bit(OthersAttended(h, r) \/ (pc \in AtWork /\ Attending(h)))
RowsAccounted == \A r \in RowId : RowAccounted(r)

KnowRows == CallsKnowRows /\ JobsKnowRows /\ HandsKnowJobs
NotifyInv == NotifyTypeOK /\ KnowRows /\ RowsInCare /\ LooksBack /\ RowsAccounted

-----------------------------------------------------------------------------
LEMMA QuotientSmaller ==
    ASSUME NEW n \in Nat, n > 0, NEW t \in Nat
    PROVE  t \div n \in Nat /\ t \div n <= t
<1> DEFINE q == t \div n
<1>1. q \in Nat /\ n * q <= t
  OBVIOUS
<1> HIDE DEF q
<1>2. PICK k \in Nat : n = k + 1
  <2>1. n - 1 \in Nat /\ n = (n - 1) + 1
    OBVIOUS
  <2>2. QED
    BY <2>1
<1>3. n * q = k * q + q /\ k * q \in Nat
  BY <1>1, <1>2
<1>4. q <= t
  BY <1>1, <1>3
<1>5. QED
  BY <1>1, <1>4 DEF q

LEMMA BucketTyped ==
    ASSUME NEW e \in Event, NEW t \in Time PROVE BucketOf(e, t) \in Bucket
<1>1. BucketLen[e] \in Nat /\ MaxTime \in Nat
  BY ConstantsAssumption
<1>2. CASE BucketLen[e] = 0
  BY <1>1, <1>2 DEF BucketOf, Bucket
<1>3. CASE BucketLen[e] # 0
  <2>1. t \div BucketLen[e] \in Nat /\ t \div BucketLen[e] <= t
    BY <1>1, <1>3, QuotientSmaller DEF Time
  <2>2. QED
    BY <1>1, <1>3, <2>1 DEF BucketOf, Bucket, Time
<1>4. QED
  BY <1>2, <1>3

LEMMA RowTyped ==
    ASSUME NEW e \in Event, NEW s \in Subject, NEW t \in Time, NEW c \in Chat
    PROVE  <<e, s, BucketOf(e, t), c>> \in RowId
BY BucketTyped DEF RowId

\* The type invariant, by the names this module gives its parts.
LEMMA NotifyTypes ==
    NotifyTypeOK <=>
      /\ now \in Time
      /\ rules \in [Ruled -> Rules]
      /\ log \in [RowId -> LogRows]
      /\ job \in [Job -> Jobs]
      /\ call \in [Caller -> Calls]
      /\ hand \in [Handler -> Hands]
      /\ token \in BOOLEAN
      /\ accepted \in [RowId -> Nat] /\ unrecorded \in [RowId -> Nat]
      /\ stranded \subseteq RowId
      /\ count \in [faults : Nat, overruns : Nat, edits : Nat]
BY DEF NotifyTypeOK, Rules, LogRows, Jobs, Calls, Hands

-----------------------------------------------------------------------------
(* The first state.                                                         *)
LEMMA NotifyFirst == NotifyInit => NotifyInv
<1> SUFFICES ASSUME NotifyInit PROVE NotifyInv
  OBVIOUS
<1>1. NotifyTypeOK
  <2>1. rules \in [Ruled -> Rules]
    BY ConstantsAssumption DEF NotifyInit, Rules
  <2>2. now \in Time /\ log \in [RowId -> LogRows]
    BY ConstantsAssumption DEF NotifyInit, Time, LogRows, Status
  <2>3. job \in [Job -> Jobs] /\ hand \in [Handler -> Hands]
    BY ConstantsAssumption DEF NotifyInit, Jobs, IdleHand, Hands
  <2>4. call \in [Caller -> Calls]
    BY ConstantsAssumption DEF NotifyInit, Idle, Calls, Time
  <2>5. QED
    BY <2>1, <2>2, <2>3, <2>4, NotifyTypes DEF NotifyInit
<1>2. Logged = {}
  BY DEF NotifyInit, Logged
<1>3. KnowRows
  BY DEF NotifyInit, KnowRows, CallsKnowRows, JobsKnowRows, HandsKnowJobs, Idle, IdleHand
<1>4. RowsInCare
  BY DEF NotifyInit, RowsInCare
<1>5. LooksBack
  BY <1>2 DEF NotifyInit, LooksBack, Idle, Caller
<1>6. RowsAccounted
  <2>1. SUFFICES ASSUME NEW r \in RowId PROVE RowAccounted(r)
    BY DEF RowsAccounted
  <2>2. Working(r) = {} /\ Took(r) = {}
    BY DEF NotifyInit, Working, Took, WorkingOf, TookOf, IdleHand, AtWork
  <2>3. ~Attended(r) /\ log[r].status # "sent"
    BY <2>2 DEF NotifyInit, Attended
  <2>4. QED
    BY <2>2, <2>3, FS_EmptySet DEF NotifyInit, RowAccounted, Bit
<1>7. QED
  BY <1>1, <1>3, <1>4, <1>5, <1>6 DEF NotifyInv

-----------------------------------------------------------------------------
(* What a step leaves alone.                                                *)

LEMMA RecordsTyped ==
    ASSUME NotifyInv
    PROVE  /\ now \in Time /\ now \in Nat
           /\ rules \in [Ruled -> Rules]
           /\ log \in [RowId -> LogRows]
           /\ job \in [Job -> Jobs]
           /\ call \in [Caller -> Calls]
           /\ hand \in [Handler -> Hands]
           /\ token \in BOOLEAN
           /\ accepted \in [RowId -> Nat] /\ unrecorded \in [RowId -> Nat]
           /\ stranded \subseteq RowId
           /\ count \in [faults : Nat, overruns : Nat, edits : Nat]
BY NotifyTypes, ConstantsAssumption DEF NotifyInv, Time

LEMMA AccountsStay ==
    ASSUME RowsAccounted, UNCHANGED <<hand, accepted, unrecorded>>,
           count'.overruns = count.overruns,
           \A r \in RowId : log'[r].status = "sent" <=> log[r].status = "sent",
           \A h \in Handler : Attending(h)' <=> Attending(h)
    PROVE  RowsAccounted'
<1> SUFFICES ASSUME NEW r \in RowId PROVE RowAccounted(r)'
  BY DEF RowsAccounted
<1>1. Working(r)' = Working(r) /\ Took(r)' = Took(r)
  BY DEF Working, Took, WorkingOf, TookOf
<1>2. (Reading(r)' <=> Reading(r)) /\ (Attended(r)' <=> Attended(r))
  <2>1. Working(r) \subseteq Handler
    BY DEF Working, WorkingOf
  <2>2. Reading(r)' <=> \E h \in Working(r) : hand[h].pc = "read" /\ Attending(h)
    BY <1>1, <2>1 DEF Reading
  <2>3. Attended(r)' <=> \E h \in Working(r) : Attending(h)
    BY <1>1, <2>1 DEF Attended
  <2>4. QED
    BY <2>2, <2>3 DEF Reading, Attended
<1>3. RowAccounted(r)
  BY DEF RowsAccounted
<1>4. Bit(Reading(r)') = Bit(Reading(r)) /\ Bit(Attended(r)') = Bit(Attended(r))
  BY <1>2 DEF Bit
<1>5. QED
  BY <1>1, <1>3, <1>4 DEF RowAccounted, Bit

\* A step of a dispatch that writes nothing.
LEMMA CallMoves ==
    ASSUME NotifyInv, NEW c \in Caller, NEW x \in Calls,
           call' = [call EXCEPT ![c] = x], DispatchUnchanged,
           call[c].pc \in {"idle", "min", "load", "rule", "throttle", "insert"},
           x.pc \in {"min", "load", "rule", "throttle", "insert", "done"},
           x.pc \in {"rule", "throttle", "insert"} => x.row \in RowId,
           c \in Dispatch => x.looked \subseteq Logged,
           x.pc = "insert" =>
             \A y \in x.looked : SameStream(y, x.row) => log[y].at + x.interval <= now
    PROVE  NotifyInv'
<1>1. c \in Caller /\ call'[c] = x /\ \A d \in Caller : d # c => call'[d] = call[d]
  BY RecordsTyped DEF Caller
<1>2. UNCHANGED <<now, rules, log, job, hand, token, accepted, unrecorded, stranded, count>>
      /\ Logged' = Logged
  BY DEF DispatchUnchanged, Logged
<1>3. call' \in [Caller -> Calls]
  BY <1>1, RecordsTyped
<1>4. NotifyTypeOK'
  BY <1>2, <1>3 DEF NotifyInv, NotifyTypeOK, Calls
<1>5. KnowRows'
  <2>1. CallsKnowRows'
    BY <1>1, <1>2 DEF NotifyInv, KnowRows, CallsKnowRows
  <2>2. QED
    BY <1>2, <2>1 DEF NotifyInv, KnowRows, JobsKnowRows, HandsKnowJobs
<1>6. RowsInCare'
  <2>1. \A d \in Caller : call[d].pc = "send" => call'[d] = call[d]
    BY <1>1
  <2>2. QED
    BY <1>2, <2>1 DEF NotifyInv, RowsInCare, Carries
<1>7. LooksBack'
  <2>1. \A r \in Logged' : log'[r].at <= now'
    BY <1>2 DEF NotifyInv, LooksBack
  <2>2. ASSUME NEW d \in Dispatch
        PROVE  /\ call'[d].looked \subseteq Logged'
               /\ call'[d].pc = "insert" => Spaced(d, call[d].row, now)'
    <3>1. d \in Caller
      BY DEF Caller
    <3>2. CASE d = c
      BY <1>1, <1>2, <3>2 DEF Spaced
    <3>3. CASE d # c
      BY <1>1, <1>2, <3>1, <3>3 DEF NotifyInv, LooksBack, Spaced
    <3>4. QED
      BY <3>2, <3>3
  <2>3. ASSUME NEW q \in Logged', log'[q].by \in Dispatch
        PROVE  /\ call'[log'[q].by].pc \in {"send", "done"}
               /\ Spaced(log[q].by, q, log[q].at)'
    <3>1. q \in Logged /\ log'[q] = log[q] /\ log[q].by \in Caller
      BY <1>2, <2>3 DEF Caller
    <3>2. call[log[q].by].pc \in {"send", "done"} /\ Spaced(log[q].by, q, log[q].at)
      BY <2>3, <3>1 DEF NotifyInv, LooksBack
    <3>3. call'[log[q].by] = call[log[q].by]
      BY <1>1, <3>1, <3>2
    <3>4. QED
      BY <1>2, <3>1, <3>2, <3>3 DEF Spaced
  <2>4. QED
    BY <2>1, <2>2, <2>3 DEF LooksBack
<1>8. RowsAccounted'
  <2>1. \A h \in Handler : Attending(h)' <=> Attending(h)
    BY <1>2 DEF Attending
  <2>2. QED
    BY <1>2, <2>1, AccountsStay DEF NotifyInv
<1>9. QED
  BY <1>4, <1>5, <1>6, <1>7, <1>8 DEF NotifyInv

LEMMA DispatchSteps ==
    ASSUME NotifyInv, NEW c \in Caller,
           Begin(c) \/ CheckMin(c) \/ LoadSettings(c) \/ ReadRule(c) \/ CheckThrottle(c)
    PROVE  NotifyInv'
<1>1. c \in Dispatch
  BY DEF Begin, CheckMin, LoadSettings, ReadRule, CheckThrottle
<1>2. /\ call \in [Caller -> Calls] /\ now \in Time /\ now \in Nat /\ call[c] \in Calls
      /\ rules \in [Ruled -> Rules]
  BY RecordsTyped
<1>3. /\ call[c].looked \subseteq Logged
      /\ call[c].pc = "idle" => call[c] = Idle
      /\ call[c].pc \in {"rule", "throttle", "insert"} => call[c].row \in RowId
  BY <1>1 DEF NotifyInv, LooksBack, KnowRows, CallsKnowRows
<1>4. \A r \in Logged : log[r].at \in Nat /\ log[r].at <= now
  <2>1. \A r \in RowId : log[r].at \in Time
    BY RecordsTyped DEF LogRows
  <2>2. QED
    BY <2>1, ConstantsAssumption DEF NotifyInv, LooksBack, Logged, Time
<1>5. CASE Begin(c) \/ CheckMin(c)
  <2>1. PICK pc \in {"min", "load", "done"} :
          call' = [call EXCEPT ![c].start = now, ![c].pc = pc]
    <3>1. CASE Begin(c)
      BY <3>1 DEF Begin
    <3>2. CASE CheckMin(c)
      BY <3>2 DEF CheckMin
    <3>3. QED
      BY <1>5, <3>1, <3>2
  <2> DEFINE x == [[call[c] EXCEPT !.start = now] EXCEPT !.pc = pc]
  <2>2. /\ x \in Calls /\ call' = [call EXCEPT ![c] = x]
        /\ x.pc = pc /\ x.looked = call[c].looked
    BY <1>2, <2>1 DEF Calls
  <2>3. call[c].pc \in {"idle", "min"} /\ DispatchUnchanged
    BY <1>5 DEF Begin, MayBegin, CheckMin
  <2>4. x.pc \in {"min", "load", "done"} /\ x.looked \subseteq Logged
    BY <1>3, <2>2
  <2> HIDE DEF x
  <2>5. QED
    BY <1>1, <2>2, <2>3, <2>4, CallMoves
<1>6. CASE LoadSettings(c)
  <2>1. PICK section \in Setting :
          call' = [call EXCEPT ![c] =
            IF ChatFor(section, EventOf[c]) = NoChat THEN [@ EXCEPT !.pc = "done"]
            ELSE [@ EXCEPT !.pc = "rule",
                    !.row = <<EventOf[c], SubjectOf[c], BucketOf(EventOf[c], call[c].start),
                              ChatFor(section, EventOf[c])>>]]
    BY <1>6 DEF LoadSettings
  <2> DEFINE chat == ChatFor(section, EventOf[c])
             mine == <<EventOf[c], SubjectOf[c], BucketOf(EventOf[c], call[c].start), chat>>
             x == IF chat = NoChat THEN [call[c] EXCEPT !.pc = "done"]
                  ELSE [call[c] EXCEPT !.pc = "rule", !.row = mine]
  <2>2. chat \in Chat \cup {NoChat}
    BY ConstantsAssumption DEF ChatFor
  <2>3. chat # NoChat => mine \in RowId
    BY <1>1, <1>2, <2>2, RowTyped, ConstantsAssumption DEF Calls
  <2>4. call' = [call EXCEPT ![c] = x]
    BY <2>1
  <2>5. call[c].pc = "load" /\ DispatchUnchanged
    BY <1>6 DEF LoadSettings
  <2> HIDE DEF chat, mine
  <2>6. x \in Calls
    BY <1>2, <2>3 DEF Calls
  <2>7. /\ x.pc \in {"rule", "done"} /\ x.looked = call[c].looked
        /\ x.pc = "rule" => x.row \in RowId
    BY <1>2, <2>3 DEF Calls
  <2> HIDE DEF x
  <2>8. QED
    BY <1>1, <1>3, <2>4, <2>5, <2>6, <2>7, CallMoves
<1>7. CASE ReadRule(c)
  <2> DEFINE e == EventOf[c]
             off == e \notin Ruled \/ ~rules[e].enabled
             gap == rules[e].interval
             x == IF off THEN [call[c] EXCEPT !.pc = "done"]
                  ELSE [call[c] EXCEPT !.interval = gap,
                          !.pc = IF gap > 0 THEN "throttle" ELSE "insert"]
  <2>1. call' = [call EXCEPT ![c] = x]
    <3>1. CASE off
      BY <1>7, <3>1 DEF ReadRule
    <3>2. CASE ~off
      BY <1>7, <3>2 DEF ReadRule
    <3>3. QED
      BY <3>1, <3>2
  <2>2. ~off => gap \in Nat
    BY <1>2 DEF Rules
  <2>3. call[c].pc = "rule" /\ DispatchUnchanged
    BY <1>7 DEF ReadRule
  <2> HIDE DEF gap, off
  <2>4. x \in Calls
    BY <1>2, <2>2 DEF Calls
  <2>5. /\ x.pc \in {"throttle", "insert", "done"} /\ x.looked = call[c].looked
        /\ x.row = call[c].row
        /\ x.pc = "insert" => x.interval = 0
    BY <1>2, <2>2 DEF Calls
  <2> HIDE DEF x
  <2>6. x.pc = "insert" =>
          \A y \in x.looked : SameStream(y, x.row) => log[y].at + x.interval <= now
    BY <1>2, <1>3, <1>4, <2>5
  <2>7. QED
    BY <1>1, <1>3, <2>1, <2>3, <2>4, <2>5, <2>6, CallMoves
<1>8. CASE CheckThrottle(c)
  <2> DEFINE recent == RecentRows(call[c].row, call[c].interval, now)
             x == [pc |-> IF recent = {} THEN "insert" ELSE "done",
                   row |-> call[c].row, looked |-> Logged,
                   start |-> call[c].start, interval |-> call[c].interval]
  <2>1. call' = [call EXCEPT ![c] = x]
    BY <1>2, <1>8 DEF CheckThrottle, Calls
  <2>2. call[c].pc = "throttle" /\ DispatchUnchanged
    BY <1>8 DEF CheckThrottle
  <2>3. recent = {} =>
          \A y \in Logged : SameStream(y, call[c].row) => log[y].at + call[c].interval <= now
    <3>1. call[c].interval \in Nat
      BY <1>2 DEF Calls
    <3>2. QED
      BY <1>2, <1>4, <3>1 DEF RecentRows
  <2> HIDE DEF recent
  <2>4. x \in Calls
    BY <1>2 DEF Calls, Logged
  <2>5. /\ x.pc \in {"insert", "done"} /\ x.looked \subseteq Logged /\ x.row \in RowId
        /\ x.pc = "insert" =>
             \A y \in x.looked : SameStream(y, x.row) => log[y].at + x.interval <= now
    BY <1>3, <2>2, <2>3
  <2> HIDE DEF x
  <2>6. QED
    BY <1>1, <2>1, <2>2, <2>4, <2>5, CallMoves
<1>9. QED
  BY <1>5, <1>6, <1>7, <1>8

\* What the dispatches saw stays as they saw it while rows keep their instants.
SameInstants ==
    \A r \in RowId : /\ log'[r].at = log[r].at /\ log'[r].by = log[r].by
                     /\ log'[r].status = "none" <=> log[r].status = "none"

LEMMA LooksStay ==
    ASSUME NotifyInv, SameInstants, now' \in Nat, now <= now',
           \A d \in Caller :
             /\ call'[d].looked = call[d].looked /\ call'[d].interval = call[d].interval
             /\ call'[d].pc = "insert" => call'[d] = call[d]
             /\ call[d].pc \in {"send", "done"} => call'[d].pc \in {"send", "done"}
    PROVE  LooksBack' /\ Logged' = Logged
<1>1. Logged' = Logged
  BY DEF SameInstants, Logged
<1>2. /\ log \in [RowId -> LogRows] /\ call \in [Caller -> Calls] /\ now \in Nat
      /\ \A r \in RowId : log[r].at \in Nat
      /\ \A d \in Caller : call[d].looked \subseteq RowId /\ call[d].interval \in Nat
  <2>1. \A r \in RowId : log[r].at \in Time
    BY RecordsTyped DEF LogRows
  <2>2. QED
    BY <2>1, RecordsTyped, ConstantsAssumption DEF Time, Calls
<1>3. LooksBack
  BY DEF NotifyInv
<1>4. \A r \in Logged' : log'[r].at <= now'
  BY <1>1, <1>2, <1>3 DEF LooksBack, SameInstants, Logged
<1>5. ASSUME NEW d \in Caller, NEW mine, NEW t \in Nat, NEW u \in Nat, t <= u, Spaced(d, mine, t)
      PROVE  \A y \in call'[d].looked :
               SameStream(y, mine) => log'[y].at + call'[d].interval <= u
  BY <1>2, <1>5 DEF Spaced, SameInstants
<1>6. ASSUME NEW d \in Dispatch
      PROVE  /\ call'[d].looked \subseteq Logged'
             /\ call'[d].pc = "insert" => Spaced(d, call[d].row, now)'
  <2>1. d \in Caller
    BY DEF Caller
  <2>2. call'[d].looked \subseteq Logged'
    BY <1>1, <1>3, <2>1 DEF LooksBack
  <2>3. ASSUME call'[d].pc = "insert" PROVE Spaced(d, call[d].row, now)'
    <3>1. call'[d] = call[d] /\ Spaced(d, call[d].row, now)
      BY <1>3, <2>1, <2>3 DEF LooksBack
    <3>2. QED
      BY <1>2, <1>5, <2>1, <3>1 DEF Spaced
  <2>4. QED
    BY <2>2, <2>3
<1>7. ASSUME NEW q \in Logged', log'[q].by \in Dispatch
      PROVE  /\ call'[log'[q].by].pc \in {"send", "done"}
             /\ Spaced(log[q].by, q, log[q].at)'
  <2>1. q \in Logged /\ q \in RowId /\ log'[q].by = log[q].by /\ log'[q].at = log[q].at
    BY <1>1 DEF SameInstants, Logged
  <2>2. log[q].by \in Caller
    BY <1>7, <2>1 DEF Caller
  <2>3. call[log[q].by].pc \in {"send", "done"} /\ Spaced(log[q].by, q, log[q].at)
    BY <1>3, <1>7, <2>1 DEF LooksBack
  <2>4. \A y \in call'[log[q].by].looked :
          SameStream(y, q) => log'[y].at + call'[log[q].by].interval <= log[q].at
    BY <1>2, <1>5, <2>1, <2>2, <2>3
  <2>5. QED
    BY <2>1, <2>2, <2>3, <2>4 DEF Spaced
<1>8. QED
  BY <1>1, <1>4, <1>6, <1>7 DEF LooksBack

(* The clock and the owner's rules.                                         *)
LEMMA QuietSteps ==
    ASSUME NotifyInv, Tick \/ \E e \in Ruled : UpdateRule(e)
    PROVE  NotifyInv'
<1>1. /\ UNCHANGED <<log, job, call, hand, token, accepted, unrecorded, stranded>>
      /\ count'.overruns = count.overruns
  BY RecordsTyped DEF Tick, UpdateRule
<1>2. now' \in Time /\ now' \in Nat /\ now <= now'
  BY RecordsTyped, ConstantsAssumption DEF Tick, UpdateRule, Time
<1>3. rules' \in [Ruled -> Rules]
  <2>1. CASE Tick
    BY <2>1, RecordsTyped DEF Tick
  <2>2. ASSUME NEW e \in Ruled, UpdateRule(e) PROVE rules' \in [Ruled -> Rules]
    BY <2>2, RecordsTyped, ConstantsAssumption DEF UpdateRule, Rules
  <2>3. QED
    BY <2>1, <2>2
<1>4. count' \in [faults : Nat, overruns : Nat, edits : Nat]
  BY RecordsTyped DEF Tick, UpdateRule
<1>5. NotifyTypeOK'
  BY <1>1, <1>2, <1>3, <1>4 DEF NotifyInv, NotifyTypeOK, Rules
<1>6. LooksBack' /\ Logged' = Logged
  BY <1>1, <1>2, LooksStay DEF SameInstants
<1>7. KnowRows' /\ RowsInCare'
  BY <1>1, <1>6 DEF NotifyInv, KnowRows, CallsKnowRows, JobsKnowRows, HandsKnowJobs,
                    RowsInCare, Carries
<1>8. RowsAccounted'
  <2>1. \A h \in Handler : Attending(h)' <=> Attending(h)
    BY <1>1 DEF Attending
  <2>2. QED
    BY <1>1, <2>1, AccountsStay DEF NotifyInv
<1>9. QED
  BY <1>5, <1>6, <1>7, <1>8 DEF NotifyInv

(* A row is written, or was already there.                                  *)
LEMMA InsertStep ==
    ASSUME NotifyInv, NEW c \in Caller, NEW mine \in RowId, InsertRow(c, mine),
           call[c].pc \in {"idle", "insert"},
           c \in Dispatch => Spaced(c, mine, now),
           UNCHANGED <<now, rules, job, hand, token, accepted, unrecorded, stranded, count>>
    PROVE  NotifyInv'
<1>1. /\ log \in [RowId -> LogRows] /\ call \in [Caller -> Calls] /\ call[c] \in Calls
      /\ now \in Time /\ now \in Nat
  BY RecordsTyped
<1>2. CASE log[mine].status # "none"
  <2>1. DispatchUnchanged /\ call' = [call EXCEPT ![c].pc = "done"]
    BY <1>2 DEF InsertRow, DispatchUnchanged
  <2> DEFINE x == [call[c] EXCEPT !.pc = "done"]
  <2>2. call' = [call EXCEPT ![c] = x]
    BY <2>1
  <2>3. x \in Calls /\ x.pc = "done" /\ x.looked = call[c].looked
    BY <1>1 DEF Calls
  <2>4. c \in Dispatch => x.looked \subseteq Logged
    BY <2>3 DEF NotifyInv, LooksBack
  <2> HIDE DEF x
  <2>5. QED
    BY <2>1, <2>2, <2>3, <2>4, CallMoves
<1>3. CASE log[mine].status = "none"
  <2>1. /\ log' = [log EXCEPT ![mine] = [status |-> "queued", at |-> now, by |-> c]]
        /\ call' = [call EXCEPT ![c].pc = "send", ![c].row = mine]
    BY <1>3 DEF InsertRow
  <2>2. /\ \A r \in RowId : r # mine => log'[r] = log[r]
        /\ log'[mine] = [status |-> "queued", at |-> now, by |-> c]
        /\ log' \in [RowId -> LogRows]
    BY <1>1, <2>1 DEF LogRows, Status
  <2>3. /\ \A d \in Caller : d # c => call'[d] = call[d]
        /\ call'[c].pc = "send" /\ call'[c].row = mine
        /\ call'[c].looked = call[c].looked /\ call'[c].interval = call[c].interval
        /\ call' \in [Caller -> Calls]
    BY <1>1, <2>1 DEF Calls
  <2>4. Logged' = Logged \cup {mine} /\ mine \notin Logged
    BY <1>3, <2>2 DEF Logged
  <2>5. NotifyTypeOK'
    BY <2>2, <2>3, NotifyTypes DEF NotifyInv, NotifyTypeOK, LogRows, Calls
  <2>6. KnowRows'
    <3>1. CallsKnowRows'
      <4>1. ASSUME NEW d \in Caller
            PROVE  /\ call'[d].pc = "idle" => call'[d] = Idle
                   /\ call'[d].pc \in {"rule", "throttle", "insert"} => call'[d].row \in RowId
                   /\ call'[d].pc = "send" => call'[d].row \in Logged'
        BY <2>3, <2>4 DEF NotifyInv, KnowRows, CallsKnowRows
      <4>2. QED
        BY <4>1 DEF CallsKnowRows
    <3>2. JobsKnowRows' /\ HandsKnowJobs'
      BY <2>4 DEF NotifyInv, KnowRows, JobsKnowRows, HandsKnowJobs
    <3>3. QED
      BY <3>1, <3>2 DEF KnowRows
  <2>7. RowsInCare'
    <3>1. SUFFICES ASSUME NEW r \in RowId, log'[r].status = "queued"
                   PROVE  \/ r \in stranded'
                          \/ \E d \in Caller : call'[d].pc = "send" /\ call'[d].row = r
                          \/ \E j \in Job : Carries(j, r)'
      BY DEF RowsInCare
    <3>2. CASE r = mine
      BY <2>3, <3>2
    <3>3. CASE r # mine
      <4>1. \/ r \in stranded
            \/ \E d \in Caller : call[d].pc = "send" /\ call[d].row = r
            \/ \E j \in Job : Carries(j, r)
        BY <2>2, <3>1, <3>3 DEF NotifyInv, RowsInCare
      <4>2. \A d \in Caller : call[d].pc = "send" => call'[d] = call[d]
        BY <2>3
      <4>3. \A j \in Job : Carries(j, r) => Carries(j, r)'
        BY DEF Carries
      <4>4. QED
        BY <4>1, <4>2, <4>3
    <3>4. QED
      BY <3>2, <3>3
  <2>8. LooksBack'
    <3>1. \A r \in Logged' : log'[r].at <= now'
      BY <1>1, <2>2, <2>4 DEF NotifyInv, LooksBack, Logged
    <3>2. ASSUME NEW d \in Dispatch, NEW u, NEW t \in Nat, Spaced(d, u, t)
          PROVE  /\ call'[d].looked \subseteq Logged'
                 /\ \A y \in call'[d].looked :
                      SameStream(y, u) => log'[y].at + call'[d].interval <= t
      <4>1. d \in Caller /\ call[d].looked \subseteq Logged
        BY DEF Caller, NotifyInv, LooksBack
      <4>2. call'[d].looked = call[d].looked /\ call'[d].interval = call[d].interval
        BY <2>3, <4>1
      <4>3. \A y \in Logged : log'[y] = log[y]
        BY <2>2, <2>4 DEF Logged
      <4>4. QED
        BY <2>4, <3>2, <4>1, <4>2, <4>3 DEF Spaced
    <3>3. ASSUME NEW d \in Dispatch
          PROVE  /\ call'[d].looked \subseteq Logged'
                 /\ call'[d].pc = "insert" => Spaced(d, call[d].row, now)'
      <4>1. d \in Caller
        BY DEF Caller
      <4>2. call'[d].looked \subseteq Logged'
        BY <2>3, <2>4, <4>1 DEF NotifyInv, LooksBack
      <4>3. ASSUME call'[d].pc = "insert" PROVE Spaced(d, call[d].row, now)'
        <5>1. call'[d] = call[d]
          BY <2>3, <4>1, <4>3
        <5>2. Spaced(d, call[d].row, now)
          BY <4>3, <5>1 DEF NotifyInv, LooksBack
        <5>3. QED
          BY <1>1, <3>2, <5>1, <5>2 DEF Spaced
      <4>4. QED
        BY <4>2, <4>3
    <3>4. ASSUME NEW q \in Logged', log'[q].by \in Dispatch
          PROVE  /\ call'[log'[q].by].pc \in {"send", "done"}
                 /\ Spaced(log[q].by, q, log[q].at)'
      <4>1. CASE q = mine
        <5>1. log'[q].by = c /\ log'[q].at = now /\ Spaced(c, mine, now) /\ c \in Dispatch
          BY <2>2, <3>4, <4>1
        <5>2. QED
          BY <1>1, <2>3, <3>2, <4>1, <5>1 DEF Spaced
      <4>2. CASE q # mine
        <5>1. q \in Logged /\ log'[q] = log[q]
          BY <2>2, <2>4, <4>2 DEF Logged
        <5>2. log[q].by \in Caller /\ log[q].at \in Nat
          BY <1>1, <3>4, <5>1, ConstantsAssumption DEF Logged, Caller, LogRows, Time
        <5>3. call[log[q].by].pc \in {"send", "done"} /\ Spaced(log[q].by, q, log[q].at)
          BY <3>4, <5>1 DEF NotifyInv, LooksBack
        <5>4. call'[log[q].by] = call[log[q].by]
          BY <2>3, <5>2, <5>3
        <5>5. QED
          BY <3>2, <3>4, <5>1, <5>2, <5>3, <5>4 DEF Spaced
      <4>3. QED
        BY <4>1, <4>2
    <3>5. QED
      BY <3>1, <3>3, <3>4 DEF LooksBack
  <2>9. RowsAccounted'
    <3>1. \A r \in RowId : log'[r].status = "sent" <=> log[r].status = "sent"
      BY <1>3, <2>2
    <3>2. \A h \in Handler : Attending(h)' <=> Attending(h)
      BY DEF Attending
    <3>3. QED
      BY <3>1, <3>2, AccountsStay DEF NotifyInv
  <2>10. QED
    BY <2>5, <2>6, <2>7, <2>8, <2>9 DEF NotifyInv
<1>4. QED
  BY <1>2, <1>3

LEMMA InsertSteps ==
    ASSUME NotifyInv, NEW c \in Caller, InsertLog(c) \/ TestInsert(c)
    PROVE  NotifyInv'
<1>1. UNCHANGED <<now, rules, job, hand, token, accepted, unrecorded, stranded, count>>
  BY DEF InsertLog, TestInsert
<1>2. CASE InsertLog(c)
  <2>1. call[c].row \in RowId
    BY <1>2 DEF InsertLog, NotifyInv, KnowRows, CallsKnowRows
  <2>2. Spaced(c, call[c].row, now)
    BY <1>2 DEF InsertLog, NotifyInv, LooksBack
  <2>3. QED
    BY <1>1, <1>2, <2>1, <2>2, InsertStep DEF InsertLog
<1>3. CASE TestInsert(c)
  <2>1. PICK subject \in {CHOOSE s \in Subject : TRUE} :
          InsertRow(c, <<Test, subject, BucketOf(Test, now), EnvChat>>)
    BY <1>3 DEF TestInsert
  <2>2. subject \in Subject
    BY ConstantsAssumption
  <2>3. <<Test, subject, BucketOf(Test, now), EnvChat>> \in RowId
    <3>1. EnvChat \in Chat /\ Test \in Event
      BY <1>3, ConstantsAssumption DEF TestInsert
    <3>2. QED
      BY <2>2, <3>1, RecordsTyped, RowTyped
  <2>4. c \notin Dispatch /\ call[c].pc = "idle"
    BY <1>3, ConstantsAssumption DEF TestInsert, MayBegin
  <2>5. QED
    BY <1>1, <2>1, <2>3, <2>4, InsertStep
<1>4. QED
  BY <1>2, <1>3

(* A failed or skipped row is queued again, on an owner's word.             *)
LEMMA ReplayStep ==
    ASSUME NotifyInv, NEW c \in Caller, Replay(c)
    PROVE  NotifyInv'
<1>1. PICK r \in RowId :
         /\ log[r].status \in {"failed", "skipped"}
         /\ log' = [log EXCEPT ![r].status = "queued"]
         /\ call' = [call EXCEPT ![c].pc = "send", ![c].row = r]
         /\ stranded' = stranded \ {r}
  BY DEF Replay
<1>2. /\ UNCHANGED <<now, rules, job, hand, token, accepted, unrecorded, count>>
      /\ call[c].pc = "idle"
  BY DEF Replay, MayBegin
<1>3. /\ log' \in [RowId -> LogRows] /\ log'[r].status = "queued"
      /\ \A q \in RowId : /\ q # r => log'[q] = log[q]
                          /\ log'[q].at = log[q].at /\ log'[q].by = log[q].by
  BY <1>1, RecordsTyped DEF LogRows, Status
<1>4. /\ call' \in [Caller -> Calls]
      /\ call'[c].pc = "send" /\ call'[c].row = r
      /\ \A d \in Caller : /\ d # c => call'[d] = call[d]
                           /\ call'[d].looked = call[d].looked
                           /\ call'[d].interval = call[d].interval
  BY <1>1, RecordsTyped DEF Calls
<1>5. NotifyTypeOK'
  BY <1>1, <1>2, <1>3, <1>4 DEF NotifyInv, NotifyTypeOK, LogRows, Calls
<1>6. LooksBack' /\ Logged' = Logged
  <2>1. SameInstants
    BY <1>1, <1>3 DEF SameInstants
  <2>2. \A d \in Caller : /\ call'[d].pc = "insert" => call'[d] = call[d]
                          /\ call[d].pc \in {"send", "done"} => call'[d].pc \in {"send", "done"}
    BY <1>2, <1>4
  <2>3. QED
    BY <1>2, <1>4, <2>1, <2>2, RecordsTyped, LooksStay
<1>7. KnowRows'
  <2>1. r \in Logged
    BY <1>1 DEF Logged
  <2>2. QED
    BY <1>2, <1>4, <1>6, <2>1 DEF NotifyInv, KnowRows, CallsKnowRows, JobsKnowRows, HandsKnowJobs
<1>8. RowsInCare'
  <2>1. \A j \in Job, q \in RowId : Carries(j, q) => Carries(j, q)'
    BY <1>2 DEF Carries
  <2>2. ASSUME NEW q \in RowId, q # r, log'[q].status = "queued"
        PROVE  \/ q \in stranded'
               \/ \E d \in Caller : call'[d].pc = "send" /\ call'[d].row = q
               \/ \E j \in Job : Carries(j, q)'
    <3>1. \/ q \in stranded
          \/ \E d \in Caller : call[d].pc = "send" /\ call[d].row = q
          \/ \E j \in Job : Carries(j, q)
      BY <1>3, <2>2 DEF NotifyInv, RowsInCare
    <3>2. \A d \in Caller : call[d].pc = "send" => call'[d] = call[d]
      BY <1>2, <1>4
    <3>3. QED
      BY <1>1, <2>1, <2>2, <3>1, <3>2
  <2>3. QED
    BY <1>4, <2>2 DEF RowsInCare
<1>9. RowsAccounted'
  <2>1. \A q \in RowId : log'[q].status = "sent" <=> log[q].status = "sent"
    BY <1>1, <1>3
  <2>2. \A h \in Handler : Attending(h)' <=> Attending(h)
    BY <1>2 DEF Attending
  <2>3. QED
    BY <1>2, <2>1, <2>2, AccountsStay DEF NotifyInv
<1>10. QED
  BY <1>5, <1>6, <1>7, <1>8, <1>9 DEF NotifyInv

(* The job is sent.                                                         *)
LEMMA SendStep ==
    ASSUME NotifyInv, NEW c \in Caller, SendJob(c)
    PROVE  NotifyInv'
<1>1. PICK j \in Job :
         /\ job[j].state = "free"
         /\ job' = [job EXCEPT ![j] = [state |-> "queued", row |-> call[c].row, tries |-> 0]]
  BY DEF SendJob
<1>2. /\ UNCHANGED <<now, rules, log, hand, token, accepted, unrecorded, stranded, count>>
      /\ call[c].pc = "send" /\ call' = [call EXCEPT ![c].pc = "done"]
      /\ call[c].row \in Logged /\ call[c].row \in RowId
  BY DEF SendJob, NotifyInv, KnowRows, CallsKnowRows, Logged
<1>3. /\ job' \in [Job -> Jobs]
      /\ job'[j].state = "queued" /\ job'[j].row = call[c].row
      /\ \A k \in Job : k # j => job'[k] = job[k]
  BY <1>1, <1>2, RecordsTyped DEF Jobs
<1>4. /\ call' \in [Caller -> Calls] /\ call'[c].pc = "done"
      /\ \A d \in Caller : /\ d # c => call'[d] = call[d]
                           /\ call'[d].looked = call[d].looked
                           /\ call'[d].interval = call[d].interval
  BY <1>2, RecordsTyped DEF Calls
<1>5. NotifyTypeOK'
  BY <1>2, <1>3, <1>4 DEF NotifyInv, NotifyTypeOK, Jobs, Calls
<1>6. LooksBack' /\ Logged' = Logged
  <2>1. SameInstants
    BY <1>2 DEF SameInstants
  <2>2. \A d \in Caller : /\ call'[d].pc = "insert" => call'[d] = call[d]
                          /\ call[d].pc \in {"send", "done"} => call'[d].pc \in {"send", "done"}
    BY <1>2, <1>4
  <2>3. QED
    BY <1>2, <1>4, <2>1, <2>2, RecordsTyped, LooksStay
<1>7. \A h \in Handler : hand[h].pc # "idle" => hand[h].job \in Job /\ hand[h].job # j
  BY <1>1 DEF NotifyInv, KnowRows, HandsKnowJobs
<1>8. KnowRows'
  BY <1>2, <1>3, <1>4, <1>6, <1>7 DEF NotifyInv, KnowRows, CallsKnowRows, JobsKnowRows, HandsKnowJobs
<1>9. RowsInCare'
  <2> PICK mine \in RowId : mine = call[c].row
    BY <1>2
  <2>1. Carries(j, mine)'
    <3>1. \A h \in Handler : hand[h].job = j => hand[h].pc # "return"
      BY <1>7
    <3>2. QED
      BY <1>2, <1>3, <3>1 DEF Carries
  <2>2. \A k \in Job, r \in RowId : Carries(k, r) => Carries(k, r)'
    BY <1>1, <1>2, <1>3 DEF Carries
  <2>3. ASSUME NEW r \in RowId, log'[r].status = "queued"
        PROVE  \/ r \in stranded'
               \/ \E d \in Caller : call'[d].pc = "send" /\ call'[d].row = r
               \/ \E k \in Job : Carries(k, r)'
    <3>1. CASE r = mine
      BY <2>1, <3>1
    <3>2. CASE r # mine
      <4>1. \A d \in Caller : call[d].row = r => call'[d] = call[d]
        BY <1>4, <3>2
      <4>2. QED
        BY <1>2, <2>2, <2>3, <4>1 DEF NotifyInv, RowsInCare
    <3>3. QED
      BY <3>1, <3>2
  <2>4. QED
    BY <2>3 DEF RowsInCare
<1>10. RowsAccounted'
  <2>1. \A h \in Handler : Attending(h)' <=> Attending(h)
    BY <1>2, <1>3, <1>7 DEF Attending
  <2>2. QED
    BY <1>2, <2>1, AccountsStay DEF NotifyInv
<1>11. QED
  BY <1>5, <1>6, <1>8, <1>9, <1>10 DEF NotifyInv

(* A call is given up: what it was about to send is stranded.               *)
LEMMA CallFailsStep ==
    ASSUME NotifyInv, NEW c \in Caller, CallFails(c)
    PROVE  NotifyInv'
<1>1. /\ UNCHANGED <<now, rules, log, job, hand, token, accepted, unrecorded>>
      /\ call' = [call EXCEPT ![c].pc = "done"]
      /\ stranded' = IF call[c].pc = "send" THEN stranded \cup {call[c].row} ELSE stranded
      /\ count' = [count EXCEPT !.faults = @ + 1]
      /\ call[c].pc = "send" => call[c].row \in RowId
  BY DEF CallFails, NotifyInv, KnowRows, CallsKnowRows, Logged
<1>2. /\ count' \in [faults : Nat, overruns : Nat, edits : Nat]
      /\ count'.overruns = count.overruns
  BY <1>1, RecordsTyped
<1>3. /\ call' \in [Caller -> Calls] /\ call'[c].pc = "done" /\ call'[c].row = call[c].row
      /\ \A d \in Caller : /\ d # c => call'[d] = call[d]
                           /\ call'[d].looked = call[d].looked
                           /\ call'[d].interval = call[d].interval
  BY <1>1, RecordsTyped DEF Calls
<1>4. stranded' \subseteq RowId
  BY <1>1, RecordsTyped
<1>5. NotifyTypeOK'
  BY <1>1, <1>2, <1>3, <1>4 DEF NotifyInv, NotifyTypeOK, Calls
<1>6. LooksBack' /\ Logged' = Logged
  <2>1. SameInstants
    BY <1>1 DEF SameInstants
  <2>2. \A d \in Caller : /\ call'[d].pc = "insert" => call'[d] = call[d]
                          /\ call[d].pc \in {"send", "done"} => call'[d].pc \in {"send", "done"}
    BY <1>3
  <2>3. QED
    BY <1>1, <1>3, <2>1, <2>2, RecordsTyped, LooksStay
<1>7. KnowRows'
  BY <1>1, <1>3, <1>6 DEF NotifyInv, KnowRows, CallsKnowRows, JobsKnowRows, HandsKnowJobs
<1>8. RowsInCare'
  <2>1. \A k \in Job, r \in RowId : Carries(k, r) => Carries(k, r)'
    BY <1>1 DEF Carries
  <2>2. ASSUME NEW r \in RowId, log'[r].status = "queued"
        PROVE  \/ r \in stranded'
               \/ \E d \in Caller : call'[d].pc = "send" /\ call'[d].row = r
               \/ \E k \in Job : Carries(k, r)'
    <3>1. \/ r \in stranded
          \/ \E d \in Caller : call[d].pc = "send" /\ call[d].row = r
          \/ \E k \in Job : Carries(k, r)
      BY <1>1, <2>2 DEF NotifyInv, RowsInCare
    <3>2. \A d \in Caller : call[d].pc = "send" /\ call[d].row = r =>
             r \in stranded' \/ call'[d] = call[d]
      BY <1>1, <1>3
    <3>3. QED
      BY <1>1, <2>1, <3>1, <3>2
  <2>3. QED
    BY <2>2 DEF RowsInCare
<1>9. RowsAccounted'
  <2>1. \A h \in Handler : Attending(h)' <=> Attending(h)
    BY <1>1 DEF Attending
  <2>2. QED
    BY <1>1, <1>2, <2>1, AccountsStay DEF NotifyInv
<1>10. QED
  BY <1>5, <1>6, <1>7, <1>8, <1>9 DEF NotifyInv

LEMMA CallSteps ==
    ASSUME NotifyInv, NEW c \in Caller, CallStep(c)
    PROVE  NotifyInv'
BY DispatchSteps, InsertSteps, ReplayStep, SendStep, CallFailsStep DEF CallStep

-----------------------------------------------------------------------------
(* The worker.                                                              *)

LEMMA FiniteHandlers ==
    \A S \in SUBSET Handler : IsFiniteSet(S) /\ Cardinality(S) \in Nat
<1>1. IsFiniteSet(Handler)
  BY ConstantsAssumption, FS_Interval DEF Handler
<1>2. QED
  BY <1>1, FS_Subset, FS_CardinalityType

LEMMA SetsOf ==
    ASSUME NEW hands, NEW r
    PROVE  WorkingOf(hands, r) \in SUBSET Handler /\ TookOf(hands, r) \in SUBSET Handler
BY DEF WorkingOf, TookOf

\* One handler more or less.
LEMMA WithAndWithout ==
    ASSUME NEW S \in SUBSET Handler, NEW h \in Handler
    PROVE  /\ Cardinality(S \ {h}) \in Nat
           /\ Cardinality(S) = Cardinality(S \ {h}) + Bit(h \in S)
<1>1. IsFiniteSet(S) /\ S \ {h} \in SUBSET Handler
  BY FiniteHandlers
<1>2. CASE h \in S
  BY <1>1, <1>2, FiniteHandlers, FS_RemoveElement DEF Bit
<1>3. CASE h \notin S
  <2>1. S \ {h} = S
    BY <1>3
  <2>2. Bit(h \in S) = 0
    BY <1>3 DEF Bit
  <2>3. QED
    BY <1>1, <1>3, <2>1, <2>2, FiniteHandlers
<1>4. QED
  BY <1>2, <1>3

\* The figures of row r, with handler h apart from the others.
LEMMA Figures ==
    ASSUME NEW hands \in [Handler -> Hands], NEW r \in RowId, NEW h \in Handler, hands[h].row = r
    PROVE  /\ Cardinality(WorkingOf(hands, r)) =
                Cardinality(WorkingOf(hands, r) \ {h}) + Bit(hands[h].pc \in AtWork)
           /\ Cardinality(TookOf(hands, r)) =
                Cardinality(TookOf(hands, r) \ {h}) + Bit(hands[h].took)
           /\ Cardinality(WorkingOf(hands, r) \ {h}) \in Nat
           /\ Cardinality(TookOf(hands, r) \ {h}) \in Nat
<1>1. /\ h \in WorkingOf(hands, r) <=> hands[h].pc \in AtWork
      /\ h \in TookOf(hands, r) <=> hands[h].took
  BY DEF WorkingOf, TookOf
<1>2. /\ Bit(h \in WorkingOf(hands, r)) = Bit(hands[h].pc \in AtWork)
      /\ Bit(h \in TookOf(hands, r)) = Bit(hands[h].took)
  BY <1>1 DEF Bit
<1>3. QED
  BY <1>2, SetsOf, WithAndWithout

\* A step of handler h that leaves its job alone.
LEMMA WorkMoves ==
    ASSUME NotifyInv, NEW h \in Handler, NEW x \in Hands, hand' = [hand EXCEPT ![h] = x],
           hand[h].pc # "idle", x.pc # "idle",
           x.job = hand[h].job, x.row = hand[h].row, x.took <=> x.pc = "sent",
           UNCHANGED <<job, stranded>>, WorkerUnchanged,
           count' \in [faults : Nat, overruns : Nat, edits : Nat],
           count'.overruns = count.overruns,
           accepted' \in [RowId -> Nat], unrecorded' \in [RowId -> Nat],
           NEW s \in {"sent", "failed", "skipped"},
           log' \in {log, [log EXCEPT ![hand[h].row].status = s]},
           x.pc = "return" /\ hand[h].pc # "return" => log'[hand[h].row].status # "queued",
           NEW mine \in RowId, mine = hand[h].row,
           \A r \in RowId : r # mine => accepted'[r] = accepted[r] /\ unrecorded'[r] = unrecorded[r],
           Fits(h, mine, hand[h].pc, hand[h].took, accepted[mine], unrecorded[mine],
                log[mine].status = "sent") =>
             Fits(h, mine, x.pc, x.took, accepted'[mine], unrecorded'[mine],
                  log'[mine].status = "sent")
    PROVE  NotifyInv'
<1>1. /\ hand' \in [Handler -> Hands] /\ hand'[h] = x
      /\ \A g \in Handler : g # h => hand'[g] = hand[g]
      /\ hand \in [Handler -> Hands]
  BY RecordsTyped
<1>2. /\ log' \in [RowId -> LogRows]
      /\ \A r \in RowId : r # mine => log'[r] = log[r]
      /\ log'[mine].status \in {log[mine].status, s}
      /\ \A r \in RowId : log'[r].at = log[r].at /\ log'[r].by = log[r].by
  <2>1. CASE log' = log
    BY <2>1, RecordsTyped
  <2>2. CASE log' = [log EXCEPT ![mine].status = s]
    BY <2>2, RecordsTyped DEF LogRows, Status
  <2>3. QED
    BY <2>1, <2>2
<1>3. UNCHANGED <<now, rules, call, token>>
  BY DEF WorkerUnchanged
<1>4. NotifyTypeOK'
  BY <1>1, <1>2, <1>3 DEF NotifyInv, NotifyTypeOK, Hands, LogRows
<1>5. mine \in Logged
  BY DEF NotifyInv, KnowRows, HandsKnowJobs, JobsKnowRows
<1>6. LooksBack' /\ Logged' = Logged
  <2>1. SameInstants
    BY <1>2, <1>5 DEF SameInstants, Logged
  <2>2. QED
    BY <1>3, <2>1, RecordsTyped, LooksStay
<1>7. KnowRows'
  <2>1. HandsKnowJobs'
    BY <1>1 DEF NotifyInv, KnowRows, HandsKnowJobs
  <2>2. QED
    BY <1>3, <1>6, <2>1 DEF NotifyInv, KnowRows, CallsKnowRows, JobsKnowRows
<1>8. RowsInCare'
  <2>1. ASSUME NEW j \in Job, NEW r \in RowId, Carries(j, r), log'[r].status = "queued"
        PROVE  Carries(j, r)'
    <3>1. ASSUME NEW g \in Handler, hand'[g].job = j PROVE hand'[g].pc # "return"
      <4>1. hand[g].job = j /\ hand[g].pc # "return"
        BY <1>1, <2>1, <3>1 DEF Carries
      <4>2. CASE g # h
        BY <1>1, <4>1, <4>2
      <4>3. CASE g = h
        <5>1. mine = r
          BY <2>1, <4>1, <4>3 DEF Carries, NotifyInv, KnowRows, HandsKnowJobs
        <5>2. QED
          BY <1>1, <2>1, <4>1, <4>3, <5>1
      <4>4. QED
        BY <4>2, <4>3
    <3>2. QED
      BY <2>1, <3>1 DEF Carries
  <2>2. \A r \in RowId : log'[r].status = "queued" => log[r].status = "queued"
    BY <1>2
  <2>3. QED
    BY <1>3, <2>1, <2>2 DEF NotifyInv, RowsInCare
<1>9. \A g \in Handler : Attending(g)' <=> Attending(g)
  BY <1>1 DEF Attending
<1>10. ASSUME NEW r \in RowId, r # mine PROVE RowAccounted(r)'
  <2>1. Working(r)' = Working(r) /\ Took(r)' = Took(r)
    BY <1>1, <1>10 DEF Working, Took, WorkingOf, TookOf
  <2>2. \A g \in Working(r) : g \in Handler /\ hand'[g] = hand[g]
    BY <1>1, <1>10 DEF Working, WorkingOf
  <2>3. (Reading(r)' <=> Reading(r)) /\ (Attended(r)' <=> Attended(r))
    <3>1. Reading(r)' <=> \E g \in Working(r) : hand[g].pc = "read" /\ Attending(g)
      BY <1>9, <2>1, <2>2 DEF Reading
    <3>2. Attended(r)' <=> \E g \in Working(r) : Attending(g)
      BY <1>9, <2>1, <2>2 DEF Attended
    <3>3. QED
      BY <3>1, <3>2 DEF Reading, Attended
  <2>4. Bit(Reading(r)') = Bit(Reading(r)) /\ Bit(Attended(r)') = Bit(Attended(r))
    BY <2>3 DEF Bit
  <2>5. RowAccounted(r) /\ log'[r] = log[r] /\ accepted'[r] = accepted[r] /\ unrecorded'[r] = unrecorded[r]
    BY <1>2, <1>10 DEF NotifyInv, RowsAccounted
  <2>6. QED
    BY <2>1, <2>4, <2>5 DEF RowAccounted, Bit
<1>11. RowAccounted(mine)'
  <2>1. /\ WorkingOf(hand', mine) \ {h} = WorkingOf(hand, mine) \ {h}
        /\ TookOf(hand', mine) \ {h} = TookOf(hand, mine) \ {h}
    BY <1>1 DEF WorkingOf, TookOf
  <2>2. /\ Cardinality(Working(mine)) = OthersWorking(h, mine) + Bit(hand[h].pc \in AtWork)
        /\ Cardinality(Took(mine)) = OthersTook(h, mine) + Bit(hand[h].took)
        /\ OthersWorking(h, mine) \in Nat /\ OthersTook(h, mine) \in Nat
    <3>1. hand \in [Handler -> Hands] /\ hand[h].row = mine
      BY <1>1
    <3>2. /\ Cardinality(WorkingOf(hand, mine)) =
                Cardinality(WorkingOf(hand, mine) \ {h}) + Bit(hand[h].pc \in AtWork)
           /\ Cardinality(TookOf(hand, mine)) =
                Cardinality(TookOf(hand, mine) \ {h}) + Bit(hand[h].took)
           /\ Cardinality(WorkingOf(hand, mine) \ {h}) \in Nat
           /\ Cardinality(TookOf(hand, mine) \ {h}) \in Nat
      BY <3>1, Figures
    <3>3. QED
      BY <3>2 DEF Working, Took, OthersWorking, OthersTook
  <2>3. /\ Cardinality(WorkingOf(hand', mine)) = OthersWorking(h, mine) + Bit(x.pc \in AtWork)
        /\ Cardinality(TookOf(hand', mine)) = OthersTook(h, mine) + Bit(x.took)
    <3>1. hand' \in [Handler -> Hands] /\ hand'[h].row = mine
      BY <1>1
    <3>2. /\ Cardinality(WorkingOf(hand', mine)) =
                Cardinality(WorkingOf(hand', mine) \ {h}) + Bit(hand'[h].pc \in AtWork)
           /\ Cardinality(TookOf(hand', mine)) =
                Cardinality(TookOf(hand', mine) \ {h}) + Bit(hand'[h].took)
      BY <3>1, Figures
    <3>3. QED
      BY <1>1, <2>1, <3>2 DEF OthersWorking, OthersTook
  <2>4. /\ Reading(mine) <=> OthersReading(h, mine) \/ (hand[h].pc = "read" /\ Attending(h))
        /\ Attended(mine) <=> OthersAttended(h, mine) \/ (hand[h].pc \in AtWork /\ Attending(h))
    BY DEF Reading, Attended, Working, WorkingOf, AtWork, OthersReading, OthersAttended
  <2>5. \A g \in WorkingOf(hand', mine) : g \in Handler /\ (g # h => g \in WorkingOf(hand, mine) /\ hand'[g] = hand[g])
    BY <1>1 DEF WorkingOf
  <2>6. Reading(mine)' <=> OthersReading(h, mine) \/ (x.pc = "read" /\ Attending(h))
    <3>1. Reading(mine)' <=> \E g \in WorkingOf(hand', mine) : hand'[g].pc = "read" /\ Attending(g)
      BY <1>9, <2>5 DEF Reading, Working
    <3>2. h \in WorkingOf(hand', mine) <=> x.pc \in AtWork
      BY <1>1 DEF WorkingOf
    <3>3. QED
      BY <1>1, <2>1, <2>5, <3>1, <3>2 DEF AtWork, OthersReading
  <2>7. Attended(mine)' <=> OthersAttended(h, mine) \/ (x.pc \in AtWork /\ Attending(h))
    <3>1. Attended(mine)' <=> \E g \in WorkingOf(hand', mine) : Attending(g)
      BY <1>9, <2>5 DEF Attended, Working
    <3>2. h \in WorkingOf(hand', mine) <=> x.pc \in AtWork
      BY <1>1 DEF WorkingOf
    <3>3. QED
      BY <1>1, <2>1, <2>5, <3>1, <3>2 DEF OthersAttended
  <2>8. RowAccounted(mine)
    BY DEF NotifyInv, RowsAccounted
  <2>9. /\ Bit(Reading(mine)) = Bit(OthersReading(h, mine) \/ (hand[h].pc = "read" /\ Attending(h)))
        /\ Bit(Attended(mine)) = Bit(OthersAttended(h, mine) \/ (hand[h].pc \in AtWork /\ Attending(h)))
        /\ Bit(Reading(mine)') = Bit(OthersReading(h, mine) \/ (x.pc = "read" /\ Attending(h)))
        /\ Bit(Attended(mine)') = Bit(OthersAttended(h, mine) \/ (x.pc \in AtWork /\ Attending(h)))
    BY <2>4, <2>6, <2>7 DEF Bit
  <2>10. /\ accepted[mine] \in Nat /\ unrecorded[mine] \in Nat
         /\ accepted'[mine] \in Nat /\ unrecorded'[mine] \in Nat
         /\ count.overruns \in Nat
    BY RecordsTyped
  <2>11. Fits(h, mine, hand[h].pc, hand[h].took, accepted[mine], unrecorded[mine],
              log[mine].status = "sent")
    BY <2>2, <2>8, <2>9, <2>10 DEF RowAccounted, Fits, Bit
  <2>12. Fits(h, mine, x.pc, x.took, accepted'[mine], unrecorded'[mine],
              log'[mine].status = "sent")
    BY <2>11
  <2>13. QED
    BY <2>2, <2>3, <2>9, <2>10, <2>12 DEF RowAccounted, Fits, Working, Took, Bit
<1>12. QED
  BY <1>4, <1>6, <1>7, <1>8, <1>10, <1>11 DEF NotifyInv, RowsAccounted

\* What a handler at work knows.
LEMMA AtItsJob ==
    ASSUME NotifyInv, NEW h \in Handler, hand[h].pc # "idle"
    PROVE  /\ hand[h] \in Hands /\ hand[h].job \in Job
           /\ job[hand[h].job].state # "free"
           /\ hand[h].row = job[hand[h].job].row
           /\ hand[h].row \in RowId /\ hand[h].row \in Logged
           /\ hand[h].took <=> hand[h].pc = "sent"
BY RecordsTyped DEF NotifyInv, KnowRows, HandsKnowJobs, JobsKnowRows, Logged

LEMMA FiguresTyped ==
    ASSUME NotifyInv, NEW h \in Handler, NEW r \in RowId
    PROVE  /\ OthersWorking(h, r) \in Nat /\ OthersTook(h, r) \in Nat
           /\ accepted[r] \in Nat /\ unrecorded[r] \in Nat /\ count.overruns \in Nat
<1>1. /\ WorkingOf(hand, r) \ {h} \in SUBSET Handler
      /\ TookOf(hand, r) \ {h} \in SUBSET Handler
  BY DEF WorkingOf, TookOf
<1>2. QED
  BY <1>1, FiniteHandlers, RecordsTyped DEF OthersWorking, OthersTook

(* The row is read, the limiter waited for, the message refused.            *)
LEMMA HandlerWaits ==
    ASSUME NotifyInv, NEW h \in Handler,
           NEW from \in {"read", "limit", "post", "bump"},
           NEW to \in {"skip", "limit", "post", "return", "failed", "bump", "throw"},
           hand[h].pc = from, hand' = [hand EXCEPT ![h].pc = to],
           from = "read" => to \in {"return", "skip", "limit"},
           from \in {"limit", "post", "bump"} => to # "return",
           from = "bump" => to = "throw",
           from = "read" => (to = "return" <=> log[hand[h].row].status = "sent"),
           UNCHANGED <<log, job, accepted, unrecorded, stranded, count>>, WorkerUnchanged
    PROVE  NotifyInv'
<1> DEFINE x == [hand[h] EXCEPT !.pc = to]
<1>1. /\ hand[h] \in Hands /\ hand[h].row \in RowId /\ ~hand[h].took
  BY AtItsJob
<1>2. PICK mine \in RowId : mine = hand[h].row
  BY <1>1
<1>3. /\ x \in Hands /\ hand' = [hand EXCEPT ![h] = x] /\ x.pc = to
      /\ x.job = hand[h].job /\ x.row = hand[h].row /\ x.took = hand[h].took
  BY <1>1 DEF Hands
<1> HIDE DEF x
<1>4. Fits(h, mine, hand[h].pc, hand[h].took, accepted[mine], unrecorded[mine],
           log[mine].status = "sent") =>
        Fits(h, mine, x.pc, x.took, accepted'[mine], unrecorded'[mine],
             log'[mine].status = "sent")
  <2>1. (hand[h].took = FALSE) /\ (x.took = FALSE)
    BY <1>1, <1>3
  <2>2. QED
    BY <1>2, <1>3, <2>1, FiguresTyped DEF Fits, Bit, AtWork
<1>5. /\ x.took <=> x.pc = "sent"
      /\ x.pc = "return" /\ hand[h].pc # "return" => log'[hand[h].row].status # "queued"
      /\ x.pc # "idle" /\ hand[h].pc # "idle"
  BY <1>1, <1>3
<1>6. /\ count' \in [faults : Nat, overruns : Nat, edits : Nat]
      /\ accepted' \in [RowId -> Nat] /\ unrecorded' \in [RowId -> Nat]
  BY RecordsTyped
<1>7. QED
  BY <1>2, <1>3, <1>4, <1>5, <1>6, WorkMoves

LEMMA HandlerMarks ==
    ASSUME NotifyInv, NEW h \in Handler,
           NEW from \in {"skip", "sent", "failed"}, NEW s \in {"sent", "failed", "skipped"},
           hand[h].pc = from, from = "sent" <=> s = "sent",
           hand' = [hand EXCEPT ![h] = [[hand[h] EXCEPT !.pc = "return"] EXCEPT !.took = FALSE]],
           SetStatus(h, s),
           UNCHANGED <<job, accepted, unrecorded, stranded, count>>, WorkerUnchanged
    PROVE  NotifyInv'
<1> DEFINE x == [[hand[h] EXCEPT !.pc = "return"] EXCEPT !.took = FALSE]
<1>1. /\ hand[h] \in Hands /\ hand[h].row \in RowId /\ (hand[h].took <=> from = "sent")
  BY AtItsJob
<1>2. PICK mine \in RowId : mine = hand[h].row
  BY <1>1
<1>3. /\ x \in Hands /\ hand' = [hand EXCEPT ![h] = x] /\ x.pc = "return"
      /\ x.job = hand[h].job /\ x.row = hand[h].row /\ x.took = FALSE
  BY <1>1 DEF Hands
<1> HIDE DEF x
<1>4. log' = [log EXCEPT ![hand[h].row].status = s] /\ log'[mine].status = s
  BY <1>2, RecordsTyped DEF SetStatus, LogRows
<1>5. Fits(h, mine, hand[h].pc, hand[h].took, accepted[mine], unrecorded[mine],
           log[mine].status = "sent") =>
        Fits(h, mine, x.pc, x.took, accepted'[mine], unrecorded'[mine],
             log'[mine].status = "sent")
  <2>1. (hand[h].took = TRUE /\ from = "sent") \/ (hand[h].took = FALSE /\ from # "sent")
    BY <1>1 DEF Hands
  <2>2. (OthersReading(h, mine) => OthersAttended(h, mine))
    BY DEF OthersReading, OthersAttended
  <2>3. QED
    BY <1>2, <1>3, <1>4, <2>1, <2>2, FiguresTyped DEF Fits, Bit, AtWork
<1>6. /\ x.took <=> x.pc = "sent"
      /\ x.pc = "return" /\ hand[h].pc # "return" => log'[hand[h].row].status # "queued"
      /\ x.pc # "idle" /\ hand[h].pc # "idle"
  BY <1>2, <1>3, <1>4
<1>7. /\ count' \in [faults : Nat, overruns : Nat, edits : Nat]
      /\ accepted' \in [RowId -> Nat] /\ unrecorded' \in [RowId -> Nat]
  BY RecordsTyped
<1>8. QED
  BY <1>2, <1>3, <1>4, <1>5, <1>6, <1>7, WorkMoves

(* Telegram takes the message, or the UPDATE throws: what is not written    *)
(* yet, or never will be, is counted.                                       *)
LEMMA HandlerTakes ==
    ASSUME NotifyInv, NEW h \in Handler, NEW x \in Hands, hand' = [hand EXCEPT ![h] = x],
           x.job = hand[h].job, x.row = hand[h].row, x.took <=> x.pc = "sent",
           NEW took \in {0, 1}, NEW lost \in {0, 1},
           \/ hand[h].pc = "post" /\ x.pc = "sent" /\ took = 1 /\ lost = 0
           \/ hand[h].pc = "post" /\ x.pc = "bump" /\ took = 1 /\ lost = 1
           \/ hand[h].pc = "sent" /\ x.pc = "bump" /\ took = 0 /\ lost = 1
           \/ hand[h].pc = "failed" /\ x.pc = "bump" /\ took = 0 /\ lost = 0,
           NEW mine \in RowId, mine = hand[h].row,
           accepted' \in [RowId -> Nat], unrecorded' \in [RowId -> Nat],
           accepted'[mine] = accepted[mine] + took,
           unrecorded'[mine] = unrecorded[mine] + lost,
           \A r \in RowId : r # mine => accepted'[r] = accepted[r] /\ unrecorded'[r] = unrecorded[r],
           count' \in [faults : Nat, overruns : Nat, edits : Nat],
           count'.overruns = count.overruns,
           UNCHANGED <<job, stranded>>, UNCHANGED log, WorkerUnchanged
    PROVE  NotifyInv'
<1>1. hand[h].took <=> hand[h].pc = "sent"
  BY AtItsJob
<1>2. Fits(h, mine, hand[h].pc, hand[h].took, accepted[mine], unrecorded[mine],
           log[mine].status = "sent") =>
        Fits(h, mine, x.pc, x.took, accepted'[mine], unrecorded'[mine],
             log'[mine].status = "sent")
  <2>1. /\ Bit(hand[h].took) = IF hand[h].pc = "sent" THEN 1 ELSE 0
        /\ Bit(x.took) = IF x.pc = "sent" THEN 1 ELSE 0
    BY <1>1 DEF Bit
  <2>2. QED
    BY <2>1, FiguresTyped DEF Fits, Bit, AtWork
<1>3. /\ log' \in {log, [log EXCEPT ![hand[h].row].status = "sent"]}
      /\ x.pc # "idle" /\ hand[h].pc # "idle"
      /\ ~(x.pc = "return" /\ hand[h].pc # "return")
  OBVIOUS
<1>4. QED
  BY <1>2, <1>3, WorkMoves

LEMMA HandlerSteps ==
    ASSUME NotifyInv, NEW h \in Handler,
           \/ ReadRow(h) \/ MarkSkipped(h) \/ Acquire(h) \/ Post(h) \/ MarkSent(h)
           \/ MarkFailed(h) \/ Bump(h) \/ PostAnswerLost(h) \/ MarkThrows(h)
    PROVE  NotifyInv'
<1>1. /\ hand[h] \in Hands /\ (hand[h].took <=> hand[h].pc = "sent")
      /\ hand \in [Handler -> Hands]
  <2>1. hand[h].pc # "idle"
    BY DEF ReadRow, MarkSkipped, Acquire, Post, MarkSent, MarkFailed, Bump, PostAnswerLost, MarkThrows
  <2>2. QED
    BY <2>1, AtItsJob, RecordsTyped
<1> PICK mine \in RowId : mine = hand[h].row
  <2>1. hand[h].pc # "idle"
    BY DEF ReadRow, MarkSkipped, Acquire, Post, MarkSent, MarkFailed, Bump, PostAnswerLost, MarkThrows
  <2>2. QED
    BY <2>1, AtItsJob
<1>2. CASE ReadRow(h)
  <2>1. PICK to \in {"return", "skip", "limit"} :
          /\ hand' = [hand EXCEPT ![h].pc = to]
          /\ to = "return" <=> log[hand[h].row].status = "sent"
    BY <1>2 DEF ReadRow
  <2>2. QED
    BY <1>2, <2>1, HandlerWaits DEF ReadRow
<1>3. CASE Acquire(h)
  BY <1>3, HandlerWaits DEF Acquire
<1>4. CASE Bump(h)
  BY <1>4, HandlerWaits DEF Bump
<1>5. CASE MarkSkipped(h) \/ MarkFailed(h)
  <2>1. hand' = [hand EXCEPT ![h].pc = "return"] /\ hand[h].took = FALSE
    BY <1>1, <1>5 DEF MarkSkipped, MarkFailed, Hands
  <2>2. [hand[h] EXCEPT !.pc = "return"] = [[hand[h] EXCEPT !.pc = "return"] EXCEPT !.took = FALSE]
    BY <1>1, <2>1 DEF Hands
  <2>3. hand' = [hand EXCEPT ![h] = [[hand[h] EXCEPT !.pc = "return"] EXCEPT !.took = FALSE]]
    BY <2>1, <2>2
  <2>4. QED
    BY <1>5, <2>3, HandlerMarks DEF MarkSkipped, MarkFailed
<1>6. CASE MarkSent(h)
  <2>1. hand' = [hand EXCEPT ![h] = [[hand[h] EXCEPT !.pc = "return"] EXCEPT !.took = FALSE]]
    BY <1>1, <1>6 DEF MarkSent, Hands
  <2>2. QED
    BY <1>6, <2>1, HandlerMarks DEF MarkSent
<1>7. CASE Post(h)
  <2>1. CASE \E pc \in {"failed", "bump"} : hand' = [hand EXCEPT ![h].pc = pc] /\ UNCHANGED accepted
    BY <1>7, <2>1, HandlerWaits DEF Post
  <2>2. CASE /\ hand' = [hand EXCEPT ![h].pc = "sent", ![h].took = TRUE]
             /\ accepted' = [accepted EXCEPT ![hand[h].row] = @ + 1]
    <3> DEFINE x == [[hand[h] EXCEPT !.pc = "sent"] EXCEPT !.took = TRUE]
    <3>1. /\ x \in Hands /\ hand' = [hand EXCEPT ![h] = x] /\ x.pc = "sent"
          /\ x.job = hand[h].job /\ x.row = hand[h].row /\ x.took = TRUE
      BY <1>1, <2>2 DEF Hands
    <3> HIDE DEF x
    <3>2. /\ accepted' \in [RowId -> Nat] /\ unrecorded' = unrecorded
          /\ accepted'[mine] = accepted[mine] + 1 /\ unrecorded'[mine] = unrecorded[mine] + 0
          /\ \A r \in RowId : r # mine => accepted'[r] = accepted[r] /\ unrecorded'[r] = unrecorded[r]
      BY <1>7, <2>2, RecordsTyped DEF Post
    <3>3. hand[h].pc = "post" /\ UNCHANGED <<job, stranded>> /\ UNCHANGED log /\ UNCHANGED count
          /\ WorkerUnchanged
      BY <1>7 DEF Post
    <3>4. QED
      BY <3>1, <3>2, <3>3, HandlerTakes, RecordsTyped
  <2>3. QED
    BY <1>7, <2>1, <2>2 DEF Post
<1>8. CASE PostAnswerLost(h)
  <2> DEFINE x == [hand[h] EXCEPT !.pc = "bump"]
  <2>1. hand[h].pc = "post" /\ hand[h].took = FALSE
    BY <1>1, <1>8 DEF PostAnswerLost, Hands
  <2>2. /\ x \in Hands /\ hand' = [hand EXCEPT ![h] = x] /\ x.pc = "bump"
        /\ x.job = hand[h].job /\ x.row = hand[h].row /\ x.took = FALSE
    BY <1>1, <1>8, <2>1 DEF PostAnswerLost, Hands
  <2> HIDE DEF x
  <2>3. /\ accepted' \in [RowId -> Nat] /\ unrecorded' \in [RowId -> Nat]
        /\ accepted'[mine] = accepted[mine] + 1 /\ unrecorded'[mine] = unrecorded[mine] + 1
        /\ \A r \in RowId : r # mine => accepted'[r] = accepted[r] /\ unrecorded'[r] = unrecorded[r]
    BY <1>8, RecordsTyped DEF PostAnswerLost
  <2>4. /\ count' \in [faults : Nat, overruns : Nat, edits : Nat] /\ count'.overruns = count.overruns
        /\ UNCHANGED <<job, stranded>> /\ UNCHANGED log /\ WorkerUnchanged
    BY <1>8, RecordsTyped DEF PostAnswerLost
  <2>5. QED
    BY <2>1, <2>2, <2>3, <2>4, HandlerTakes
<1>9. CASE MarkThrows(h)
  <2> DEFINE x == [[hand[h] EXCEPT !.pc = "bump"] EXCEPT !.took = FALSE]
  <2>1. /\ x \in Hands /\ hand' = [hand EXCEPT ![h] = x] /\ x.pc = "bump"
        /\ x.job = hand[h].job /\ x.row = hand[h].row /\ x.took = FALSE
    BY <1>1, <1>9 DEF MarkThrows, Hands
  <2> HIDE DEF x
  <2>2. PICK lost \in {0, 1} : lost = IF hand[h].took THEN 1 ELSE 0
    OBVIOUS
  <2>3. /\ accepted' = accepted /\ unrecorded' \in [RowId -> Nat]
        /\ accepted'[mine] = accepted[mine] + 0 /\ unrecorded'[mine] = unrecorded[mine] + lost
        /\ \A r \in RowId : r # mine => accepted'[r] = accepted[r] /\ unrecorded'[r] = unrecorded[r]
    <3>1. unrecorded' = [unrecorded EXCEPT ![mine] = @ + lost] /\ accepted' = accepted
      BY <1>9, <2>2 DEF MarkThrows
    <3>2. QED
      BY <3>1, RecordsTyped
  <2>4. /\ count' \in [faults : Nat, overruns : Nat, edits : Nat] /\ count'.overruns = count.overruns
        /\ UNCHANGED <<job, stranded>> /\ UNCHANGED log /\ WorkerUnchanged
    BY <1>9, RecordsTyped DEF MarkThrows
  <2>5. \/ hand[h].pc = "sent" /\ lost = 1
        \/ hand[h].pc = "failed" /\ lost = 0
    BY <1>1, <1>9, <2>2 DEF MarkThrows
  <2>6. accepted' \in [RowId -> Nat] /\ (x.took <=> x.pc = "sent")
    BY <2>1, <2>3, RecordsTyped
  <2>7. CASE hand[h].pc = "sent" /\ lost = 1
    BY <2>1, <2>3, <2>4, <2>6, <2>7, HandlerTakes
  <2>8. CASE hand[h].pc = "failed" /\ lost = 0
    BY <2>1, <2>3, <2>4, <2>6, <2>8, HandlerTakes
  <2>9. QED
    BY <2>5, <2>7, <2>8
<1>10. QED
  BY <1>2, <1>3, <1>4, <1>5, <1>6, <1>7, <1>8, <1>9

-----------------------------------------------------------------------------
(* The queue.                                                               *)

\* A job moves on, and perhaps a handler that is through with it: a handler
\* still at work that loses it is counted.
LEMMA JobMoves ==
    ASSUME NotifyInv, NEW j \in Job, NEW y \in Jobs, job' = [job EXCEPT ![j] = y],
           job[j].state # "free", y.state # "free", y.row = job[j].row,
           hand' \in [Handler -> Hands],
           \A g \in Handler : \/ hand'[g] = hand[g]
                              \/ hand[g].pc \notin AtWork /\ hand'[g] = IdleHand,
           \/ y = job[j]
           \/ y.state = "queued"
           \/ job[j].row \in stranded'
           \/ \E h \in Handler : hand[h].job = j /\ hand[h].pc = "return",
           stranded \subseteq stranded', stranded' \subseteq RowId,
           UNCHANGED <<log, accepted, unrecorded>>, WorkerUnchanged,
           count' \in [faults : Nat, overruns : Nat, edits : Nat],
           \/ count'.overruns = count.overruns + 1
           \/ /\ count'.overruns = count.overruns
              /\ \/ y = job[j]
                 \/ \A g \in Handler : hand'[g].pc \in AtWork => hand[g].job # j
    PROVE  NotifyInv'
<1>1. /\ job' \in [Job -> Jobs] /\ job'[j] = y
      /\ \A k \in Job : k # j => job'[k] = job[k]
      /\ \A k \in Job : job'[k].row = job[k].row
      /\ \A k \in Job : job'[k].state = "free" <=> job[k].state = "free"
  BY RecordsTyped
<1>2. UNCHANGED <<now, rules, call, token>>
  BY DEF WorkerUnchanged
<1>3. NotifyTypeOK'
  BY <1>1, <1>2 DEF NotifyInv, NotifyTypeOK, Jobs, Hands
<1>4. LooksBack' /\ Logged' = Logged
  <2>1. SameInstants
    BY DEF SameInstants
  <2>2. QED
    BY <1>2, <2>1, RecordsTyped, LooksStay
<1>5. KnowRows'
  <2>1. JobsKnowRows'
    BY <1>1, <1>4 DEF NotifyInv, KnowRows, JobsKnowRows
  <2>2. CallsKnowRows'
    BY <1>2, <1>4 DEF NotifyInv, KnowRows, CallsKnowRows
  <2>3. HandsKnowJobs'
    <3>1. IdleHand.pc = "idle" /\ ~IdleHand.took
      BY DEF IdleHand
    <3>2. QED
      BY <1>1, <3>1 DEF NotifyInv, KnowRows, HandsKnowJobs
  <2>4. QED
    BY <2>1, <2>2, <2>3 DEF KnowRows
<1>6. RowsInCare'
  <2>1. ASSUME NEW k \in Job, NEW r \in RowId, Carries(k, r)
        PROVE  Carries(k, r)' \/ r \in stranded'
    <3>1. ASSUME NEW g \in Handler, hand'[g].job = k PROVE hand'[g].pc # "return"
      <4>1. CASE hand'[g] = hand[g]
        BY <2>1, <3>1, <4>1 DEF Carries
      <4>2. CASE hand'[g] = IdleHand
        BY <4>2 DEF IdleHand
      <4>3. QED
        BY <4>1, <4>2
    <3>2. CASE k # j \/ y = job[j] \/ y.state = "queued"
      BY <1>1, <2>1, <3>1, <3>2 DEF Carries
    <3>3. CASE k = j /\ job[j].row \in stranded'
      BY <2>1, <3>3 DEF Carries
    <3>4. CASE k = j /\ \E h \in Handler : hand[h].job = j /\ hand[h].pc = "return"
      BY <2>1, <3>4 DEF Carries
    <3>5. QED
      BY <3>2, <3>3, <3>4
  <2>2. QED
    BY <1>2, <2>1 DEF NotifyInv, RowsInCare
<1>7. RowsAccounted'
  <2>1. SUFFICES ASSUME NEW r \in RowId PROVE RowAccounted(r)'
    BY DEF RowsAccounted
  <2>2. \A g \in Handler : hand'[g] = hand[g] \/ (hand[g].pc \notin AtWork /\ ~hand[g].took
                             /\ hand'[g].pc \notin AtWork /\ ~hand'[g].took)
    <3>1. IdleHand.pc \notin AtWork /\ ~IdleHand.took
      BY DEF IdleHand, AtWork
    <3>2. \A g \in Handler : hand[g].pc \notin AtWork => ~hand[g].took
      BY DEF NotifyInv, KnowRows, HandsKnowJobs, AtWork
    <3>3. QED
      BY <3>1, <3>2
  <2>3. Working(r)' = Working(r) /\ Took(r)' = Took(r)
    BY <2>2 DEF Working, Took, WorkingOf, TookOf
  <2>4. Cardinality(Working(r)) \in Nat /\ Cardinality(Took(r)) \in Nat
    BY SetsOf, FiniteHandlers DEF Working, Took
  <2>5. RowAccounted(r) /\ accepted[r] \in Nat /\ unrecorded[r] \in Nat /\ count.overruns \in Nat
    BY RecordsTyped DEF NotifyInv, RowsAccounted
  <2>6. CASE count'.overruns = count.overruns + 1
    BY <2>3, <2>4, <2>5, <2>6 DEF RowAccounted, Bit
  <2>7. CASE /\ count'.overruns = count.overruns
             /\ \/ y = job[j]
                \/ \A g \in Handler : hand'[g].pc \in AtWork => hand[g].job # j
    <3>1. \A g \in Working(r) : /\ g \in Handler /\ hand'[g] = hand[g]
                                /\ Attending(g)' <=> Attending(g)
      <4>1. SUFFICES ASSUME NEW g \in Working(r)
                     PROVE  /\ g \in Handler /\ hand'[g] = hand[g]
                            /\ Attending(g)' <=> Attending(g)
        OBVIOUS
      <4>2. g \in Handler /\ hand[g].pc \in AtWork /\ hand[g].pc # "idle"
        BY DEF Working, WorkingOf, AtWork
      <4>3. hand'[g] = hand[g] /\ hand[g].job \in Job
        BY <2>2, <4>2 DEF NotifyInv, KnowRows, HandsKnowJobs
      <4>4. job'[hand[g].job] = job[hand[g].job]
        BY <1>1, <2>7, <4>2, <4>3
      <4>5. QED
        BY <4>2, <4>3, <4>4 DEF Attending
    <3>2. (Reading(r)' <=> Reading(r)) /\ (Attended(r)' <=> Attended(r))
      <4>1. Reading(r)' <=> \E g \in Working(r) : hand[g].pc = "read" /\ Attending(g)
        BY <2>3, <3>1 DEF Reading
      <4>2. Attended(r)' <=> \E g \in Working(r) : Attending(g)
        BY <2>3, <3>1 DEF Attended
      <4>3. QED
        BY <4>1, <4>2 DEF Reading, Attended
    <3>3. Bit(Reading(r)') = Bit(Reading(r)) /\ Bit(Attended(r)') = Bit(Attended(r))
      BY <3>2 DEF Bit
    <3>4. QED
      BY <2>3, <2>5, <2>7, <3>3 DEF RowAccounted, Bit
  <2>8. QED
    BY <2>6, <2>7
<1>8. QED
  BY <1>3, <1>4, <1>5, <1>6, <1>7 DEF NotifyInv

\* pg-boss puts a job back, or gives it up.
LEMMA FailedAs ==
    ASSUME NotifyInv, NEW j \in Job, Failed(j)
    PROVE  \E y \in Jobs :
             /\ job' = [job EXCEPT ![j] = y]
             /\ y.row = job[j].row /\ y.state # "free"
             /\ y.state = "queued" \/ (y.state = "dead" /\ stranded' = stranded \cup {job[j].row})
             /\ stranded' \in {stranded, stranded \cup {job[j].row}}
<1>1. job[j] \in Jobs
  BY RecordsTyped
<1>2. CASE /\ job' = [job EXCEPT ![j].state = "queued", ![j].tries = @ + 1]
           /\ UNCHANGED stranded
  <2> DEFINE more == job[j].tries + 1
             y == [[job[j] EXCEPT !.state = "queued"] EXCEPT !.tries = more]
  <2>0. more \in Nat
    BY <1>1 DEF Jobs
  <2>1. y \in Jobs /\ y.row = job[j].row /\ y.state = "queued"
    <3> HIDE DEF more
    <3>1. QED
      BY <1>1, <2>0 DEF Jobs
  <2>2. job' = [job EXCEPT ![j] = y]
    BY <1>1, <1>2, RecordsTyped DEF Jobs
  <2> HIDE DEF y
  <2>3. QED
    BY <1>2, <2>1, <2>2
<1>3. CASE /\ job' = [job EXCEPT ![j].state = "dead"]
           /\ stranded' = stranded \cup {job[j].row}
  <2> DEFINE y == [job[j] EXCEPT !.state = "dead"]
  <2>1. y \in Jobs /\ y.row = job[j].row /\ y.state = "dead"
    BY <1>1 DEF Jobs
  <2>2. job' = [job EXCEPT ![j] = y]
    BY <1>3
  <2> HIDE DEF y
  <2>3. QED
    BY <1>3, <2>1, <2>2
<1>4. QED
  BY <1>2, <1>3 DEF Failed

LEMMA ExpirySteps ==
    ASSUME NotifyInv, NEW j \in Job, ExpireJob(j) \/ Overrun(j)
    PROVE  NotifyInv'
<1>1. Failed(j) /\ job[j].state = "active"
  BY DEF ExpireJob, Overrun
<1>2. PICK y \in Jobs :
        /\ job' = [job EXCEPT ![j] = y]
        /\ y.row = job[j].row /\ y.state # "free"
        /\ y.state = "queued" \/ (y.state = "dead" /\ stranded' = stranded \cup {job[j].row})
        /\ stranded' \in {stranded, stranded \cup {job[j].row}}
  BY <1>1, FailedAs
<1>3. job[j].row \in RowId
  BY <1>1 DEF NotifyInv, KnowRows, JobsKnowRows, Logged
<1>4. UNCHANGED <<log, hand, accepted, unrecorded>> /\ WorkerUnchanged
  BY DEF ExpireJob, Overrun
<1>5. hand' \in [Handler -> Hands] /\ \A g \in Handler : hand'[g] = hand[g]
  BY <1>4, RecordsTyped
<1>6. stranded \subseteq stranded' /\ stranded' \subseteq RowId
  BY <1>2, <1>3, RecordsTyped
<1>7. count' \in [faults : Nat, overruns : Nat, edits : Nat]
  <2>1. CASE ExpireJob(j)
    BY <2>1, RecordsTyped DEF ExpireJob
  <2>2. CASE Overrun(j)
    <3>1. /\ count \in [faults : Nat, overruns : Nat, edits : Nat]
          /\ count' = [[count EXCEPT !.faults = count.faults + 1] EXCEPT !.overruns = count.overruns + 1]
      BY <2>2, RecordsTyped DEF Overrun
    <3>2. PICK f \in Nat, o \in Nat : f = count.faults + 1 /\ o = count.overruns + 1
      BY <3>1
    <3>3. count' = [[count EXCEPT !.faults = f] EXCEPT !.overruns = o]
      BY <3>1, <3>2
    <3>4. QED
      BY <3>1, <3>3
  <2>3. QED
    BY <1>4, <2>1, <2>2
<1>8. \/ count'.overruns = count.overruns + 1
      \/ count'.overruns = count.overruns /\ \A g \in Handler : hand[g].job # j
  <2>1. CASE ExpireJob(j)
    BY <2>1 DEF ExpireJob
  <2>2. CASE Overrun(j)
    BY <2>2, RecordsTyped DEF Overrun
  <2>3. QED
    BY <2>1, <2>2
<1>9. QED
  BY <1>1, <1>2, <1>4, <1>5, <1>6, <1>7, <1>8, JobMoves

(* A handler returns or throws; if its job has gone on without it, it takes *)
(* the job away from whoever has it now.                                    *)
LEMMA LeaveSteps ==
    ASSUME NotifyInv, NEW h \in Handler, Complete(h) \/ Throw(h)
    PROVE  NotifyInv'
<1>1. hand[h].pc \in {"return", "throw"} /\ hand[h].pc \notin AtWork /\ hand[h].pc # "idle"
  BY DEF Complete, Throw, AtWork
<1>2. PICK j \in Job : j = hand[h].job
  BY <1>1, AtItsJob
<1>3. job[j] \in Jobs /\ job[j].state # "free" /\ job[j].row \in RowId
  BY <1>1, <1>2, AtItsJob, RecordsTyped
<1>4. /\ UNCHANGED <<log, accepted, unrecorded>> /\ WorkerUnchanged
      /\ hand' = [hand EXCEPT ![h] = IdleHand] /\ Loses(h)
  BY DEF Complete, Throw
<1>5. /\ hand' \in [Handler -> Hands] /\ hand'[h] = IdleHand
      /\ \A g \in Handler : g # h => hand'[g] = hand[g]
  <2>1. IdleHand \in Hands
    BY ConstantsAssumption DEF IdleHand, Hands
  <2>2. QED
    BY <1>4, <2>1, RecordsTyped
<1>6. PICK y \in Jobs :
        /\ job' = [job EXCEPT ![j] = y]
        /\ y.row = job[j].row /\ y.state # "free"
        /\ Attending(h) \/ y = job[j]
        /\ \/ y = job[j] \/ y.state = "queued" \/ job[j].row \in stranded'
           \/ hand[h].pc = "return"
        /\ stranded' \in {stranded, stranded \cup {job[j].row}}
  <2>1. CASE ~Attending(h)
    <3>1. job' = job /\ stranded' = stranded
      BY <2>1 DEF Complete, Throw
    <3>2. job' = [job EXCEPT ![j] = job[j]]
      BY <3>1, RecordsTyped
    <3>3. QED
      BY <1>3, <3>1, <3>2
  <2>2. CASE Attending(h) /\ Complete(h)
    <3> DEFINE y == [job[j] EXCEPT !.state = "done"]
    <3>1. y \in Jobs /\ y.row = job[j].row /\ y.state = "done"
      BY <1>3 DEF Jobs
    <3>2. job' = [job EXCEPT ![j] = y] /\ stranded' = stranded /\ hand[h].pc = "return"
      BY <1>2, <2>2 DEF Complete
    <3> HIDE DEF y
    <3>3. QED
      BY <2>2, <3>1, <3>2
  <2>3. CASE Attending(h) /\ Throw(h)
    <3>1. Failed(j)
      BY <1>2, <2>3 DEF Throw
    <3>2. PICK y \in Jobs :
            /\ job' = [job EXCEPT ![j] = y]
            /\ y.row = job[j].row /\ y.state # "free"
            /\ y.state = "queued" \/ (y.state = "dead" /\ stranded' = stranded \cup {job[j].row})
            /\ stranded' \in {stranded, stranded \cup {job[j].row}}
      BY <3>1, FailedAs
    <3>3. QED
      BY <2>3, <3>2
  <2>4. QED
    BY <2>1, <2>2, <2>3
<1>7. stranded \subseteq stranded' /\ stranded' \subseteq RowId
  BY <1>3, <1>6, RecordsTyped
<1>8. count' \in [faults : Nat, overruns : Nat, edits : Nat]
  BY <1>4, RecordsTyped DEF Loses
<1>9. \/ count'.overruns = count.overruns + 1
      \/ /\ count'.overruns = count.overruns
         /\ \/ y = job[j]
            \/ \A g \in Handler : hand'[g].pc \in AtWork => hand[g].job # j
  <2>1. CASE TakesAway(h)
    BY <1>4, <2>1, RecordsTyped DEF Loses
  <2>2. CASE ~TakesAway(h)
    <3>1. count'.overruns = count.overruns
      BY <1>4, <2>2, RecordsTyped DEF Loses
    <3>2. Attending(h) => \A g \in Handler : g # h => hand[g].job # j
      BY <1>2, <2>2 DEF TakesAway
    <3>3. hand'[h].pc \notin AtWork
      BY <1>5 DEF IdleHand, AtWork
    <3>4. QED
      BY <1>6, <3>1, <3>2, <3>3
  <2>3. QED
    BY <2>1, <2>2
<1>10. /\ \A g \in Handler : \/ hand'[g] = hand[g]
                             \/ hand[g].pc \notin AtWork /\ hand'[g] = IdleHand
       /\ \/ y = job[j] \/ y.state = "queued" \/ job[j].row \in stranded'
          \/ \E g \in Handler : hand[g].job = j /\ hand[g].pc = "return"
  BY <1>1, <1>2, <1>5, <1>6
<1>11. QED
  BY <1>3, <1>4, <1>5, <1>6, <1>7, <1>8, <1>9, <1>10, JobMoves

-----------------------------------------------------------------------------
(* A job is fetched: nobody else is attending to one.                       *)
LEMMA FetchJobStep ==
    ASSUME NotifyInv, NEW h \in Handler, Fetch(h)
    PROVE  NotifyInv'
<1>1. PICK j \in Job :
        /\ job[j].state = "queued"
        /\ job' = [job EXCEPT ![j].state = "active"]
        /\ hand' = [hand EXCEPT ![h] = [pc |-> "read", job |-> j, row |-> job[j].row,
                                        took |-> FALSE]]
  BY DEF Fetch
<1>2. /\ UNCHANGED <<now, rules, call, token, log, accepted, unrecorded, stranded, count>>
      /\ hand[h].pc = "idle" /\ \A g \in Handler : ~Attending(g)
  BY DEF Fetch, WorkerUnchanged
<1>3. /\ job' \in [Job -> Jobs] /\ job'[j].state = "active"
      /\ \A k \in Job : k # j => job'[k] = job[k]
      /\ \A k \in Job : job'[k].row = job[k].row
  BY <1>1, RecordsTyped DEF Jobs
<1>4. PICK mine \in RowId : mine = job[j].row
  BY <1>1 DEF NotifyInv, KnowRows, JobsKnowRows, Logged
<1>5. /\ hand' \in [Handler -> Hands] /\ \A g \in Handler : g # h => hand'[g] = hand[g]
      /\ hand'[h] = [pc |-> "read", job |-> j, row |-> mine, took |-> FALSE]
  <2>1. [pc |-> "read", job |-> j, row |-> mine, took |-> FALSE] \in Hands
    BY ConstantsAssumption DEF Hands, Job
  <2>2. QED
    BY <1>1, <1>4, <2>1, RecordsTyped
<1>6. hand'[h].pc = "read" /\ hand'[h].job = j /\ hand'[h].row = mine /\ ~hand'[h].took
      /\ hand[h] = IdleHand
  BY <1>2, <1>5 DEF NotifyInv, KnowRows, HandsKnowJobs
<1>7. NotifyTypeOK'
  BY <1>2, <1>3, <1>5 DEF NotifyInv, NotifyTypeOK, Jobs, Hands
<1>8. LooksBack' /\ Logged' = Logged
  <2>1. SameInstants
    BY <1>2 DEF SameInstants
  <2>2. QED
    BY <1>2, <2>1, RecordsTyped, LooksStay
<1>9. KnowRows'
  <2>1. JobsKnowRows'
    BY <1>1, <1>3, <1>8 DEF NotifyInv, KnowRows, JobsKnowRows
  <2>2. CallsKnowRows'
    BY <1>2, <1>8 DEF NotifyInv, KnowRows, CallsKnowRows
  <2>3. HandsKnowJobs'
    BY <1>1, <1>3, <1>4, <1>5, <1>6 DEF NotifyInv, KnowRows, HandsKnowJobs
  <2>4. QED
    BY <2>1, <2>2, <2>3 DEF KnowRows
<1>10. RowsInCare'
  <2>1. ASSUME NEW k \in Job, NEW r \in RowId, Carries(k, r) PROVE Carries(k, r)'
    <3>1. \A g \in Handler : hand'[g].job = k => hand'[g].pc # "return"
      BY <1>5, <1>6, <2>1 DEF Carries
    <3>2. job'[k].row = r /\ job'[k].state \in {"queued", "active"}
      BY <1>3, <2>1 DEF Carries
    <3>3. QED
      BY <3>1, <3>2 DEF Carries
  <2>2. QED
    BY <1>2, <2>1 DEF NotifyInv, RowsInCare
<1>11. ASSUME NEW r \in RowId PROVE RowAccounted(r)'
  <2>1. Took(r)' = Took(r)
    BY <1>5, <1>6 DEF Took, TookOf, IdleHand
  <2>2. Cardinality(Working(r)) \in Nat /\ Cardinality(Took(r)) \in Nat
    BY SetsOf, FiniteHandlers DEF Working, Took
  <2>3. RowAccounted(r) /\ accepted[r] \in Nat /\ unrecorded[r] \in Nat /\ count.overruns \in Nat
    BY RecordsTyped DEF NotifyInv, RowsAccounted
  <2>4. ~Reading(r) /\ ~Attended(r)
    BY <1>2 DEF Reading, Attended, Working, WorkingOf
  <2>5. CASE r # mine
    <3>1. Working(r)' = Working(r)
      BY <1>5, <1>6, <2>5 DEF Working, WorkingOf, IdleHand, AtWork
    <3>2. QED
      BY <1>2, <2>1, <2>2, <2>3, <2>4, <3>1 DEF RowAccounted, Bit
  <2>6. CASE r = mine
    <3>1. Working(r)' = Working(r) \cup {h} /\ h \notin Working(r)
      BY <1>2, <1>5, <1>6, <2>6 DEF Working, WorkingOf, AtWork
    <3>2. Cardinality(Working(r) \cup {h}) = Cardinality(Working(r)) + 1
      BY <3>1, SetsOf, FiniteHandlers, FS_AddElement DEF Working
    <3>3. Attending(h)'
      BY <1>3, <1>6 DEF Attending
    <3>4. h \in Working(r)'
      BY <3>1
    <3>5. Reading(r)' /\ Attended(r)'
      BY <1>6, <3>3, <3>4 DEF Reading, Attended
    <3>6. QED
      BY <1>2, <2>1, <2>2, <2>3, <2>4, <3>1, <3>2, <3>5 DEF RowAccounted, Bit
  <2>7. QED
    BY <2>5, <2>6
<1>12. QED
  BY <1>7, <1>8, <1>9, <1>10, <1>11 DEF NotifyInv, RowsAccounted

(* The worker dies: what was taken and not written will never be.           *)
LEMMA CrashJobStep ==
    ASSUME NotifyInv, Crash
    PROVE  NotifyInv'
<1>1. /\ UNCHANGED <<now, rules, log, job, call, accepted, stranded>>
      /\ hand' = [h \in Handler |-> IdleHand] /\ token' \in BOOLEAN
      /\ count' = [count EXCEPT !.faults = @ + 1]
      /\ unrecorded' = [r \in RowId |-> unrecorded[r] + Cardinality(Took(r))]
  BY DEF Crash, Took, TookOf
<1>2. /\ count' \in [faults : Nat, overruns : Nat, edits : Nat]
      /\ count'.overruns = count.overruns
  BY <1>1, RecordsTyped
<1>3. hand' \in [Handler -> Hands] /\ \A h \in Handler : hand'[h] = IdleHand
  BY <1>1, ConstantsAssumption DEF IdleHand, Hands
<1>4. \A r \in RowId : /\ Cardinality(Took(r)) \in Nat /\ Cardinality(Working(r)) \in Nat
                       /\ unrecorded[r] \in Nat /\ accepted[r] \in Nat
  BY SetsOf, FiniteHandlers, RecordsTyped DEF Working, Took
<1>5. /\ unrecorded' \in [RowId -> Nat]
      /\ \A r \in RowId : unrecorded'[r] = unrecorded[r] + Cardinality(Took(r))
  BY <1>1, <1>4
<1>6. NotifyTypeOK'
  BY <1>1, <1>2, <1>3, <1>5 DEF NotifyInv, NotifyTypeOK, Hands
<1>7. LooksBack' /\ Logged' = Logged
  <2>1. SameInstants
    BY <1>1 DEF SameInstants
  <2>2. QED
    BY <1>1, <2>1, RecordsTyped, LooksStay
<1>8. KnowRows'
  BY <1>1, <1>3, <1>7 DEF NotifyInv, KnowRows, JobsKnowRows, CallsKnowRows, HandsKnowJobs, IdleHand
<1>9. RowsInCare'
  <2>1. ASSUME NEW k \in Job, NEW r \in RowId, Carries(k, r) PROVE Carries(k, r)'
    BY <1>1, <1>3, <2>1 DEF Carries, IdleHand
  <2>2. QED
    BY <1>1, <2>1 DEF NotifyInv, RowsInCare
<1>10. ASSUME NEW r \in RowId PROVE RowAccounted(r)'
  <2>1. Working(r)' = {} /\ Took(r)' = {}
    BY <1>3 DEF Working, Took, WorkingOf, TookOf, IdleHand, AtWork
  <2>2. ~Reading(r)' /\ ~Attended(r)'
    BY <2>1 DEF Reading, Attended
  <2>3. RowAccounted(r) /\ count.overruns \in Nat
    BY RecordsTyped DEF NotifyInv, RowsAccounted
  <2>4. /\ Reading(r) => Cardinality(Working(r)) >= 1
        /\ Attended(r) => Cardinality(Working(r)) >= 1
    <3>1. Working(r) # {} => Cardinality(Working(r)) # 0
      BY SetsOf, FiniteHandlers, FS_EmptySet DEF Working
    <3>2. QED
      BY <1>4, <3>1 DEF Reading, Attended
  <2>5. QED
    BY <1>1, <1>2, <1>4, <1>5, <2>1, <2>2, <2>3, <2>4, FS_EmptySet DEF RowAccounted, Bit
<1>11. QED
  BY <1>6, <1>7, <1>8, <1>9, <1>10 DEF NotifyInv, RowsAccounted

LEMMA NotifyStep == NotifyInv /\ [NotifyNext]_notifyVars => NotifyInv'
<1> SUFFICES ASSUME NotifyInv, [NotifyNext]_notifyVars PROVE NotifyInv'
  OBVIOUS
<1>1. CASE UNCHANGED notifyVars
  <2>1. /\ UNCHANGED <<now, rules, log, job, call, hand, token,
                       accepted, unrecorded, stranded, count>>
    BY <1>1 DEF notifyVars
  <2>2. Logged' = Logged
    BY <2>1 DEF Logged
  <2>3. KnowRows' /\ RowsInCare' /\ NotifyTypeOK'
    BY <2>1, <2>2 DEF NotifyInv, NotifyTypeOK, KnowRows, CallsKnowRows, JobsKnowRows,
                      HandsKnowJobs, RowsInCare, Carries
  <2>4. LooksBack'
    BY <2>1, RecordsTyped, LooksStay DEF SameInstants
  <2>5. RowsAccounted'
    BY <2>1, AccountsStay DEF NotifyInv, Attending
  <2>6. QED
    BY <2>3, <2>4, <2>5 DEF NotifyInv
<1>2. ASSUME NEW h \in Handler, HandlerStep(h) \/ HandlerFault(h) PROVE NotifyInv'
  BY <1>2, FetchJobStep, HandlerSteps, LeaveSteps DEF HandlerStep, HandlerFault
<1>3. QED
  BY <1>1, <1>2, QuietSteps, CrashJobStep, CallSteps, ExpirySteps DEF NotifyNext

-----------------------------------------------------------------------------
LEMMA RowsAccountedMeans == NotifyInv => MessagesAccounted
<1> SUFFICES ASSUME NotifyInv, NEW r \in RowId
             PROVE  accepted[r] <= 1 + unrecorded[r] + count.overruns
  BY DEF MessagesAccounted
<1>1. /\ Cardinality(Working(r)) \in Nat /\ Cardinality(Took(r)) \in Nat
      /\ accepted[r] \in Nat /\ unrecorded[r] \in Nat /\ count.overruns \in Nat
  BY SetsOf, FiniteHandlers, RecordsTyped DEF Working, Took
<1>2. /\ IsFiniteSet(Working(r)) /\ Took(r) \subseteq Working(r)
      /\ \A h \in Working(r) : hand[h].pc = "read" => h \notin Took(r)
  BY SetsOf, FiniteHandlers DEF Working, Took, WorkingOf, TookOf, AtWork,
                                NotifyInv, KnowRows, HandsKnowJobs
<1>3. Cardinality(Took(r)) <= Cardinality(Working(r))
  BY <1>2, FS_Subset
<1>4. Reading(r) => Cardinality(Took(r)) < Cardinality(Working(r))
  <2>1. SUFFICES ASSUME Reading(r) PROVE Cardinality(Took(r)) < Cardinality(Working(r))
    OBVIOUS
  <2>2. Took(r) # Working(r)
    BY <1>2, <2>1 DEF Reading
  <2>3. QED
    BY <1>1, <1>2, <1>3, <2>2, FS_Subset
<1>5. RowAccounted(r)
  BY DEF NotifyInv, RowsAccounted
<1>6. QED
  BY <1>1, <1>3, <1>4, <1>5 DEF RowAccounted, Bit

LEMMA LooksBackMeans == NotifyInv => ThrottleSeesEarlierRows
<1> SUFFICES ASSUME NotifyInv, NEW r \in Logged, NEW q \in Logged,
                    SameStream(r, q), log[q].by \in Dispatch,
                    log[q].at < log[r].at + call[log[q].by].interval,
                    r \in call[log[q].by].looked
             PROVE  FALSE
  BY DEF ThrottleSeesEarlierRows
<1>1. Spaced(log[q].by, q, log[q].at)
  BY DEF NotifyInv, LooksBack
<1>2. log[r].at + call[log[q].by].interval <= log[q].at
  BY <1>1 DEF Spaced
<1>3. /\ log[r].at \in Nat /\ log[q].at \in Nat /\ call[log[q].by].interval \in Nat
  <2>1. log[r] \in LogRows /\ log[q] \in LogRows /\ call[log[q].by] \in Calls
    BY RecordsTyped DEF Logged, Caller
  <2>2. QED
    BY <2>1, ConstantsAssumption DEF LogRows, Calls, Time
<1>4. QED
  BY <1>2, <1>3

LEMMA CareMeans == NotifyInv => QueuedIsInCare
BY DEF NotifyInv, RowsInCare, Carries, QueuedIsInCare, InCare

(* However dispatches, replays, edits, crashes, lost answers, expired jobs  *)
(* and handlers that outlive them interleave, for any bounds: a throttle    *)
(* that saw a row holds against it, Telegram takes a message again only for *)
(* an attempt whose end was not written or a job that was lost, and a       *)
(* queued row has a job or a request about to send one.                     *)
THEOREM NotificationsAlwaysHold == NotifySpec => [](NotifyTypeOK /\ NotificationsHold)
<1>1. NotifyInv => NotifyTypeOK /\ NotificationsHold
  BY RowsAccountedMeans, LooksBackMeans, CareMeans DEF NotifyInv, NotificationsHold
<1>2. QED
  BY NotifyFirst, NotifyStep, <1>1, PTL DEF NotifySpec

-----------------------------------------------------------------------------
(* The scenes of MCProgress.                                                *)

ProgressInv ==
    /\ scene \in {"notify", "gallery", "loading", "desk", "tracker"}
    /\ NotifyInv /\ ToggleInv /\ PageInv /\ DeskTypeOK /\ TrackerInv

(* A page at rest has no image left to hydrate.                             *)
LEMMA RestingPage == PageRests => PageInv
<1> SUFFICES ASSUME PageRests PROVE PageInv
  OBVIOUS
<1>1. Unmounted = {} /\ Cardinality(Unmounted) = 0
  BY FS_EmptySet DEF PageRests, Unmounted
<1>2. PageTypeOK
  BY FiniteImages, PageAssumption DEF PageRests, PageTypeOK, Counter, InitialCounter, Snapshot
<1>3. QED
  BY <1>1, <1>2, FiniteImages DEF PageRests, PageInv, InitialCounter

LEMMA ProgressFirst == Init => ProgressInv
<1> SUFFICES ASSUME Init PROVE ProgressInv
  OBVIOUS
<1>1. NotifyInv /\ ToggleInv /\ DeskTypeOK /\ TrackerInv
  BY NotifyFirst, ToggleFirst, DeskFirst, TrackerInit DEF Init
<1>2. PageInv
  BY PageFirst, RestingPage DEF Init
<1>3. QED
  BY <1>1, <1>2 DEF Init, ProgressInv

(* What the other modules do leaves each one's part as it is.               *)
LEMMA NotifyRests == NotifyInv /\ UNCHANGED notifyVars => NotifyInv'
BY NotifyStep

LEMMA GalleryRests ==
    ToggleInv /\ PageInv /\ UNCHANGED galleryVars => ToggleInv' /\ PageInv'
<1>1. UNCHANGED galleryVars => UNCHANGED toggleVars /\ UNCHANGED pageVars
  BY DEF galleryVars
<1>2. QED
  BY <1>1, ToggleStep, PageStep

LEMMA DeskRestsToo ==
    DeskTypeOK /\ TrackerInv /\ UNCHANGED deskVars => DeskTypeOK' /\ TrackerInv'
BY DeskStep, TrackerStep

LEMMA GalleryMoves == ToggleInv /\ PageInv /\ GalleryNext => ToggleInv' /\ PageInv'
<1> SUFFICES ASSUME ToggleInv, PageInv, GalleryNext PROVE ToggleInv' /\ PageInv'
  OBVIOUS
<1>1. CASE TapTile
  BY <1>1, ToggleStep, PageStep DEF TapTile, ToggleNext
<1>2. CASE Background
  BY <1>2, ToggleStep, PageStep DEF Background, ToggleNext
<1>3. CASE Loads
  BY <1>3, ToggleStep, PageStep DEF Loads
<1>4. QED
  BY <1>1, <1>2, <1>3 DEF GalleryNext

LEMMA ProgressStep == ProgressInv /\ [Next]_progressVars => ProgressInv'
<1> SUFFICES ASSUME ProgressInv, [Next]_progressVars PROVE ProgressInv'
  OBVIOUS
<1>1. CASE UNCHANGED progressVars
  BY <1>1, NotifyRests, GalleryRests, DeskRestsToo DEF progressVars, ProgressInv
<1>2. CASE NotifyNext /\ UNCHANGED <<scene, galleryVars, deskVars>>
  BY <1>2, NotifyStep, GalleryRests, DeskRestsToo DEF ProgressInv
<1>3. CASE (GalleryNext \/ Loads) /\ UNCHANGED <<scene, notifyVars, deskVars>>
  BY <1>3, GalleryMoves, NotifyRests, DeskRestsToo DEF ProgressInv, GalleryNext
<1>4. CASE (GridNext \/ TrackerNext) /\ UNCHANGED <<scene, notifyVars, galleryVars>>
  BY <1>4, DeskStep, TrackerStep, NotifyRests, GalleryRests DEF ProgressInv, DeskNext
<1>5. QED
  BY <1>1, <1>2, <1>3, <1>4 DEF Next

(* Every variable of every scene keeps its type, whatever the others do.    *)
THEOREM ProgressTypeCorrect == Spec => []TypeOK
<1>1. ProgressInv => TypeOK
  BY DEF ProgressInv, NotifyInv, ToggleInv, PageInv, TypeOK, GalleryTypeOK
<1>2. QED
  BY ProgressFirst, ProgressStep, <1>1, PTL DEF Spec

(* The runs' three safety invariants, in the behaviours the run checks.     *)
THEOREM ScenesAlwaysKeepTheirWord ==
    Spec => [](NotificationsHold /\ RestingPageMatchesServer /\ TrackerSeesTheBatchThrough)
<1>1. NotifyInv => NotificationsHold
  BY RowsAccountedMeans, LooksBackMeans, CareMeans DEF NotificationsHold
<1>2. ToggleInv => RestingPageMatchesServer
  BY DEF ToggleInv, OneStory, RestingPageMatchesServer
<1>3. TrackerInv => TrackerSeesTheBatchThrough
  BY DEF TrackerInv, AnswersAreOf, BatchFinished, TrackerSeesTheBatchThrough
<1>4. ProgressInv => NotificationsHold /\ RestingPageMatchesServer /\ TrackerSeesTheBatchThrough
  BY <1>1, <1>2, <1>3 DEF ProgressInv
<1>5. QED
  BY ProgressFirst, ProgressStep, <1>4, PTL DEF Spec
=============================================================================
