------------------------------- MODULE PageLoad -------------------------------
(* The share page while it loads: the images that count                     *)
(* (gallery/CoverImage.tsx, PhotoTile.tsx), the progress bar                *)
(* (PageLoadProgress.tsx) and the splash over the page (PageSplash.tsx).    *)
(*                                                                          *)
(* Timers and animation frames are steps of their own: a timer may fire     *)
(* between any two other events, and may be late.                           *)
EXTENDS Naturals, FiniteSets

CONSTANTS
    Image,       \* above-the-fold images, the cover included
    Cover,
    Cap,         \* images that may register
    Enabled      \* whether the album has photos

ASSUME PageAssumption ==
    Cap \in Nat /\ Enabled \in BOOLEAN /\ Cover \in Image /\ IsFiniteSet(Image)

VARIABLES
    img,         \* per image: unmounted, loading, resolved (loaded or failed, and
                 \* reported once: reportedRef)
    counter,     \* the reducer's state
    seen,        \* the snapshot of it the splash was pushed
    bar,         \* forced, done, and whether the 500 ms hold is armed
    splash,      \* up, dismissed, removed
    age          \* of the splash: young (< 350 ms), shown, old (>= 6 s)

pageVars == <<img, counter, seen, bar, splash, age>>

Counter == [registered : 0..Cardinality(Image), loaded : 0..Cardinality(Image),
            coverRegistered : BOOLEAN, coverLoaded : BOOLEAN]
InitialCounter == [registered |-> 0, loaded |-> 0,
                   coverRegistered |-> FALSE, coverLoaded |-> FALSE]

\* What the splash reads of a counter it was pushed.
Snapshot(c) == [coverRegistered |-> c.coverRegistered, coverLoaded |-> c.coverLoaded]

PageTypeOK ==
    /\ img \in [Image -> {"unmounted", "loading", "resolved"}]
    /\ counter \in Counter
    /\ seen \in [coverRegistered : BOOLEAN, coverLoaded : BOOLEAN]
    /\ bar \in [forced : BOOLEAN, done : BOOLEAN, hold : BOOLEAN]
    /\ splash \in {"up", "dismissed", "removed"}
    /\ age \in {"young", "shown", "old"}

PageInit ==
    /\ img = [i \in Image |-> "unmounted"]
    /\ counter = InitialCounter /\ seen = Snapshot(InitialCounter)
    /\ bar = [forced |-> FALSE, done |-> TRUE, hold |-> FALSE]
    /\ splash = IF Enabled THEN "up" ELSE "removed"
    /\ age = "young"

-----------------------------------------------------------------------------
(* progressReducer.                                                         *)

Register(c) == IF c.registered >= Cap THEN c ELSE [c EXCEPT !.registered = @ + 1]

\* Math.min(prev.registered, prev.loaded + 1).
ReportLoaded(c) == IF c.loaded < c.registered THEN [c EXCEPT !.loaded = @ + 1] ELSE c

RegisterFor(i, c) ==
    IF i = Cover THEN [Register(c) EXCEPT !.coverRegistered = TRUE] ELSE Register(c)
ReportFor(i, c) ==
    IF i = Cover THEN [ReportLoaded(c) EXCEPT !.coverLoaded = TRUE] ELSE ReportLoaded(c)

\* ratio = 1: nothing registered, everything reported, or the stall net.
Full(c, forced) == forced \/ c.loaded >= c.registered

-----------------------------------------------------------------------------
(* The bar's effect on [ratio, counter.registered, enabled]: below 100% it  *)
(* stays visible; at 100% it is held for 500 ms and then goes.              *)

BarAfter(c, forced) ==
    IF ~Enabled THEN [bar EXCEPT !.forced = forced, !.done = TRUE]
    ELSE IF ~Full(c, forced) THEN [forced |-> forced, done |-> FALSE, hold |-> FALSE]
    ELSE IF c.registered = 0 THEN [bar EXCEPT !.forced = forced, !.done = TRUE, !.hold = FALSE]
    ELSE IF Full(counter, bar.forced) /\ c.registered = counter.registered
    THEN [bar EXCEPT !.forced = forced]
    ELSE [bar EXCEPT !.forced = forced, !.hold = TRUE]

SplashUnchanged == UNCHANGED <<seen, splash, age>>

Count(c) == counter' = c /\ bar' = BarAfter(c, bar.forced)

\* An image hydrates: it registers, and reports at once if the browser
\* already has it (its onLoad fired before React listened).
Mount(i) ==
    /\ img[i] = "unmounted"
    /\ \E cached \in BOOLEAN :
         /\ img' = [img EXCEPT ![i] = IF cached THEN "resolved" ELSE "loading"]
              /\ Count(IF cached THEN ReportFor(i, RegisterFor(i, counter))
                  ELSE RegisterFor(i, counter))
    /\ SplashUnchanged

\* onLoad or onError; of an image already reported it changes nothing.
Resolve(i) ==
    /\ img[i] = "loading"
    /\ img' = [img EXCEPT ![i] = "resolved"]
    /\ Count(ReportFor(i, counter))
    /\ SplashUnchanged

\* shouldForceComplete: ten seconds without progress.
Stall ==
    /\ Enabled /\ ~bar.forced /\ ~Full(counter, FALSE)
    /\ bar' = BarAfter(counter, TRUE)
    /\ UNCHANGED <<img, counter>> /\ SplashUnchanged

\* The hold timer.
HideBar ==
    /\ bar.hold
    /\ bar' = [bar EXCEPT !.done = TRUE, !.hold = FALSE]
    /\ UNCHANGED <<img, counter>> /\ SplashUnchanged

-----------------------------------------------------------------------------
(* PageSplash.                                                              *)

\* The provider's effect pushes the counter to its subscribers; a splash
\* that is gone no longer looks, nor at the clock.
Push ==
    /\ splash = "up" /\ seen # Snapshot(counter)
    /\ seen' = Snapshot(counter)
    /\ UNCHANGED <<img, counter, bar, splash, age>>

Age ==
    /\ splash = "up" /\ age # "old"
    /\ age' = IF age = "young" THEN "shown" ELSE "old"
    /\ UNCHANGED <<img, counter, seen, bar, splash>>

\* Mutant: no hard ceiling.
ShouldDismissCoverOnly(c) == age # "young" /\ (c.coverRegistered => c.coverLoaded)

\* shouldDismissSplash.
ShouldDismiss(c) ==
    \/ age = "old"
    \/ age # "young" /\ (c.coverRegistered => c.coverLoaded)

\* An animation frame evaluates the predicate on the last snapshot.
Dismiss ==
    /\ splash = "up" /\ ShouldDismiss(seen)
    /\ splash' = "dismissed"
    /\ UNCHANGED <<img, counter, seen, bar, age>>

\* FADE_MS + 50 later it unmounts.
Remove ==
    /\ splash = "dismissed"
    /\ splash' = "removed"
    /\ UNCHANGED <<img, counter, seen, bar, age>>

\* Timers fire and frames come.  Each of these steps happens finitely often,
\* so fairness of all of them together is enough; no image has to load.
Timers == Stall \/ HideBar \/ Push \/ Age \/ Dismiss \/ Remove

PageNext ==
    \/ \E i \in Image : Mount(i) \/ Resolve(i)
    \/ Timers

PageSpec == PageInit /\ [][PageNext]_pageVars

-----------------------------------------------------------------------------
(* Properties.                                                              *)

\* Whatever the images do, the bar goes for good and the splash is removed
\* (the stall net and the hard ceiling).
PageAppears == <>[](bar.done /\ splash = "removed")
=============================================================================
