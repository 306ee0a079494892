------------------------------- MODULE Lightbox -------------------------------
(* The single-photo page of a share link (a/[token]/p/[photoId]/page.tsx)   *)
(* and its viewer (gallery/Lightbox.tsx, lib/double-tap.ts): keys, swipes   *)
(* and buttons that move between photos, and a heart with a request loop of *)
(* its own.                                                                 *)
(*                                                                          *)
(* Every page is a new instance of the component; the loop of an instance   *)
(* that was left goes on.  A navigation made while a request is under way   *)
(* has the router refresh the page it leads to (Next.js).  Rendering a page *)
(* and showing it are two steps, and each statement of the toggle is one.   *)
EXTENDS Integers, Sequences, Functions

CONSTANTS
    Shots,         \* the album's photos, in its order
    Stroke,        \* how far a finger went: pairs <<dx, dy>> of pixels
    LoopMax,       \* 4: requests of one toggle loop
    MaxPages,      \* pages opened
    MaxSlips       \* answers lost on the way

Shot == {Shots[n] : n \in DOMAIN Shots}

ASSUME LightboxAssumption ==
    /\ Shots \in Seq(Shot) /\ IsInjective(Shots)
    /\ Stroke \subseteq Int \X Int
    /\ LoopMax \in Nat \ {0} /\ MaxPages \in Nat \ {0} /\ MaxSlips \in Nat

VARIABLES
    ready,      \* the photos the album can show
    linkOk,     \* the link is open to this visitor
    hearts,     \* the visitor's favorites rows
    pages,      \* the instances, oldest first
    onTop,      \* whether the last of them is on screen
    coming,     \* the page the router is loading, or NoPage
    refresh,    \* a refresh of the page on screen: none, owed or read
    slips

lightboxVars == <<ready, linkOk, hearts, pages, onTop, coming, refresh, slips>>

Nowhere == "nowhere"
Top == Len(pages)

\* What a render of the page reads, and whether somebody wrote the photo's
\* favorites row since (ghost).
ShotPage ==
    [photo : Shot, prev : Shot \cup {Nowhere}, next : Shot \cup {Nowhere},
     fav : BOOLEAN, crossed : BOOLEAN]
NoPage ==
    [photo |-> Nowhere, prev |-> Nowhere, next |-> Nowhere, fav |-> FALSE, crossed |-> FALSE]

\* page.fav is initialFavorited; asked holds the last intent, unless a failure,
\* a refresh or a worn-out loop dropped it (ghost).
Instance ==
    [page : ShotPage, shown : BOOLEAN, desired : BOOLEAN, confirmed : BOOLEAN,
     pc : {"idle", "delete", "insert", "answer", "fail"}, res : BOOLEAN,
     guard : 0..LoopMax, tapped : BOOLEAN, asked : SUBSET BOOLEAN]

LightboxTypeOK ==
    /\ ready \subseteq Shot /\ hearts \subseteq Shot
    /\ linkOk \in BOOLEAN /\ onTop \in BOOLEAN
    /\ pages \in Seq(Instance) /\ Top <= MaxPages
    /\ coming \in ShotPage \cup {NoPage}
    /\ refresh.pc \in {"none", "owed", "read"}
    /\ slips \in 0..MaxSlips

NoRefresh == [pc |-> "none", page |-> NoPage]

LightboxInit ==
    /\ ready = Shot /\ linkOk = TRUE /\ hearts \in SUBSET Shot
    /\ pages = <<>> /\ onTop = FALSE /\ coming = NoPage
    /\ refresh = NoRefresh /\ slips = 0

ShotsSame == UNCHANGED <<ready, linkOk, hearts, slips>>

-----------------------------------------------------------------------------
(* Pages.                                                                   *)

\* The neighbours of a photo among those that can be shown: the nearest on
\* that side.
Neighbour(p, step) ==
    LET n == CHOOSE k \in DOMAIN Shots : Shots[k] = p
        side == {k \in DOMAIN Shots : Shots[k] \in ready /\ step * (k - n) > 0}
    IN  IF side = {} THEN Nowhere
        ELSE Shots[CHOOSE k \in side : \A m \in side : step * (m - k) >= 0]

RenderOf(p) ==
    [photo |-> p, prev |-> Neighbour(p, -1), next |-> Neighbour(p, 1),
     fav |-> p \in hearts, crossed |-> FALSE]

\* A page that cannot be shown redirects, or is not found.
Showable(p) == linkOk /\ p \in ready

\* router.push, from the album page or from another photo: the page on screen
\* stays until the new one lands, and is refreshed later if it left a request.
Push(p) ==
    /\ Top < MaxPages
    /\ IF Showable(p) THEN coming' = RenderOf(p) /\ UNCHANGED onTop
                      ELSE coming' = NoPage /\ onTop' = FALSE
    /\ refresh' = IF onTop /\ pages[Top].pc # "idle" THEN [NoRefresh EXCEPT !.pc = "owed"] ELSE refresh
    /\ UNCHANGED pages /\ ShotsSame

OpenShot == ~onTop /\ coming = NoPage /\ \E p \in Shot : Push(p)

\* The component mounts on what the render read.
Mount ==
    /\ coming # NoPage
    /\ pages' = Append(pages,
         [page |-> coming, shown |-> coming.fav, desired |-> coming.fav, confirmed |-> coming.fav,
          pc |-> "idle", res |-> FALSE, guard |-> 0, tapped |-> FALSE, asked |-> {}])
    /\ onTop' = TRUE /\ coming' = NoPage
    /\ UNCHANGED refresh /\ ShotsSame

\* router.push(backHref), always there.
Leave ==
    /\ onTop' = FALSE /\ coming' = NoPage
    /\ refresh' = NoRefresh
    /\ UNCHANGED pages /\ ShotsSame

Turn(href) == href # Nowhere /\ Push(href)

RefreshRead ==
    /\ onTop /\ coming = NoPage /\ refresh.pc = "owed"
    /\ LET p == pages[Top].page.photo IN
       IF Showable(p) THEN /\ refresh' = [pc |-> "read", page |-> RenderOf(p)] /\ UNCHANGED onTop
                      ELSE refresh' = NoRefresh /\ onTop' = FALSE
    /\ UNCHANGED <<pages, coming>> /\ ShotsSame

\* The effect on initialFavorited: a new value resets the heart and both refs,
\* a request under way or not.
Reset(i, new) ==
    IF new.fav = i.page.fav THEN [i EXCEPT !.page = [new EXCEPT !.crossed = i.page.crossed]]
    ELSE [i EXCEPT !.page = [new EXCEPT !.crossed = @ \/ i.page.crossed \/ i.pc # "idle"],
                   !.shown = new.fav, !.desired = new.fav, !.confirmed = new.fav,
                   !.asked = {}]

RefreshLands ==
    /\ onTop /\ refresh.pc = "read" /\ refresh.page.photo = pages[Top].page.photo
    /\ pages' = [pages EXCEPT ![Top] = Reset(@, refresh.page)]
    /\ refresh' = NoRefresh
    /\ UNCHANGED <<onTop, coming>> /\ ShotsSame

-----------------------------------------------------------------------------
(* The heart.                                                               *)

\* Mutant: the intent of a re-tap is dropped (before F16).
DecidedDropped(i, intent) ==
    IF i.pc # "idle" THEN [i EXCEPT !.shown = intent, !.asked = {intent}]
    ELSE [i EXCEPT !.shown = intent, !.desired = intent, !.asked = {intent},
                   !.pc = IF i.confirmed = intent THEN "idle" ELSE "delete"]

\* commitToggle: optimistic, then a loop unless one runs or there is nothing
\* to ask.
Decided(i, intent) ==
    [i EXCEPT !.shown = intent, !.desired = intent, !.asked = {intent},
              !.pc = IF @ = "idle" /\ i.confirmed # intent THEN "delete" ELSE @]

CommitToggle(intent) ==
    /\ pages' = [pages EXCEPT ![Top] = Decided(@, intent)]
    /\ UNCHANGED <<onTop, coming, refresh>> /\ ShotsSame

\* A second tap inside the window is a heart, whatever the first one met; the
\* window of the first may also be over.
TapOnce ==
    \/ /\ pages[Top].tapped
       /\ pages' = [pages EXCEPT ![Top] = [Decided(@, TRUE) EXCEPT !.tapped = FALSE]]
       /\ UNCHANGED <<onTop, coming, refresh>> /\ ShotsSame
    \/ /\ pages' = [pages EXCEPT ![Top].tapped = TRUE]
       /\ UNCHANGED <<onTop, coming, refresh>> /\ ShotsSame

Abs(n) == IF n < 0 THEN -n ELSE n

\* What the end of a touch means: thresholds of 10, 80 and 50 pixels.
Meaning(dx, dy) ==
    CASE Abs(dx) < 10 /\ Abs(dy) < 10 -> "tap"
      [] Abs(dy) > Abs(dx) /\ dy > 80 -> "back"
      [] Abs(dx) > 50 /\ Abs(dx) > Abs(dy) -> IF dx < 0 THEN "next" ELSE "prev"
      [] OTHER -> "nothing"

TouchEnd ==
    /\ onTop
    /\ \E s \in Stroke :
         \/ Meaning(s[1], s[2]) = "tap" /\ TapOnce
         \/ Meaning(s[1], s[2]) = "back" /\ Leave
         \/ Meaning(s[1], s[2]) = "next" /\ Turn(pages[Top].page.next)
         \/ Meaning(s[1], s[2]) = "prev" /\ Turn(pages[Top].page.prev)

Key ==
    \/ Leave
    \/ Turn(pages[Top].page.prev)
    \/ Turn(pages[Top].page.next)
    \/ CommitToggle(~pages[Top].shown)

\* The buttons do what the keys do; a double click is a double tap.
Click == Key \/ CommitToggle(TRUE)

-----------------------------------------------------------------------------
(* toggleFavorite on the server.                                            *)

\* The write of page i leaves the pages at new: every other reader of the row
\* of p has read something that changed.
Crossed(new, i, p) ==
    /\ pages' = [n \in DOMAIN new |->
         IF n # i /\ new[n].page.photo = p THEN [new[n] EXCEPT !.page.crossed = TRUE]
         ELSE new[n]]
    /\ coming' = IF coming # NoPage /\ coming.photo = p THEN [coming EXCEPT !.crossed = TRUE] ELSE coming
    /\ refresh' = IF refresh.pc = "read" /\ refresh.page.photo = p
                  THEN [refresh EXCEPT !.page.crossed = TRUE] ELSE refresh

\* The link or the photo is gone, or the request never arrives: it throws.
Refuses(i) ==
    /\ pages[i].pc = "delete"
    /\ pages' = [pages EXCEPT ![i].pc = "fail"]
    /\ \/ ~Showable(pages[i].page.photo) /\ UNCHANGED slips
       \/ slips < MaxSlips /\ slips' = slips + 1
    /\ UNCHANGED <<ready, linkOk, hearts, onTop, coming, refresh>>

DeleteHeart(i) ==
    LET p == pages[i].page.photo IN
    /\ pages[i].pc = "delete" /\ Showable(p)
    /\ IF p \in hearts
       THEN /\ hearts' = hearts \ {p}
            /\ Crossed([pages EXCEPT ![i].pc = "answer", ![i].res = FALSE], i, p)
       ELSE /\ pages' = [pages EXCEPT ![i].pc = "insert"]
            /\ UNCHANGED <<hearts, coming, refresh>>
    /\ UNCHANGED <<ready, linkOk, onTop, slips>>

\* The primary key refuses a row that came meanwhile.
AddHeart(i) ==
    LET p == pages[i].page.photo IN
    /\ pages[i].pc = "insert"
    /\ IF p \in ready \ hearts
       THEN /\ hearts' = hearts \cup {p}
            /\ Crossed([pages EXCEPT ![i].pc = "answer", ![i].res = TRUE], i, p)
       ELSE /\ pages' = [pages EXCEPT ![i].pc = "fail"]
            /\ UNCHANGED <<hearts, coming, refresh>>
    /\ UNCHANGED <<ready, linkOk, onTop, slips>>

AnswerLost(i) ==
    /\ pages[i].pc = "answer" /\ slips < MaxSlips
    /\ slips' = slips + 1
    /\ pages' = [pages EXCEPT ![i].pc = "fail", ![i].res = FALSE, ![i].page.crossed = TRUE]
    /\ UNCHANGED <<ready, linkOk, hearts, onTop, coming, refresh>>

\* The loop goes on until the answer is what is wanted, at most LoopMax times.
GoOn(i) ==
    IF i.res # i.desired /\ i.guard + 1 < LoopMax
    THEN [i EXCEPT !.pc = "delete", !.guard = @ + 1, !.res = FALSE]
    ELSE [i EXCEPT !.pc = "idle", !.guard = 0, !.confirmed = i.res, !.shown = i.res,
                   !.res = FALSE,
                   !.asked = IF i.res = i.desired THEN @ ELSE {}]

FlipAnswered(i) ==
    /\ pages[i].pc = "answer"
    /\ pages' = [pages EXCEPT ![i] = GoOn(@)]
    /\ UNCHANGED <<onTop, coming, refresh>> /\ ShotsSame

\* Back to what the last loop ended with: the flips this one got answers for
\* are not in it.
FallBack(i) ==
    /\ pages[i].pc = "fail"
    /\ pages' = [pages EXCEPT ![i] =
         [pages[i] EXCEPT !.pc = "idle", !.guard = 0, !.asked = {},
                          !.page.crossed = pages[i].page.crossed \/ pages[i].guard > 0,
                          !.desired = pages[i].confirmed, !.shown = pages[i].confirmed]]
    /\ UNCHANGED <<onTop, coming, refresh>> /\ ShotsSame

-----------------------------------------------------------------------------
(* The album meanwhile.                                                     *)

\* The photo is deleted, and its favorites with it.
PhotoLeaves(p) ==
    /\ p \in ready
    /\ ready' = ready \ {p} /\ hearts' = hearts \ {p}
    /\ Crossed(pages, 0, p)
    /\ UNCHANGED <<linkOk, onTop, slips>>

\* Revoked, expired or locked.
LinkCloses ==
    /\ linkOk /\ linkOk' = FALSE
    /\ UNCHANGED <<ready, hearts, pages, onTop, coming, refresh, slips>>

LightboxNext ==
    \/ OpenShot \/ Mount \/ RefreshRead \/ RefreshLands
    \/ TouchEnd
    \/ onTop /\ Key
    \/ onTop /\ Click
    \/ \E i \in DOMAIN pages :
         \/ Refuses(i) \/ DeleteHeart(i) \/ AddHeart(i)
         \/ AnswerLost(i) \/ FlipAnswered(i) \/ FallBack(i)
    \/ \E p \in Shot : PhotoLeaves(p)
    \/ LinkCloses

LightboxSpec == LightboxInit /\ [][LightboxNext]_lightboxVars

-----------------------------------------------------------------------------
(* Property.                                                                *)

\* Once its loop has ended, a page shows what the server has and what the
\* visitor last asked for, however many taps and page turns came meanwhile
\* (F16): unless another page or a lost answer changed the row behind its back, a
\* request failed after others of its loop had flipped it, or the loop wore out.
HeartEndsAsTapped ==
    \A n \in DOMAIN pages :
      LET i == pages[n] IN
      (i.pc = "idle" /\ ~i.page.crossed) =>
        /\ i.confirmed = (i.page.photo \in hearts)
        /\ i.shown = i.confirmed
        /\ i.asked \subseteq {i.confirmed}
=============================================================================
