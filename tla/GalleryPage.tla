----------------------------- MODULE GalleryPage ------------------------------
(* The share page of one visitor (a/[token]/_gallery-shell.tsx, page.tsx):  *)
(* it loads (PageLoad), its hearts are tapped (FavoriteToggle), and while   *)
(* the splash is up it takes every tap.                                     *)
EXTENDS FavoriteToggle, PageLoad

galleryVars == <<toggleVars, pageVars>>

GalleryTypeOK == ToggleTypeOK /\ PageTypeOK

GalleryInit == ToggleInit /\ PageInit

\* PageSplash has pointerEvents none once dismissed.
Uncovered == splash # "up"

TapTile == /\ Uncovered /\ \E t \in Tile : Tap(t)
           /\ UNCHANGED pageVars

\* Answers, faults, the second tab and the viewer island go on under it.
Background == /\ \/ \E t \in Tile : \/ DeleteRow(t) \/ InsertHeart(t) \/ Fault(t)
                                    \/ Again(t) \/ Finish(t) \/ RollBack(t)
                 \/ OtherFlip \/ ReadIsland \/ LandIsland \/ IslandFails
              /\ UNCHANGED pageVars

Loads == PageNext /\ UNCHANGED toggleVars

GalleryNext == TapTile \/ Background \/ Loads

GallerySpec == GalleryInit /\ [][GalleryNext]_galleryVars

\* Timers fire and frames come: nothing makes an image load, a tap come or a
\* request answer.
GalleryFairness == WF_galleryVars(Timers /\ UNCHANGED toggleVars)
GalleryFairSpec == GallerySpec /\ GalleryFairness
=============================================================================
