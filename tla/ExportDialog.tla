------------------------------ MODULE ExportDialog ------------------------------
(* The export dialog of a gallery (gallery/ExportModal.tsx) in its shell       *)
(* (_gallery-shell.tsx), with the options the page's context gives it          *)
(* (_viewer-layer.tsx, lib/exportSizes.ts), the probe of the export route and  *)
(* the download it lets through.                                               *)
(*                                                                             *)
(* A render and its effects are one step.  The zip itself is Export.           *)
EXTENDS Integers, FiniteSets

CONSTANTS
    Item,           \* the album's photos
    MaxZip,         \* MAX_EXPORT_PHOTOS
    MaxDownloads,   \* 6 in a window
    MaxAsks, MaxTurns

ASSUME DialogAssumption ==
    /\ {MaxZip, MaxDownloads, MaxAsks, MaxTurns} \subseteq Nat
    /\ IsFiniteSet(Item)

VARIABLES
    inAlbum,    \* the ready photos
    liked,      \* this visitor's favorites among them
    offered,    \* the link is open and lets download
    taken,      \* downloads the limiter counts
    known,      \* what the page shows: the live count and the album's total
    hydration,  \* the viewer-context answer: asked, read, landed or failed
    dialog,
    probe,      \* the pre-flight under way
    navigation,   \* the navigation it lets through
    asks, turns

dialogVars == <<inAlbum, liked, offered, taken, known, hydration, dialog, probe, navigation, asks, turns>>

ExportOption == {"favorites-original", "all-web", "all-original"}
Nothing == "undefined"

DialogTypeOK ==
    /\ inAlbum \subseteq Item /\ liked \subseteq inAlbum
    /\ offered \in BOOLEAN /\ taken \in 0..MaxDownloads
    /\ known \in [favorites : Nat, total : Nat]
    /\ hydration.pc \in {"asked", "read", "landed", "failed"}
    /\ dialog \in [open : BOOLEAN, selected : ExportOption \cup {Nothing},
                   submitting : BOOLEAN, pick : ExportOption \cup {Nothing}]
    /\ probe.pc \in {"none", "asked", "green", "red"}
    /\ navigation.pc \in {"none", "asked", "zip", "page"}
    /\ asks \in 0..MaxAsks /\ turns \in 0..MaxTurns

ClosedDialog == [open |-> FALSE, selected |-> Nothing, submitting |-> FALSE, pick |-> Nothing]
NoProbe == [pc |-> "none", option |-> Nothing, pick |-> Nothing, changed |-> FALSE]
NoNavigation == [pc |-> "none", option |-> Nothing, pick |-> Nothing, excused |-> FALSE]

\* computeStaticExportSizes at the prerender; the favorites come with the
\* viewer's context.
DialogInit ==
    /\ inAlbum = Item /\ liked \in SUBSET Item
    /\ offered = TRUE /\ taken = 0
    /\ known = [favorites |-> 0, total |-> Cardinality(Item)]
    /\ hydration = [pc |-> "asked", sizes |-> [favorites |-> 0, total |-> 0]]
    /\ dialog = ClosedDialog /\ probe = NoProbe /\ navigation = NoNavigation
    /\ asks = 0 /\ turns = 0

GallerySame == UNCHANGED <<inAlbum, liked, offered, taken>>

-----------------------------------------------------------------------------
(* The options and what is selected.                                        *)

EnabledOption(o, sizes) == IF o = "favorites-original" THEN sizes.favorites > 0 ELSE sizes.total > 0

\* The footer preselects "all-original"; else the first enabled option, or
\* the first.
Target(sizes) ==
    IF EnabledOption("all-original", sizes) THEN "all-original"
    ELSE "favorites-original"

Selecting(d, o) == [d EXCEPT !.selected = o, !.pick = o]

\* Mutant: before F46, any change of the options starts the selection over.
DialogResets(d, wasOpen, sizes) ==
    IF ~d.open THEN d
    ELSE IF wasOpen THEN [d EXCEPT !.selected = Target(sizes)]
    ELSE Selecting(d, Target(sizes))

\* The effect selects on the closed-to-open edge, and never again.
DialogRendered(d, wasOpen, sizes) ==
    IF d.open /\ ~wasOpen THEN Selecting(d, Target(sizes)) ELSE d

OpenDialog ==
    /\ ~dialog.open /\ known.total > 0 /\ turns < MaxTurns
    /\ turns' = turns + 1
    /\ dialog' = DialogRendered([dialog EXCEPT !.open = TRUE], FALSE, known)
    /\ GallerySame /\ UNCHANGED <<known, hydration, probe, navigation, asks>>

\* The backdrop, the cross or Escape; a probe under way goes on.
CloseDialog ==
    /\ dialog.open
    /\ dialog' = [dialog EXCEPT !.open = FALSE]
    /\ GallerySame /\ UNCHANGED <<known, hydration, probe, navigation, asks, turns>>

PickOption ==
    /\ dialog.open
    /\ \E o \in ExportOption : EnabledOption(o, known) /\ dialog' = Selecting(dialog, o)
    /\ GallerySame /\ UNCHANGED <<known, hydration, probe, navigation, asks, turns>>

\* The viewer-context route counts, and the context replaces the seed.
ReadContext ==
    /\ hydration.pc = "asked"
    /\ hydration' =
         IF offered
         THEN [pc |-> "read", sizes |-> [favorites |-> Cardinality(liked), total |-> Cardinality(inAlbum)]]
         ELSE [hydration EXCEPT !.pc = "failed"]
    /\ GallerySame /\ UNCHANGED <<known, dialog, probe, navigation, asks, turns>>

ContextFails ==
    /\ hydration.pc \in {"asked", "read"}
    /\ hydration' = [hydration EXCEPT !.pc = "failed"]
    /\ GallerySame /\ UNCHANGED <<known, dialog, probe, navigation, asks, turns>>

LandContext ==
    /\ hydration.pc = "read"
    /\ hydration' = [hydration EXCEPT !.pc = "landed"]
    /\ known' = hydration.sizes
    /\ dialog' = DialogRendered(dialog, dialog.open, known')
    /\ GallerySame /\ UNCHANGED <<probe, navigation, asks, turns>>

-----------------------------------------------------------------------------
(* The probe and the download.                                              *)

PhotosOf(o) == IF o = "favorites-original" THEN liked ELSE inAlbum

\* What the route checks of a probe and of a download alike.
Exportable(o) == offered /\ PhotosOf(o) # {} /\ Cardinality(PhotosOf(o)) <= MaxZip

Submit ==
    /\ dialog.open /\ ~dialog.submitting
    /\ dialog.selected # Nothing /\ EnabledOption(dialog.selected, known)
    /\ asks < MaxAsks /\ asks' = asks + 1
    /\ dialog' = [dialog EXCEPT !.submitting = TRUE]
    /\ probe' = [NoProbe EXCEPT !.pc = "asked", !.option = dialog.selected, !.pick = dialog.pick]
    /\ GallerySame /\ UNCHANGED <<known, hydration, navigation, turns>>

\* The route skips its limiter; a failed request is as good as a refusal.
AnswerProbe ==
    /\ probe.pc = "asked"
    /\ \/ Exportable(probe.option) /\ probe' = [probe EXCEPT !.pc = "green", !.changed = FALSE]
       \/ probe' = [probe EXCEPT !.pc = "red"]
    /\ GallerySame /\ UNCHANGED <<known, hydration, dialog, navigation, asks, turns>>

\* A toast, or the navigation: onClose closes whatever is open by then.
ProbeLands ==
    /\ probe.pc \in {"green", "red"}
    /\ IF probe.pc = "red"
       THEN dialog' = [dialog EXCEPT !.submitting = FALSE] /\ UNCHANGED navigation
       ELSE /\ dialog' = [dialog EXCEPT !.submitting = FALSE, !.open = FALSE]
            /\ navigation' = [pc |-> "asked", option |-> probe.option, pick |-> probe.pick,
                            excused |-> probe.changed]
    /\ probe' = NoProbe
    /\ GallerySame /\ UNCHANGED <<known, hydration, asks, turns>>

\* The zip is saved beside the page; an error is a page in its place.
FollowExport ==
    /\ navigation.pc = "asked"
    /\ LET allowed == taken < MaxDownloads
           served == offered /\ allowed /\ Exportable(navigation.option)
       IN  /\ navigation' = [navigation EXCEPT !.pc = IF served THEN "zip" ELSE "page",
                                           !.excused = @ \/ ~allowed]
           /\ taken' = IF offered /\ allowed THEN taken + 1 ELSE taken
    /\ UNCHANGED <<inAlbum, liked, offered, known, hydration, dialog, probe, asks, turns>>

\* The gallery goes on, or is loaded again after an error page.
GoBack ==
    /\ navigation.pc \in {"zip", "page"}
    /\ IF navigation.pc = "zip" THEN UNCHANGED <<known, hydration, dialog, probe>>
       ELSE /\ known' = [favorites |-> 0, total |-> Cardinality(inAlbum)]
            /\ hydration' = [hydration EXCEPT !.pc = "asked"]
            /\ dialog' = ClosedDialog /\ probe' = NoProbe
    /\ navigation' = NoNavigation
    /\ GallerySame /\ UNCHANGED <<asks, turns>>

-----------------------------------------------------------------------------
(* The rest of the world.                                                   *)

\* A heart on this page, when the dialog does not cover it.
LikeHere(p) ==
    /\ ~dialog.open /\ navigation.pc # "page" /\ p \in inAlbum
    /\ turns < MaxTurns /\ turns' = turns + 1
    /\ IF p \in liked
       THEN /\ liked' = liked \ {p}
            /\ known' = [known EXCEPT !.favorites = IF @ > 0 THEN @ - 1 ELSE 0]
       ELSE liked' = liked \cup {p} /\ known' = [known EXCEPT !.favorites = @ + 1]
    /\ probe' = [probe EXCEPT !.changed = @ \/ probe.pc = "green"]
    /\ navigation' = [navigation EXCEPT !.excused = @ \/ navigation.pc = "asked"]
    /\ UNCHANGED <<inAlbum, offered, taken, hydration, dialog, asks>>

\* Another tab unlikes, the admin deletes a photo or closes the link: a probe
\* already answered does not know.
Elsewhere ==
    /\ turns < MaxTurns /\ turns' = turns + 1
    /\ \/ \E p \in liked : liked' = liked \ {p} /\ UNCHANGED <<inAlbum, offered>>
       \/ \E p \in inAlbum : inAlbum' = inAlbum \ {p} /\ liked' = liked \ {p} /\ UNCHANGED offered
       \/ offered /\ offered' = FALSE /\ UNCHANGED <<inAlbum, liked>>
    /\ probe' = [probe EXCEPT !.changed = @ \/ probe.pc = "green"]
    /\ navigation' = [navigation EXCEPT !.excused = @ \/ navigation.pc = "asked"]
    /\ UNCHANGED <<taken, known, hydration, dialog, asks>>

\* The oldest downloads leave the limiter's window.
WindowPasses ==
    /\ taken > 0 /\ taken' \in 0..taken - 1
    /\ UNCHANGED <<inAlbum, liked, offered, known, hydration, dialog, probe, navigation, asks, turns>>

DialogNext ==
    \/ OpenDialog \/ CloseDialog \/ PickOption
    \/ ReadContext \/ ContextFails \/ LandContext
    \/ Submit \/ AnswerProbe \/ ProbeLands \/ FollowExport \/ GoBack
    \/ \E p \in Item : LikeHere(p)
    \/ Elsewhere \/ WindowPasses

DialogSpec == DialogInit /\ [][DialogNext]_dialogVars

-----------------------------------------------------------------------------
(* Property.                                                                *)

\* What is selected in the open dialog is what the visitor picked, however
\* late the viewer's context changes the options (F46), what is downloaded is
\* what was picked at the click, and after a green probe the visitor is left
\* with an error page only if the album, the link or the favorites changed
\* since, or the limiter, which a probe does not ask, refused.
PickSurvives ==
    /\ dialog.open => dialog.selected = dialog.pick
    /\ probe.pc # "none" => probe.option = probe.pick
    /\ navigation.pc # "none" => navigation.option = navigation.pick
    /\ navigation.pc = "page" => navigation.excused
=============================================================================
