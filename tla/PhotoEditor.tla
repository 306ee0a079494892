------------------------------ MODULE PhotoEditor ------------------------------
(* The photo editor of the admin grid (admin/PhotoEditModal.tsx): a box      *)
(* dragged over the preview, quarter turns and a brightness, checked by      *)
(* lib/photo-edit.ts and cut in pixels by the edit route.                    *)
(*                                                                           *)
(* A coordinate of the box is a multiple of 1/Scale of the image.  One save  *)
(* is under way at a time; what the route refuses for other reasons than the *)
(* box (storage full, no original, no answer) it may refuse at any time.     *)
EXTENDS Integers

CONSTANTS
    Scale,      \* units across the image
    MinBox,     \* 0.05: the smallest side a corner leaves
    FirstAt, FirstLen,  \* 0.1 and 0.8: the first box
    Extent,       \* widths and heights, in pixels
    MaxEdits

ASSUME EditorAssumption ==
    /\ Scale \in Nat \ {0} /\ MinBox \in 1..Scale
    /\ FirstAt \in Nat /\ FirstLen \in Nat \ {0} /\ FirstAt + FirstLen <= Scale
    /\ Extent \subseteq Nat \ {0} /\ MaxEdits \in Nat

VARIABLES
    size,       \* the stored original, turned upright
    editor,     \* the dialog
    save,       \* the POST under way
    edits

editorVars == <<size, editor, save, edits>>

Axis == {"x", "y"}
Span == [at : 0..Scale, len : 0..Scale]
CropBox == [Axis -> Span]
Turns == 0..3

ClosedEditor == [open |-> FALSE, rotate |-> 0, crop |-> {}, brightness |-> FALSE, pending |-> FALSE, err |-> FALSE]
NoSave == [pc |-> "none", rotate |-> 0, crop |-> {}, brightness |-> FALSE, mine |-> FALSE, why |-> "ok", cut |-> {}]

EditorTypeOK ==
    /\ size \in [Axis -> Nat \ {0}]
    /\ editor.open \in BOOLEAN /\ editor.rotate \in Turns /\ editor.brightness \in BOOLEAN
    /\ editor.crop \subseteq CropBox /\ editor.pending \in BOOLEAN
    /\ save.pc \in {"none", "sent", "answered"} /\ save.crop \subseteq CropBox
    /\ edits \in 0..MaxEdits

EditorInit ==
    /\ size \in [Axis -> Extent]
    /\ editor = ClosedEditor /\ save = NoSave /\ edits = 0

-----------------------------------------------------------------------------
(* The dialog.                                                              *)

Clamp01(v) == IF v < 0 THEN 0 ELSE IF v > Scale THEN Scale ELSE v

\* The corner's last word: a side is not too small, and ends in the image.
Fitted(at, len) ==
    LET grown == IF len < MinBox THEN MinBox ELSE len
    IN  [at |-> at, len |-> IF at + grown > Scale THEN Scale - at ELSE grown]

\* onMove, along one axis: the box, its low edge or its high edge is pulled by d.
Pulled(span, edge, d) ==
    CASE edge = "move" ->
           LET at == Clamp01(span.at + d)
           IN  [span EXCEPT !.at = IF at + span.len > Scale THEN Scale - span.len ELSE at]
      [] edge = "low" -> Fitted(Clamp01(span.at + d), Clamp01(span.len - d))
      [] edge = "high" -> Fitted(span.at, Clamp01(span.len + d))

\* A drag of the box or of one of its corners, of any length along one axis.
DragBox ==
    /\ editor.open
    /\ \E b \in editor.crop, a \in Axis, d \in -Scale..Scale,
          edge \in [Axis -> {"low", "high"}] \cup {[c \in Axis |-> "move"]} :
         editor' = [editor EXCEPT !.crop =
                      {[c \in Axis |-> Pulled(b[c], edge[c], IF c = a THEN d ELSE 0)]}]
    /\ UNCHANGED <<size, save, edits>>

OpenEditor ==
    /\ ~editor.open
    /\ editor' = [ClosedEditor EXCEPT !.open = TRUE]
    /\ UNCHANGED <<size, save, edits>>

\* The tab brings a first box, the sliders their values.
CropTab ==
    /\ editor.open /\ editor.crop = {}
    /\ editor' = [editor EXCEPT !.crop = {[a \in Axis |-> [at |-> FirstAt, len |-> FirstLen]]}]
    /\ UNCHANGED <<size, save, edits>>

PickOthers ==
    /\ editor.open
    /\ \/ \E r \in Turns : editor' = [editor EXCEPT !.rotate = r]
       \/ editor' = [editor EXCEPT !.brightness = ~@]
    /\ UNCHANGED <<size, save, edits>>

\* Closing forgets the box; the POST goes on.
CloseEditor ==
    /\ editor.open
    /\ editor' = ClosedEditor
    /\ save' = [save EXCEPT !.mine = FALSE]
    /\ UNCHANGED <<size, edits>>

Save ==
    /\ editor.open /\ ~editor.pending
    /\ IF editor.rotate = 0 /\ editor.crop = {} /\ ~editor.brightness
       THEN editor' = [editor EXCEPT !.err = TRUE] /\ UNCHANGED <<save, edits>>
       ELSE /\ save.pc = "none" /\ edits < MaxEdits /\ edits' = edits + 1
            /\ editor' = [editor EXCEPT !.err = FALSE, !.pending = TRUE]
            /\ save' = [NoSave EXCEPT !.pc = "sent", !.mine = TRUE, !.rotate = editor.rotate,
                                      !.crop = editor.crop, !.brightness = editor.brightness]
    /\ UNCHANGED size

\* onSaved closes the editor that is open by then, the same one or not.
SaveAnswered ==
    /\ save.pc = "answered"
    /\ editor' = IF save.why = "ok" THEN ClosedEditor
                 ELSE IF save.mine THEN [editor EXCEPT !.err = TRUE, !.pending = FALSE]
                 ELSE editor
    /\ save' = NoSave
    /\ UNCHANGED <<size, edits>>

-----------------------------------------------------------------------------
(* The route.                                                               *)

\* validatePhotoEditPayload, for what a dialog can send.
Verdict(b) ==
    IF \E a \in Axis : b[a].len <= 0 THEN "empty"
    ELSE IF \E a \in Axis : b[a].at + b[a].len > Scale THEN "bounds"
    ELSE "ok"

\* Math.round(n / Scale * side).
Pixels(n, side) == (2 * n * side + Scale) \div (2 * Scale)

\* Mutant: the width is not cut at the image's edge.
ExtractUncut(span, side) ==
    [left |-> Pixels(span.at, side), width |-> Pixels(span.len, side), span |-> span, side |-> side]

\* What sharp is asked to extract (span and side: ghosts).
Extract(span, side) ==
    LET left == Pixels(span.at, side)
        width == Pixels(span.len, side)
    IN  [left |-> left, width |-> IF width > side - left THEN side - left ELSE width,
         span |-> span, side |-> side]

RefuseEdit(why) ==
    /\ save' = [save EXCEPT !.pc = "answered", !.why = why]
    /\ UNCHANGED size

\* The crop comes first, then the turn.
WriteOriginal(cut) ==
    /\ save' = [save EXCEPT !.pc = "answered", !.cut = cut]
    /\ LET kept == [a \in Axis |-> IF cut = {} THEN size[a] ELSE (CHOOSE c \in cut : TRUE)[a].width]
       IN  size' = IF save.rotate \in {1, 3} THEN [x |-> kept["y"], y |-> kept["x"]] ELSE kept

PostEdit ==
    /\ save.pc = "sent"
    /\ \/ RefuseEdit("other")
       \/ save.crop = {} /\ WriteOriginal({})
       \/ \E b \in save.crop :
            LET cut == [a \in Axis |-> Extract(b[a], size[a])] IN
            IF Verdict(b) # "ok" THEN RefuseEdit(Verdict(b))
            ELSE IF \E a \in Axis : cut[a].width <= 0 THEN RefuseEdit("empty")
            ELSE WriteOriginal({cut})
    /\ UNCHANGED <<editor, edits>>

\* Another admin's edit, after the preview was drawn.
OtherEdit ==
    /\ edits < MaxEdits /\ edits' = edits + 1
    /\ size' \in [Axis -> Extent] /\ size' # size
    /\ UNCHANGED <<editor, save>>

EditorNext ==
    \/ OpenEditor \/ CropTab \/ PickOthers \/ DragBox \/ CloseEditor \/ Save
    \/ PostEdit \/ SaveAnswered \/ OtherEdit

EditorSpec == EditorInit /\ [][EditorNext]_editorVars

-----------------------------------------------------------------------------
(* Property.                                                                *)

\* However the box was dragged, it is in the image, the route never finds it
\* out of bounds, and what it cuts is a region of the original as it is then,
\* whose edges are within a pixel of the box's (edit/route.ts:112-127).
ExtractStaysInside ==
    /\ \A b \in editor.crop : \A a \in Axis : b[a].at >= 0 /\ b[a].len >= 0 /\ b[a].at + b[a].len <= Scale
    /\ save.why # "bounds"
    /\ \A cut \in save.cut : \A a \in Axis :
         LET c == cut[a] IN
         /\ c.left >= 0 /\ c.width >= 1 /\ c.left + c.width <= c.side
         /\ Scale * (c.left + c.width) - (c.span.at + c.span.len) * c.side \in -Scale..Scale
         /\ Scale * c.left - c.span.at * c.side \in -Scale..Scale
=============================================================================
