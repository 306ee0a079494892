--------------------------- MODULE MCPhotoPipeline ---------------------------
(* Instances of PhotoPipeline for TLC.                                      *)
EXTENDS PhotoPipeline, TLC

CONSTANTS p1, p2, e1, e2

\* All edit requests name the same photo: edits of one photo are what race.
EditsOfP1 == [e \in Edit |-> p1]

\* Job ids are not symmetric: NewIds chooses among them.
Symmetry == Permutations(Edit) \cup Permutations(Caller)
                \cup (IF Edit = {} THEN Permutations(Photo) ELSE {})
=============================================================================
