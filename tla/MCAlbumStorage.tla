--------------------------- MODULE MCAlbumStorage ---------------------------
(* Instances of AlbumStorage for TLC.                                       *)
EXTENDS AlbumStorage, TLC

CONSTANTS p1, p2, p3, a1, a2, trash

\* Two photos of the first album, one that was trashed with its album.
HomeOf == [p \in Photo |-> IF p = p3 THEN trash ELSE a1]

Symmetry == Permutations(Photo \ {p3}) \cup Permutations(Move)
=============================================================================
