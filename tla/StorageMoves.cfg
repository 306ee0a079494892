\* Two photos of one album: two moves and a delete overlap or follow each
\* other, from pages of any age; two faults.
SPECIFICATION Spec
CONSTANTS
    p1 = p1
    p2 = p2
    p3 = p3
    a1 = a1
    a2 = a2
    trash = trash
    NoAlbum = NoAlbum
    NoPhoto = NoPhoto
    Photo = {p1, p2}
    Album = {a1, a2}
    Home <- HomeOf
    Trash = {}
    Move = {m1, m2}
    Delete = {d1}
    Wiper = {}
    MaxFaults = 2
SYMMETRY Symmetry
INVARIANTS
    TypeOK
    RowHasBytes
    CoverInAlbum
CHECK_DEADLOCK FALSE
