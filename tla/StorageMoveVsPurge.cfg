\* A move out of an album that is purged meanwhile; no faults.
SPECIFICATION Spec
CONSTANTS
    p1 = p1
    p2 = p2
    p3 = p3
    a1 = a1
    a2 = a2
    trash = trash
    NoAlbum = NoAlbum
    NoPhoto = NoPhoto
    Photo = {p1}
    Album = {a1, a2}
    Home <- HomeOf
    Trash = {}
    Move = {m1}
    Delete = {}
    Wiper = {"purge"}
    MaxFaults = 0
INVARIANT MoveBringsBytes
CHECK_DEADLOCK FALSE
