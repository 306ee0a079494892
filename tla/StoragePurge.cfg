\* A trash purge whose DeleteObjects fails.
SPECIFICATION Spec
CONSTANTS
    p1 = p1
    p2 = p2
    p3 = p3
    a1 = a1
    a2 = a2
    trash = trash
    NoAlbum = NoAlbum
    NoPhoto = NoPhoto
    Photo = {p3}
    Album = {trash}
    Home <- HomeOf
    Trash = {trash}
    Move = {}
    Delete = {}
    Wiper = {"purge"}
    MaxFaults = 1
INVARIANT PurgedIsClean
CHECK_DEADLOCK FALSE
