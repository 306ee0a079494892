\* An album in the trash: the hourly reaper beside the trash purge, two faults.
SPECIFICATION FairSpec
CONSTANTS
    p1 = p1
    p2 = p2
    p3 = p3
    a1 = a1
    a2 = a2
    trash = trash
    NoAlbum = NoAlbum
    NoPhoto = NoPhoto
    Photo = {p1, p2, p3}
    Album = {a1, trash}
    Home <- HomeOf
    Trash = {trash}
    Move = {}
    Delete = {d1}
    Wiper = {"purge", "reap"}
    MaxFaults = 2
INVARIANT ReapedIsClean
PROPERTY TrashIsEmptied
CHECK_DEADLOCK FALSE
