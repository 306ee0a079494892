\* Two days: the first of a month, then a Sunday.
SPECIFICATION BackupSpec
CONSTANTS
    Negative = {n1}
    KeyAlbum = {drawer1, drawer2}
    Inbox = drawer1
    LastDate = 1
    Sunday = {1}
    FirstOfMonth = {0}
    KeepDaily = 1
    KeepWeekly = 1
    KeepMonthly = 1
    AllowDelete = FALSE
INVARIANT ManifestFollowsDump
CHECK_DEADLOCK FALSE
