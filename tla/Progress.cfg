\* Notifications: two dispatches of one throttled event, a test, a replay, one
\* rule edit or fault.  Gallery: one photo with its tile, a second tab, one
\* fault; the cover and one more image load.  Desk: a photo or two in the grid
\* and the others to come, two requests of the grid in the air, one move.
SPECIFICATION FairSpec
CONSTANTS
    ip = ip
    test = test
    s1 = s1
    owner = owner
    other = other
    noChat = noChat
    Event <- MCEvent
    Ruled = {ip}
    Covered = {}
    Thresholded = {ip}
    Test = test
    Subject = {s1}
    Chat = {owner, other}
    NoChat = noChat
    EnvChat = owner
    Setting <- MCSetting
    BucketLen <- MCBucketLen
    Interval = {2}
    Dispatches = 2
    EventOf <- MCEventOf
    SubjectOf <- MCSubjectOf
    CountOf <- MCCountOf
    Tester = {t1}
    Replayer = {p1}
    Handlers = 2
    MaxJob = 2
    RetryLimit = 1
    MaxCalls = 2
    MaxTime = 1
    MaxTrouble = 1
    cover = cover
    i1 = i1
    Tile = {h1}
    Null = Null
    GuardMax = 2
    MaxFaults = 1
    OtherTab = TRUE
    MaxCount = 2
    Image = {cover, i1}
    Cover = cover
    Cap = 2
    Enabled = TRUE
    z1 = z1
    z3 = z3
    Frame = {z1, z2, z3}
    GridFetch = {1, 2}
    MaxMoves = 1
INVARIANTS
    TypeOK
    NotificationsHold
    TrackerSeesTheBatchThrough
    RestingPageMatchesServer
PROPERTIES
    EveryRowSettles
    PageAppears
    GridCatchesUp
CHECK_DEADLOCK FALSE
