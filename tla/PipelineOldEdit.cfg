\* An edit of a photo older than a day whose enqueue is lost.
SPECIFICATION FairSpec
CONSTANTS
    p1 = p1
    p2 = p2
    e1 = e1
    e2 = e2
    Photo = {p1}
    Caller = {c1}
    Edit = {e1}
    EditPhoto <- EditsOfP1
    Worker = {w1}
    Job = {j1, j2, j3, j4}
    Reserve = 2
    BatchSize = 1
    MaxAttempts = 2
    RetryLimit = 1
    MaxFiles = 1
    MaxFaults = 1
    MaxRegens = 0
    Aging = {p1}
PROPERTY OldEditComesBack
CHECK_DEADLOCK FALSE
