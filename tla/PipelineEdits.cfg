\* One photo edited by two requests, one worker process, one crash or lost call.
SPECIFICATION Spec
CONSTANTS
    p1 = p1
    p2 = p2
    e1 = e1
    e2 = e2
    Photo = {p1}
    Caller = {c1}
    Edit = {e1, e2}
    EditPhoto <- EditsOfP1
    Worker = {w1}
    Job = {j1, j2, j3}
    Reserve = 1
    BatchSize = 2
    MaxAttempts = 2
    RetryLimit = 1
    MaxFiles = 1
    MaxFaults = 1
    MaxRegens = 0
    Aging = {p1}
SYMMETRY Symmetry
INVARIANTS
    TypeOK
    GarbageNeverPublished
    ProcessingIsInCare
    ReadyDescribesBytes
PROPERTY ImplementsLifecycle
CHECK_DEADLOCK FALSE
