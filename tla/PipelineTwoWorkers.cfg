\* Two worker processes hold jobs of the same photo; no faults.
SPECIFICATION Spec
CONSTANTS
    p1 = p1
    p2 = p2
    e1 = e1
    e2 = e2
    Photo = {p1}
    Caller = {c1}
    Edit = {e1}
    EditPhoto <- EditsOfP1
    Worker = {w1, w2}
    Job = {j1, j2, j3}
    Reserve = 1
    BatchSize = 1
    MaxAttempts = 2
    RetryLimit = 1
    MaxFiles = 1
    MaxFaults = 0
    MaxRegens = 0
    Aging = {p1}
INVARIANT ReadyDescribesBytes
CHECK_DEADLOCK FALSE
