\* Two photos, two finalize requests of one or both, one batch; no faults, no sweep.
SPECIFICATION Spec
CONSTANTS
    p1 = p1
    p2 = p2
    e1 = e1
    e2 = e2
    Photo = {p1, p2}
    Caller = {c1, c2}
    Edit = {}
    EditPhoto <- EditsOfP1
    Worker = {w1}
    Job = {j1, j2, j3, j4}
    Reserve = 1
    BatchSize = 2
    MaxAttempts = 2
    RetryLimit = 0
    MaxFiles = 2
    MaxFaults = 0
    MaxRegens = 1
    Aging = {}
SYMMETRY Symmetry
INVARIANTS
    PoisonStaysAlone
CHECK_DEADLOCK FALSE
