\* Three requests and two executions are enough for one start and one recovery.
CONSTANTS
    Req = {r1, r2, r3}
    Exec = {e1, e2}
    Identities = {i1, i2}
    None = None
    LeaseTtl = 1
    RunDeadline = 1
    MaxTime = 2
SPECIFICATION Spec
SYMMETRY Symmetry
CHECK_DEADLOCK FALSE
INVARIANT StartFailedMeansNoCore
