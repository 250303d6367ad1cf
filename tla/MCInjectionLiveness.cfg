\* Two faults of any kind, three requests: one more than there are faults.
CONSTANTS
    Req = {r1, r2, r3}
    Exec = {e1, e2, e3}
    Identities = {i1, i2}
    None = None
    LeaseTtl = 1
    RunDeadline = 1
    MaxTime = 12
    MaxFaults = 2
SPECIFICATION LiveSpec
CHECK_DEADLOCK FALSE
PROPERTIES
    EventuallySettled
    EventuallyCompleted
