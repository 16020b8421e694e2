CONSTANTS
    r1 = r1
    r2 = r2
    r3 = r3
    p1 = p1
    p2 = p2
    Run = {r1, r2, r3}
    Pid = {p1, p2}
    PidOf <- MCPidOf
    None = None
    Tolerance = 1
    MaxClock = 2
    MaxStep = 1
    Faults = TRUE

SPECIFICATION Spec
INVARIANTS
    MutualExclusion
    LeaseIsOnDisk
PROPERTIES
    LiveOwnerNeverDisplaced
    OrphanedGateStays
CHECK_DEADLOCK FALSE
