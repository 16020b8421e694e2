CONSTANTS
    r1 = r1
    r2 = r2
    r3 = r3
    p1 = p1
    p2 = p2
    Run = {r1, r2, r3}
    Pid = {p1, p2}
    PidOf <- MCPidOf
    None = None
    Tolerance = 0
    MaxClock = 1
    MaxStep = 0
    Faults = TRUE

SPECIFICATION FairSpec
PROPERTIES
    AcquisitionEnds
    StaleLockIsRecovered
CHECK_DEADLOCK FALSE
