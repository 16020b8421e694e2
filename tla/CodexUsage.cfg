SPECIFICATION FairSpec
CONSTANTS
    Tweet = {t1}
    None = None
    MaxAt = 3
    MaxCycle = 3
    MaxGrants = 1
    PostType = {"official_notice", "deferred"}
    Slots = 2
    MaxFaults = 2
INVARIANTS
    EachRecoveryAnEvent
    RecoveryLostOnlyToTwo
PROPERTIES
    ImplementsLedger
    OutboxAcknowledged
CHECK_DEADLOCK FALSE
