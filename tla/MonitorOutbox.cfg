CONSTANTS
    Level = {0, 1}
    Plan = {1}
    Trigger = {"poll", "notification"}
    Banked = {0}
    Confirm = 1
    Heartbeat = 2
    Gap = 3
    Sessions = 2
    Prompt = FALSE
    Faults = TRUE
    MaxDown = 1
    MaxClock = 4
    None = None

SPECIFICATION FairSpec
INVARIANTS
    OutboxFaithful
    DroppedNeverPosted
    SessionTracksFile
PROPERTIES
    DurablePostsArriveInOrder
    ConfirmedOnce
    EvidenceKept
    OutboxDrains
CHECK_DEADLOCK FALSE
