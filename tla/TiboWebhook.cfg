SPECIFICATION WebhookSpec
CONSTANTS
    Tweet = {t1, t2}
    None = None
    MaxAt = 2
    MaxCycle = 1
    MaxGrants = 0
    PostType = {}
    Slots = 1
    MaxFaults = 1
    Completion = {t1, t2}
    Notice = {}
    Calls = 2
    MaxSends = 2
    MaxDeliveries = 2
INVARIANTS
    WebhookTypeOK
    AnnouncedOnce
    FollowerJoins
    SomeFollowerMerged
PROPERTY ConfirmationStands
SYMMETRY Alike
VIEW Observed
CHECK_DEADLOCK FALSE
