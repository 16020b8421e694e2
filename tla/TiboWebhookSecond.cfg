SPECIFICATION WebhookSpec
CONSTANTS
    Tweet = {t1, t2}
    None = None
    MaxAt = 2
    MaxCycle = 1
    MaxGrants = 0
    PostType = {}
    Slots = 1
    MaxFaults = 0
    Completion = {t1, t2}
    Notice = {}
    Calls = 1
    MaxSends = 2
    MaxDeliveries = 3
INVARIANT SubsequentPostMerged
SYMMETRY Alike
VIEW Observed
CHECK_DEADLOCK FALSE
