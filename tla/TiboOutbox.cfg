\* Two tweets, storage for both, room for one processed id, two timelines.
SPECIFICATION FairSpec
CONSTANTS
    Tweet = {t1, t2}
    Payload = {p1, p2}
    MaxAttempts = 2
    MaxPending = 2
    MaxProcessed = 1
    MaxPosts = 2
    MaxExplicit = 1
    MaxFaults = 1
    None = None
INVARIANTS TypeOK NothingForgotten SendsBounded AckedOnlyIfAccepted
PROPERTY Settles
CHECK_DEADLOCK FALSE
