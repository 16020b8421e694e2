\* A parent and two candidates for the quote, three revisions, room for two.
CONSTANTS
    p = p
    q = q
    other = other
    Item = {p, q, other}
    KindOf <- MCKindOf
    Seen <- MCSeen
    MaxRevisions = 2
    MaxAttempts = 1
    Calls = 2
    MaxPosts = 2
    Late = {p}
    MaxChanges = 1
    MaxFaults = 1
    MaxResets = 1
    None = None

SPECIFICATION Spec
INVARIANTS
    TypeOK
    MarkedIsCurrent
    AckedWasClassified
    MergedIsTracked
CHECK_DEADLOCK FALSE
CONSTRAINT QuoteOnly
