CONSTANTS
    Workers = {w1, w2}
    Webhooks = {h}
    FirstKinds = {"reset_execution"}
    MaxClock = 4
    MaxRevisions = 1
    None = None
SPECIFICATION NamesSpec
INVARIANTS
    NamesTypeOK
    NameFitsKind
PROPERTIES
    NamesKept
    OutcomesCounted
CHECK_DEADLOCK FALSE
VIEW View
SYMMETRY Symmetry
