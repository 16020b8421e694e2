\* Four tweets, all chains of up to three of them, three events.
SPECIFICATION Spec
CONSTANTS
    Tweet = {t1, t2, t3, t4}
    Key = {k1, k2, k3}
    MaxChain = 3
INVARIANTS OneRowEach SharedOnlyByEvidence
PROPERTIES AnnouncedOnce LedgerGrows
SYMMETRY Symmetry
