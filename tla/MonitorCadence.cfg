\* In units of 15 seconds: the default poll interval of 120 s, heartbeats after
\* eight minutes, a gap of ten, and the two timeouts.
CONSTANTS
    PollInterval = 8
    HeartbeatInterval = 32
    ComparisonGap = 40
    RpcTimeout = 1
    WebhookTimeout = 1
    MaxClock = 240

SPECIFICATION Spec
INVARIANT ReadingWithinGap
CHECK_DEADLOCK FALSE
