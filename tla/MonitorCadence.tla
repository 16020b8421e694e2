--------------------------- MODULE MonitorCadence ---------------------------
(***************************************************************************)
(* The rhythm of a healthy usage monitor.  Locally it reads the account at *)
(* every tick of a poll timer, but it posts an unchanged snapshot only as  *)
(* a heartbeat, when HeartbeatInterval has passed since the last accepted  *)
(* post COMPLETED.  The server compares an incoming snapshot with the last *)
(* one it stored and rebases, dropping any recovery it shows, when the two *)
(* were OBSERVED more than ComparisonGap apart.  So the reading that first *)
(* shows a recovery counts only if it is within the gap of the last post.  *)
(*                                                                         *)
(* Every read and every post succeeds here, within its timeout, and no     *)
(* timer is late: what is left is the arithmetic of the four constants.    *)
(***************************************************************************)
EXTENDS Integers

CONSTANTS
    PollInterval,       \* of the setInterval that calls refresh("poll")
    HeartbeatInterval,  \* MONITOR_HEARTBEAT_INTERVAL_MS
    ComparisonGap,      \* MAX_USAGE_COMPARISON_GAP_MS
    RpcTimeout,         \* APP_SERVER_REQUEST_TIMEOUT_MS
    WebhookTimeout,     \* MONITOR_WEBHOOK_TIMEOUT_MS
    MaxClock            \* bound on the clock

\* The values the program can be given: a poll waits for the one before.
CadenceAssumption ==
    /\ PollInterval \in Nat \ {0} /\ HeartbeatInterval \in Nat \ {0}
    /\ ComparisonGap \in Nat /\ RpcTimeout \in Nat /\ WebhookTimeout \in Nat
    /\ MaxClock \in Nat
    /\ RpcTimeout + WebhookTimeout < PollInterval

VARIABLES
    clock,
    phase,                  \* "idle", "reading" or "posting"
    nextPoll,               \* when the poll timer fires next
    observedAt,             \* observedAt of the last snapshot read
    lastSuccessfulPostAt,   \* when the last accepted post completed
    serverAt                \* observedAt of the snapshot the server holds

vars == <<clock, phase, nextPoll, observedAt, lastSuccessfulPostAt, serverAt>>

\* The state once the initial snapshot, read at 0, has been accepted.
Init ==
    /\ clock \in 0..WebhookTimeout
    /\ phase = "idle"
    /\ nextPoll = PollInterval
    /\ observedAt = 0
    /\ lastSuccessfulPostAt = clock
    /\ serverAt = 0

\* refresh("poll"): the account/rateLimits/read request is written.
Poll ==
    /\ phase = "idle"
    /\ clock = nextPoll
    /\ phase' = "reading"
    /\ nextPoll' = nextPoll + PollInterval
    /\ UNCHANGED <<clock, observedAt, lastSuccessfulPostAt, serverAt>>

\* The last test of evaluateMonitorRecoveryCandidate.
HeartbeatDue == clock - lastSuccessfulPostAt >= HeartbeatInterval

\* The response arrives: its snapshot is stamped now and, if due, posted.
ReadCompletes ==
    /\ phase = "reading"
    /\ observedAt' = clock
    /\ phase' = IF HeartbeatDue THEN "posting" ELSE "idle"
    /\ UNCHANGED <<clock, nextPoll, lastSuccessfulPostAt, serverAt>>

\* The heartbeat was stored, and its response is back.
PostAccepted ==
    /\ phase = "posting"
    /\ phase' = "idle"
    /\ serverAt' = observedAt
    /\ lastSuccessfulPostAt' = clock
    /\ UNCHANGED <<clock, nextPoll, observedAt>>

\* Time passes up to the next deadline: the timer, or the call in flight.
Deadline ==
    CASE phase = "idle"    -> nextPoll
      [] phase = "reading" -> nextPoll - PollInterval + RpcTimeout
      [] phase = "posting" -> observedAt + WebhookTimeout

Tick ==
    /\ clock < Deadline /\ clock < MaxClock
    /\ clock' = clock + 1
    /\ UNCHANGED <<phase, nextPoll, observedAt, lastSuccessfulPostAt, serverAt>>

Next == Poll \/ ReadCompletes \/ PostAccepted \/ Tick

Spec == Init /\ [][Next]_vars

----------------------------------------------------------------------------
\* Every reading is comparable for the server: a recovery first seen by it is
\* within the comparison gap of the snapshot the server holds, so that posting
\* it is never answered with a rebase.  The documentation says so of the default
\* constants ("the server still receives a heartbeat before its ten-minute
\* comparison gap"); with them it does not hold.
ReadingWithinGap == observedAt - serverAt <= ComparisonGap

\* What holds instead: a heartbeat is at most one poll late, so that the reading
\* that first shows a recovery is less than the heartbeat interval, one poll
\* interval and the two timeouts away from the snapshot the server holds.
HeartbeatAtNextPoll ==
    observedAt - serverAt
        < HeartbeatInterval + PollInterval + RpcTimeout + WebhookTimeout
=============================================================================
