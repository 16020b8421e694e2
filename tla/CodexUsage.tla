----------------------------- MODULE CodexUsage -----------------------------
(***************************************************************************)
(* The webhook of the usage monitor (app/api/webhook/codex-usage/route.ts) *)
(* and the database function it ends in, apply_codex_usage_webhook_write.  *)
(* A request reads the monitor's state, looks for evidence in the posts of *)
(* Tibo, and sends what it made of them in one plan, which the database    *)
(* applies only if the state is still the one that was read.  Several      *)
(* requests run at once: the client gives up after 15 seconds, the server  *)
(* goes on.                                                                *)
(*                                                                         *)
(* The monitor is what MonitorOutbox shows it to be: snapshots of the      *)
(* queue are sent in order, each again until it is accepted; a heartbeat   *)
(* is sent once, from an empty queue.  A reading is known by its time; its *)
(* cycle counts the recoveries of the quota so far, which stands for the   *)
(* used percentage that fell and the end of the window that moved on.  All *)
(* readings have one plan and lie within the comparison gap, and all posts *)
(* lie in the windows that relate them to a reading.                       *)
(***************************************************************************)
EXTENDS Naturals, Sequences, FiniteSets, SequencesExt

CONSTANTS
    Tweet,
    None,
    MaxAt,          \* bound: readings the monitor sends
    MaxCycle,       \* bound: recoveries of the quota
    MaxGrants,      \* bound: BANKED resets granted
    PostType,       \* the kinds of posts Tibo makes
    Slots,          \* bound: requests the server works on at once
    MaxFaults       \* bound: failures, crashes and timeouts

Slot == 1..Slots
Time == 1..MaxAt
Reason == {"initial", "recovery_candidate", "banked_reset_count_change",
           "heartbeat"}             \* "structure_change": the plan is one
Snapshot == [at: Time, reason: Reason, cycle: 0..MaxCycle, near: BOOLEAN,
             banked: 0..MaxGrants]
SignalType == {"absent", "teaser", "official_notice", "deferred",
               "reset_executed"}
Pending == 0    \* in the key usage-reset-pending
Key == {"usage-reset"} \X (Time \cup {Pending}) \cup {"tibo-reset"} \X Tweet
Observation == [at: Time, prev: Time, hint: {"unexpected", "near"},
                status: {"observed", "confirmed", "rejected"},
                tibo: Tweet \cup {None},
                blind: BOOLEAN,     \* history: stored without the evidence
                spent: BOOLEAN]     \* history: its notice was used up
Estimate == [key: Key, obs: Time, tweets: SUBSET Tweet,
             primary: Tweet \cup {None}, notice: Tweet \cup {None},
             monitor: BOOLEAN]      \* the version: on the monitor's word alone
Request == [snap: Snapshot, retry: 0..1, seen: Snapshot \cup {None},
            pc: {"state", "notice", "match", "write", "claim", "accepted",
                 "failed"},
            blind: BOOLEAN,             \* a lookup failed
            notice: Tweet \cup {None}, spent: BOOLEAN, teaser: Tweet \cup {None},
            match: Tweet \cup {None}, promote: BOOLEAN, cluster: SUBSET Tweet,
            since: 0..MaxAt]            \* history: writes when it began

ASSUME BoundsAssumption ==
    /\ MaxAt \in Nat \ {0}
    /\ MaxCycle \in Nat /\ MaxGrants \in Nat
    /\ Slots \in Nat /\ MaxFaults \in Nat
    /\ PostType \subseteq SignalType

ASSUME NoneAssumption ==
    None \notin Slot \cup Time \cup Tweet \cup Snapshot \cup Estimate
                  \cup Request \cup Key

VARIABLES
    state,          \* codex_usage_monitor_state
    observations,   \* codex_recovery_observations
    grants,         \* codex_banked_grant_observations
    estimates,      \* reset_execution_estimates
    signals,        \* tibo_signals
    ledger,         \* tibo_formal_adoptions, of posts known by one id
    requests,
    queue,          \* the monitor's outbox
    waiting,        \* the request the monitor waits for
    last,           \* the monitor's last reading
    applied,        \* history: the snapshots written, in order
    accepted,       \* history: the snapshots of the queue that were accepted
    faults

tables == <<state, observations, grants, estimates, signals, ledger>>
monitor == <<queue, waiting, last, accepted>>
vars == <<tables, requests, monitor, applied, faults>>

TypeOK ==
    /\ state \in Snapshot \cup {None}
    /\ observations \subseteq Observation
    /\ grants \subseteq [from: Time, to: Time, count: 1..MaxGrants]
    /\ estimates \subseteq Estimate
    /\ signals \in [Tweet -> SignalType]
    /\ ledger \in [Tweet -> Key \cup {None}]
    /\ requests \in [Slot -> Request \cup {None}]
    /\ queue \in Seq(Snapshot)
    /\ waiting \in Slot \cup {None}
    /\ last \in Snapshot \cup {None}
    /\ applied \in Seq(Snapshot)
    /\ accepted \in Seq(Snapshot)
    /\ faults \in 0..MaxFaults

Init ==
    /\ state = None
    /\ observations = {} /\ grants = {} /\ estimates = {}
    /\ signals = [t \in Tweet |-> "absent"]
    /\ ledger = [t \in Tweet |-> None]
    /\ requests = [r \in Slot |-> None]
    /\ queue = <<>> /\ waiting = None /\ last = None
    /\ applied = <<>> /\ accepted = <<>>
    /\ faults = 0

Fault == faults < MaxFaults /\ faults' = faults + 1

----------------------------------------------------------------------------
(* The monitor.                                                            *)

NewRequest(s) ==
    [snap |-> s, retry |-> 0, seen |-> None, pc |-> "state", blind |-> FALSE,
     notice |-> None, spent |-> FALSE, teaser |-> None, match |-> None,
     promote |-> FALSE, cluster |-> {},
     since |-> Len(applied)]

\* Slots tell requests apart and mean nothing: the first free one is taken.
Free(r) == requests[r] = None /\ \A q \in 1..(r - 1) : requests[q] # None

\* The readings that may come next: the first one of a session is "initial",
\* and a session begins whenever the monitor is started again.
Readings ==
    IF last = None
    THEN {[at |-> 1, reason |-> "initial", cycle |-> 0, near |-> FALSE,
           banked |-> 0]}
    ELSE {s \in Snapshot :
            /\ s.at = last.at + 1
            /\ s.cycle = last.cycle
                 + (IF s.reason = "recovery_candidate" THEN 1 ELSE 0)
            /\ s.near => s.reason = "recovery_candidate"
            /\ s.reason = "banked_reset_count_change" => s.banked > last.banked
            /\ s.reason = "heartbeat" => s.banked = last.banked}

\* A reading to be sent for certain is put into the outbox, which waits for a
\* heartbeat to end.
Enqueue ==
    /\ waiting # None => requests[waiting].snap.reason # "heartbeat"
    /\ \E s \in Readings :
        /\ s.reason # "heartbeat"
        /\ queue' = Append(queue, s)
        /\ last' = s
        /\ UNCHANGED <<tables, requests, waiting, applied, accepted, faults>>

\* A heartbeat is sent at once and only once.
Heartbeat ==
    /\ queue = <<>> /\ waiting = None
    /\ \E s \in Readings, r \in Slot :
        /\ s.reason = "heartbeat"
        /\ Free(r)
        /\ requests' = [requests EXCEPT ![r] = NewRequest(s)]
        /\ waiting' = r
        /\ last' = s
    /\ UNCHANGED <<tables, queue, applied, accepted, faults>>

\* The head of the outbox is sent, or sent again.
Send ==
    /\ queue # <<>> /\ waiting = None
    /\ \E r \in Slot :
        /\ Free(r)
        /\ requests' = [requests EXCEPT ![r] = NewRequest(Head(queue))]
        /\ waiting' = r
    /\ UNCHANGED <<tables, queue, last, applied, accepted, faults>>

\* The client stops waiting; the request goes on at the server.
GiveUp ==
    /\ waiting # None
    /\ Fault
    /\ waiting' = None
    /\ UNCHANGED <<tables, requests, queue, last, applied, accepted>>

----------------------------------------------------------------------------
(* The server.                                                             *)

\* The count of BANKED resets grew between two readings; at the start of a
\* session that says nothing.
Grant(prev, s) ==
    /\ prev # None
    /\ s.reason # "initial"
    /\ s.banked > prev.banked

\* evaluateCodexUsageRecovery, for the posts that may report a recovery.
Recovery(prev, s) ==
    /\ prev # None
    /\ s.reason = "recovery_candidate"
    /\ s.cycle > prev.cycle

\* Somebody spent a BANKED reset of their own: no reset for all.
Personal(prev, s) == grants # {} /\ s.banked < prev.banked

Goto(r, pc) == requests' = [requests EXCEPT ![r].pc = pc]

\* The request reads the state it will compare with.
ReadState(r) ==
    /\ requests[r] # None /\ requests[r].pc = "state"
    /\ LET s == requests[r].snap
           next == IF state # None /\ s.at <= state.at THEN "accepted"
                   ELSE IF Recovery(state, s) THEN "notice" ELSE "write"
       IN  requests' = [requests EXCEPT ![r].seen = state, ![r].pc = next]
    /\ UNCHANGED <<tables, monitor, applied, faults>>

\* Mutant: the events there are do not use up a notice.
Used_Never(n) == FALSE

\* A one-shot notice that an event was named after.
Used(n) == \E e \in estimates : e.notice = n

\* hasActiveOfficialNotice: a notice and a teaser.  A notice that a reset has used
\* up is found as long as it is active.
LookupNotice(r) ==
    /\ requests[r] # None /\ requests[r].pc = "notice"
    /\ \E n \in {t \in Tweet : signals[t] = "official_notice"} \cup {None},
          z \in {t \in Tweet : signals[t] = "teaser"} \cup {None} :
        /\ n = None => \A t \in Tweet : signals[t] = "official_notice" => Used(t)
        /\ z = None => \A t \in Tweet : signals[t] # "teaser"
        /\ requests' = [requests EXCEPT
                ![r].notice = n, ![r].spent = n # None /\ Used(n),
                ![r].teaser = z,
                ![r].pc = IF requests[r].snap.near THEN "write" ELSE "match"]
    /\ UNCHANGED <<tables, monitor, applied, faults>>

Formal == {t \in Tweet : signals[t] \in {"deferred", "reset_executed"}}

\* The posts that announced a reset.
Announcements == {t \in Tweet : signals[t] \in {"official_notice", "teaser"}}

\* Mutant: that there is no formal post is taken for a failed lookup.
LookupMatch_NotFound(r) ==
    /\ requests[r] # None /\ requests[r].pc = "match"
    /\ Goto(r, IF Formal = {} THEN "failed" ELSE "write")
    /\ UNCHANGED <<tables, monitor, applied, faults>>

\* findRecentFormalTiboReset; a post that was put off is promoted.  The cluster
\* of the post found are the announcements it makes good.
LookupMatch(r) ==
    /\ requests[r] # None /\ requests[r].pc = "match"
    /\ \E t \in IF Formal = {} THEN {None} ELSE Formal :
        requests' = [requests EXCEPT
            ![r].match = t,
            ![r].promote = t # None /\ signals[t] = "deferred",
            ![r].cluster = IF t = None THEN {} ELSE Announcements,
            ![r].pc = "write"]
    /\ UNCHANGED <<tables, monitor, applied, faults>>

\* A lookup fails.  Without evidence a recovery is stored, but makes no event;
\* without the formal posts that is done only for the sake of a grant.
LookupFails(r) ==
    /\ requests[r] # None
    /\ Fault
    /\ LET q == requests[r]
       IN  \/ q.pc = "state" /\ Goto(r, "failed")
          \/ /\ q.pc \in {"notice", "match"}
             /\ IF q.pc = "match" /\ ~Grant(q.seen, q.snap)
                THEN Goto(r, "failed")
                ELSE requests' = [requests EXCEPT ![r].blind = TRUE,
                                                  ![r].pc = "write"]
    /\ UNCHANGED <<tables, monitor, applied>>

\* The plan of a request: the recovery, with its verdict and the post it
\* belongs to, and the event it makes, if it makes one.
PlannedObservation(q) ==
    [at |-> q.snap.at, prev |-> q.seen.at,
     hint |-> IF q.snap.near THEN "near" ELSE "unexpected",
     status |-> IF Personal(q.seen, q.snap) THEN "rejected"
                ELSE IF q.match # None THEN "confirmed" ELSE "observed",
     tibo |-> q.match, blind |-> q.blind, spent |-> q.spent]

MakesEvent(q) ==
    /\ Recovery(q.seen, q.snap)
    /\ ~q.blind /\ ~q.snap.near /\ ~Personal(q.seen, q.snap)

\* A used up notice leaves no post to name the event after, and the key of the
\* code is then the placeholder: only a monitor's own event is named after its
\* recovery by the database.
PlannedKey(q) ==
    IF q.match # None THEN <<"tibo-reset", q.match>>
    ELSE IF q.notice # None
    THEN IF q.spent THEN <<"usage-reset", Pending>>
         ELSE <<"tibo-reset", q.notice>>
    ELSE IF q.teaser # None THEN <<"tibo-reset", q.teaser>>
    ELSE <<"usage-reset", q.snap.at>>

Representative(cluster) ==
    IF cluster = {} THEN None ELSE CHOOSE t \in cluster : TRUE

PlannedEstimate(q) ==
    LET k == PlannedKey(q)
        own == IF k[1] = "tibo-reset" THEN k[2] ELSE None
        notice == IF own = q.notice THEN q.notice ELSE Representative(q.cluster)
    IN  [key |-> k, obs |-> q.snap.at,
         tweets |-> IF own = None THEN {} ELSE {own} \cup q.cluster,
         primary |-> IF notice # None THEN notice ELSE own,
         notice |-> notice,
         monitor |-> k[1] = "usage-reset"]

\* An event found by its key, or else by its recovery, keeps both.
MergeEstimate(e) ==
    LET same == {o \in estimates : o.key = e.key}
        old == IF same # {} THEN same ELSE {o \in estimates : o.obs = e.obs}
    IN  IF old = {} THEN estimates \cup {e}
        ELSE LET o == CHOOSE o \in old : TRUE
             IN  (estimates \ {o}) \cup
                 {[key |-> o.key,
                   obs |-> o.obs,
                   tweets |-> o.tweets \cup e.tweets,
                   primary |-> IF e.primary # None THEN e.primary ELSE o.primary,
                   notice |-> IF e.notice # None THEN e.notice ELSE o.notice,
                   monitor |-> e.monitor]}

PlannedGrant(q) ==
    [from |-> q.seen.at, to |-> q.snap.at, count |-> q.snap.banked - q.seen.banked]

\* The increase is stored already, as one from another reading: an error.
GrantConflicts(q) ==
    /\ Grant(q.seen, q.snap)
    /\ \E g \in grants : g.to = q.snap.at /\ g # PlannedGrant(q)

\* Mutant: the state is not compared with the one that was read.
Overtaken_Never(q) == FALSE

\* Somebody else has written since the state was read.
Overtaken(q) == state # q.seen

\* The database applies the plan in one transaction.
Apply(r) ==
    /\ requests[r] # None /\ requests[r].pc = "write"
    /\ LET q == requests[r]
           s == q.snap
           recovered == Recovery(q.seen, s)
       IN  /\ ~GrantConflicts(q)
           /\ ~Overtaken(q)
           /\ state' = s
           /\ signals' = IF q.promote /\ signals[q.match] = "deferred"
                         THEN [signals EXCEPT ![q.match] = "reset_executed"]
                         ELSE signals
           /\ observations' = IF recovered
                              THEN observations \cup {PlannedObservation(q)}
                              ELSE observations
           /\ estimates' = IF MakesEvent(q)
                           THEN MergeEstimate(PlannedEstimate(q)) ELSE estimates
           /\ grants' = IF Grant(q.seen, s) THEN grants \cup {PlannedGrant(q)}
                        ELSE grants
           /\ applied' = Append(applied, s)
           /\ Goto(r, IF MakesEvent(q) /\ q.promote THEN "claim" ELSE "accepted")
    /\ UNCHANGED <<ledger, monitor, faults>>

\* Mutant: a stale plan is given up at once.
WriteStale_NoRetry(r) ==
    /\ requests[r] # None /\ requests[r].pc = "write"
    /\ ~GrantConflicts(requests[r]) /\ Overtaken(requests[r])
    /\ Goto(r, "accepted")
    /\ UNCHANGED <<tables, monitor, applied, faults>>

\* The plan is stale: tried again once, if the snapshot is still news.
WriteStale(r) ==
    /\ requests[r] # None /\ requests[r].pc = "write"
    /\ LET q == requests[r]
       IN  /\ ~GrantConflicts(q)
           /\ Overtaken(q)
           /\ requests' = [requests EXCEPT ![r] =
                IF q.snap.at > state.at /\ q.retry = 0
                THEN [NewRequest(q.snap) EXCEPT !.retry = 1, !.since = q.since]
                ELSE [q EXCEPT !.pc = "accepted"]]
    /\ UNCHANGED <<tables, monitor, applied, faults>>

\* The database refuses the plan, or fails.
WriteFails(r) ==
    /\ requests[r] # None /\ requests[r].pc = "write"
    /\ IF GrantConflicts(requests[r]) THEN UNCHANGED faults ELSE Fault
    /\ Goto(r, "failed")
    /\ UNCHANGED <<tables, monitor, applied>>

\* claim_tibo_formal_adoption for a post known by its own id: made once, and
\* one event is claimed by one post.
ClaimOutcome(t, k) ==
    IF ledger[t] = None /\ \A u \in Tweet : ledger[u] # k
    THEN [ledger EXCEPT ![t] = k] ELSE ledger

\* A promoted post is adopted, in the name of the post that represents its
\* event; whatever comes of it, the request succeeds.
Claim(r) ==
    /\ requests[r] # None /\ requests[r].pc = "claim"
    /\ ledger' = LET e == PlannedEstimate(requests[r])
               IN  ClaimOutcome(e.primary, e.key)
    /\ Goto(r, "accepted")
    /\ UNCHANGED <<state, observations, grants, estimates, signals, monitor,
                   applied, faults>>

ClaimFails(r) ==
    /\ requests[r] # None /\ requests[r].pc = "claim"
    /\ Fault
    /\ Goto(r, "accepted")
    /\ UNCHANGED <<tables, monitor, applied>>

\* The answer ends the request; only the one waited for reaches the monitor.
Answer(r) ==
    /\ requests[r] # None /\ requests[r].pc \in {"accepted", "failed"}
    /\ requests' = [requests EXCEPT ![r] = None]
    /\ waiting' = IF waiting = r THEN None ELSE waiting
    /\ IF waiting = r /\ requests[r].pc = "accepted"
            /\ requests[r].snap.reason # "heartbeat"
       THEN /\ queue' = Tail(queue)
            /\ accepted' = Append(accepted, requests[r].snap)
       ELSE UNCHANGED <<queue, accepted>>
    /\ UNCHANGED <<tables, last, applied, faults>>

\* The server ends without an answer.
Crash(r) ==
    /\ requests[r] # None
    /\ Fault
    /\ requests' = [requests EXCEPT ![r] = None]
    /\ waiting' = IF waiting = r THEN None ELSE waiting
    /\ UNCHANGED <<tables, queue, last, applied, accepted>>

\* A post of Tibo is stored: what the webhook of the extension does.
PostStored(t, type) ==
    /\ signals[t] = "absent" /\ type \in PostType
    /\ signals' = [signals EXCEPT ![t] = type]
    /\ UNCHANGED <<state, observations, grants, estimates, ledger, requests,
                   monitor, applied, faults>>

Serve(r) ==
    \/ ReadState(r) \/ LookupNotice(r) \/ LookupMatch(r) \/ Apply(r)
    \/ WriteStale(r) \/ Claim(r) \/ Answer(r)
Fails(r) == LookupFails(r) \/ WriteFails(r) \/ ClaimFails(r) \/ Crash(r)

Next ==
    \/ Enqueue \/ Heartbeat \/ Send \/ GiveUp
    \/ \E r \in Slot : Serve(r) \/ Fails(r)
    \/ \E t \in Tweet, type \in SignalType : PostStored(t, type)

Spec == Init /\ [][Next]_vars

\* The monitor sends its outbox, the server's functions run, also to the refusal
\* of a plan; faults are few.
FairSpec ==
    /\ Spec
    /\ WF_vars(Send)
    /\ \A r \in Slot :
        WF_vars(Serve(r) \/ (WriteFails(r) /\ GrantConflicts(requests[r])))

----------------------------------------------------------------------------
(* Properties.                                                             *)

\* What the webhook promises to the monitor, see UsageLedger.
Ledger == INSTANCE UsageLedger WITH
    posted <- [i \in 1..Len(accepted \o queue) |-> (accepted \o queue)[i].at],
    acknowledged <- Len(accepted),
    latest <- IF state = None THEN 0 ELSE state.at,
    recoveries <- {<<o.prev, o.at>> : o \in observations},
    increases <- {<<g.from, g.to>> : g \in grants},
    meanwhile <- IF waiting = None THEN 0
                 ELSE Len(applied) - requests[waiting].since

\* However requests overlap, are repeated, overtaken or lost, snapshots are
\* compared with their immediate predecessor, none twice, and what the monitor
\* takes out of its outbox has been counted, or was overtaken twice.
ImplementsLedger == Ledger!Spec

\* With few failures all of the monitor's outbox is taken: no answer of the
\* webhook, however often it is repeated, keeps the posts behind waiting.
OutboxAcknowledged == Ledger!AllAcknowledged

\* A confirmed recovery leaves the outbox unobserved only if two other requests
\* wrote, one after the other, while the server worked on it: one such request,
\* of a heartbeat that was given up, is answered by starting over.
RecoveryLostOnlyToTwo ==
    \A r \in Slot :
        /\ requests[r] # None
        /\ requests[r].pc = "accepted"
        /\ requests[r].snap.reason = "recovery_candidate"
        /\ \A o \in observations : o.at # requests[r].snap.at
        => Len(applied) - requests[r].since >= 2

Public(o) == o.hint = "unexpected" /\ o.status # "rejected" /\ ~o.blind

\* Every recovery for all is an event in the history, and one event at most.  It is
\* one of its own, but for recoveries around one teaser or one report of a reset,
\* and but for those after a notice that was used up and is active still: these are
\* one event together, under a key that names neither post nor recovery.
EachRecoveryAnEvent ==
    \A o \in observations :
        /\ Cardinality({e \in estimates : e.obs = o.at}) <= 1
        /\ Public(o) =>
            \E e \in estimates :
                \/ e.obs = o.at
                \/ /\ e.key[1] = "tibo-reset"
                   /\ signals[e.key[2]] # "official_notice"
                \/ o.spent /\ e.key = <<"usage-reset", Pending>>

=============================================================================
