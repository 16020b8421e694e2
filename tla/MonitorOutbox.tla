--------------------------- MODULE MonitorOutbox ---------------------------
(***************************************************************************)
(* What the usage monitor keeps on disk and how a reading becomes a post:  *)
(* the outbox pending-posts.json (createPendingMonitorPostQueue), the      *)
(* candidate file pending-recovery-candidate.json, the two-step            *)
(* confirmation of refresh, delivery of the oldest post, app-server        *)
(* sessions that end and begin again, and crashes.                         *)
(*                                                                         *)
(* Operations on the outbox run one at a time (withExclusive).  A delivery *)
(* holds its turn while it awaits the server; everything else in a turn is *)
(* synchronous, and only a failed write or a crash can end it half way.    *)
(* The server is seen through the posts it has handled.                    *)
(***************************************************************************)
EXTENDS Integers, Sequences, SequencesExt

CONSTANTS
    Level,          \* usage levels: a recovery leads to a higher one
    Plan,           \* plan types: another one is a structure change
    Trigger,        \* what starts a reading: "poll", "notification"
    Banked,         \* counts of banked resets
    Confirm,        \* MIN_RECOVERY_CONFIRMATION_DELAY_MS, in clock ticks
    Heartbeat,      \* MONITOR_HEARTBEAT_INTERVAL_MS
    Gap,            \* MAX_USAGE_COMPARISON_GAP_MS, the candidate's TTL too
    Sessions,       \* bound on the app-server sessions of all processes
    Prompt,         \* whether a free turn is taken before time passes
    Faults,         \* whether writes to the two files may fail
    MaxDown,        \* bound on the stops and crashes of the process
    MaxClock,       \* bound on the clock
    None

ASSUME MonitorOutboxAssumption ==
    /\ Level \subseteq Nat /\ Banked \subseteq Nat
    /\ Trigger \subseteq {"poll", "notification"}
    /\ Confirm \in Nat /\ Heartbeat \in Nat /\ Gap \in Nat
    /\ Sessions \in Nat /\ MaxDown \in Nat /\ MaxClock \in Nat
    /\ Prompt \in BOOLEAN /\ Faults \in BOOLEAN

VARIABLES
    outbox,     \* the file, and pendingPosts in memory: saved before assigned
    candFile,   \* the candidate file, and durableRecoveryCandidate
    state,      \* of the process: "down", "up" or "stopping"
    cur,        \* the running session, or 0
    begun,      \* the number of sessions begun
    mem,        \* monitorSnapshotState of each session
    op,         \* the refresh of each session that waits for its turn
    call,       \* the request the exclusive turn awaits
    late,       \* requests the client gave up on, still under way
    clock,
    lastRead,   \* when the last reading was made
    downs,      \* stops and crashes so far
    enqueued,   \* history: the posts ever saved in the outbox
    handled,    \* history: the posts the server has handled
    dropped,    \* history: evidence a refresh dropped without confirming it
    strays      \* history: evidence that may outlive the turn that settles it

disk    == <<outbox, candFile>>
fate    == <<dropped, strays>>
process == <<state, cur, begun, downs>>
net     == <<call, late, handled>>
time    == <<clock, lastRead>>
vars == <<outbox, candFile, state, cur, begun, mem, op, call, late, clock,
          lastRead, downs, enqueued, handled, dropped, strays>>

Session == 1..Sessions
Reason == {"initial", "recovery_candidate", "banked_reset_count_change",
           "structure_change", "heartbeat"}
Snapshot == [at: 0..MaxClock, level: Level, plan: Plan]
Post == [reason: Reason, snap: Snapshot]
Candidate == [base: Snapshot, first: Snapshot, startedAt: 0..MaxClock,
              last: Snapshot, lastPost: 0..MaxClock, known: Banked]
Memory == [lastPost: (0..MaxClock) \cup {None}, base: Snapshot \cup {None},
           cand: Candidate \cup {None}, known: Banked \cup {None}]
Refresh == [snap: Snapshot, banked: Banked, trigger: Trigger]
Call == [session: 0..Sessions, post: Post, answered: BOOLEAN]

ASSUME NoneIsNoValue ==
    None \notin Nat /\ None \notin Snapshot /\ None \notin Candidate
    /\ None \notin Refresh /\ None \notin Call

TypeOK ==
    /\ outbox \in Seq(Post) /\ enqueued \subseteq Post /\ handled \subseteq Post
    /\ candFile \in Candidate \cup {None}
    /\ state \in {"down", "up", "stopping"}
    /\ cur \in 0..begun /\ begun \in 0..Sessions
    /\ mem \in [Session -> Memory]
    /\ op \in [Session -> Refresh \cup {None}]
    /\ call \in Call \cup {None}
    /\ late \subseteq Post
    /\ clock \in 0..MaxClock /\ lastRead \in 0..clock /\ downs \in 0..MaxDown
    /\ dropped \subseteq Snapshot /\ strays \subseteq Snapshot

Blank == [lastPost |-> None, base |-> None, cand |-> None, known |-> None]

Init ==
    /\ outbox = <<>> /\ candFile = None
    /\ state = "down" /\ cur = 0 /\ begun = 0 /\ downs = 0
    /\ mem = [s \in Session |-> Blank]
    /\ op = [s \in Session |-> None]
    /\ call = None /\ late = {}
    /\ clock = 0 /\ lastRead = 0
    /\ enqueued = {} /\ handled = {}
    /\ dropped = {} /\ strays = {}

----------------------------------------------------------------------------
(* evaluateMonitorRecoveryCandidate: what a snapshot s means to a session  *)
(* whose memory is m.  A verdict names the post to make, if any, and the   *)
(* candidate and the baseline the session goes on with.                    *)

Verdict(reason, snap, cand, base) ==
    [reason |-> reason, snap |-> snap, cand |-> cand, base |-> base]

Recovered(from, to) == to.level > from.level

\* Reasons to cancel a candidate: observed too long ago, the usage back, or a
\* reset schedule other than the first evidence's.
Contradicted(c, s) ==
    \/ s.at - c.last.at > Gap
    \/ clock - c.startedAt > Gap
    \/ ~Recovered(c.base, s)
    \/ s.level # c.first.level

\* The second look: a scheduled poll, a while after the first, if the state of the
\* reset schedule is one that confirms (eligible).  Both times are the clock's when
\* the refreshes have their turns, not when they read.
Confirmable(c, trigger, eligible) ==
    trigger = "poll" /\ clock - c.startedAt >= Confirm /\ eligible

JudgeCandidate(c, s, trigger, eligible) ==
    IF s.plan # c.base.plan THEN Verdict("structure_change", s, None, s)
    ELSE IF s.at < c.last.at THEN Verdict("none", s, None, c.last)
    ELSE IF Contradicted(c, s) THEN Verdict("none", s, None, s)
    ELSE IF Confirmable(c, trigger, eligible) THEN Verdict("recovery_candidate", c.first, None, s)
    ELSE Verdict("none", s, [c EXCEPT !.last = s], c.base)

JudgeBaseline(m, s) ==
    IF m.base = None THEN Verdict("none", s, None, s)
    ELSE IF s.plan # m.base.plan THEN Verdict("structure_change", s, None, s)
    ELSE IF s.at < m.base.at THEN Verdict("none", s, None, m.base)
    ELSE IF s.at - m.base.at > Gap THEN Verdict("none", s, None, s)
    ELSE IF Recovered(m.base, s)
         THEN Verdict("none", s,
                      [base |-> m.base, first |-> s, startedAt |-> clock,
                       last |-> s, lastPost |-> m.lastPost, known |-> m.known], m.base)
    ELSE IF clock - m.lastPost >= Heartbeat THEN Verdict("heartbeat", s, None, s)
    ELSE Verdict("none", s, None, s)

Evaluate(m, r, eligible) ==
    IF m.lastPost = None THEN Verdict("initial", r.snap, None, r.snap)
    ELSE IF m.known # None /\ r.banked > m.known
         THEN Verdict("banked_reset_count_change", r.snap, None, r.snap)
    ELSE IF m.cand # None THEN JudgeCandidate(m.cand, r.snap, r.trigger, eligible)
    ELSE JudgeBaseline(m, r.snap)

----------------------------------------------------------------------------
(* The process and its sessions.                                           *)

NoTurnFree == call # None \/ \A s \in Session : op[s] = None

Stop(next) ==
    /\ downs' = downs + 1
    /\ state' = next
    /\ cur' = 0

\* Mutant: the saved candidate is not compared with the outbox.
StartProcess_NoReconcile ==
    /\ state = "down"
    /\ state' = "up"
    /\ LET stale == clock - candFile.startedAt > Gap \/ clock - candFile.first.at > Gap
       IN  candFile' = IF candFile # None /\ stale THEN None ELSE candFile
    /\ UNCHANGED <<outbox, cur, begun, downs, mem, op, net, time, enqueued, fate>>

\* runCodexUsageMonitor, once it has the lock: a candidate too old, or already
\* in the outbox (the crash came between enqueue and clear), is deleted.
StartProcess ==
    /\ state = "down"
    /\ state' = "up"
    /\ LET stale == clock - candFile.startedAt > Gap \/ clock - candFile.first.at > Gap
           queued == \E i \in DOMAIN outbox :
                        outbox[i] = [reason |-> "recovery_candidate", snap |-> candFile.first]
       IN  candFile' = IF candFile # None /\ (stale \/ queued) THEN None ELSE candFile
    /\ UNCHANGED <<outbox, cur, begun, downs, mem, op, net, time, enqueued, fate>>

\* runAppServerSession: a saved candidate is restored, anything else is lost.
BeginSession ==
    /\ state = "up" /\ cur = 0 /\ begun < Sessions
    /\ Prompt => NoTurnFree    \* the backoff before it takes seconds
    /\ begun' = begun + 1
    /\ cur' = begun + 1
    /\ mem' = [mem EXCEPT ![begun + 1] =
                 IF candFile = None THEN Blank
                 ELSE [lastPost |-> candFile.lastPost, base |-> candFile.base,
                       cand |-> candFile, known |-> candFile.known]]
    /\ UNCHANGED <<disk, state, downs, op, net, time, enqueued, fate>>

\* The app-server exits or turns unhealthy.  A refresh that waits for its turn
\* is not told: refresh tests settled only before it reads.
EndSession ==
    /\ cur # 0
    /\ cur' = 0
    /\ UNCHANGED <<disk, state, begun, downs, mem, op, net, time, enqueued, fate>>

\* The user closes the monitor: what waits for its turn still gets it.
RequestStop ==
    /\ state = "up" /\ downs < MaxDown
    /\ Stop("stopping")
    /\ UNCHANGED <<disk, begun, mem, op, net, time, enqueued, fate>>

\* waitForIdle, and the lock is released.
StopProcess ==
    /\ state = "stopping"
    /\ call = None /\ \A s \in Session : op[s] = None
    /\ state' = "down"
    /\ UNCHANGED <<disk, cur, begun, downs, mem, op, net, time, enqueued, fate>>

\* What a request given up on leaves behind.
Abandoned(c) == IF c = None \/ c.answered THEN late ELSE late \cup {c.post}

Crash ==
    /\ state # "down" /\ downs < MaxDown
    /\ Stop("down")
    /\ mem' = [s \in Session |-> Blank]
    /\ op' = [s \in Session |-> None]
    /\ call' = None
    /\ late' = Abandoned(call)
    /\ UNCHANGED <<disk, begun, time, enqueued, handled, fate>>

----------------------------------------------------------------------------
(* Refresh.                                                                *)

\* The reading: account/rateLimits/read returns, and the refresh queues up.
ReadAccount ==
    /\ state = "up" /\ cur # 0 /\ op[cur] = None
    /\ call # None => call.session # cur
    /\ clock > lastRead
    /\ lastRead' = clock
    /\ \E level \in Level, plan \in Plan, banked \in Banked,
          trigger \in Trigger :
            op' = [op EXCEPT ![cur] =
                     [snap |-> [at |-> clock, level |-> level, plan |-> plan],
                      banked |-> banked, trigger |-> trigger]]
    /\ UNCHANGED <<disk, process, mem, net, clock, enqueued, fate>>

\* enqueue: one initial at a time, and no post twice.
Enqueued(q, p) ==
    IF \E i \in DOMAIN q :
          \/ q[i].reason = "initial" /\ p.reason = "initial"
          \/ q[i].reason = p.reason /\ q[i].snap.at = p.snap.at
    THEN q ELSE Append(q, p)

\* How far a turn that writes both files gets: to its end; to a failed write
\* of the outbox; or to a failed write of the candidate file.
Outcome == {"done"} \cup (IF Faults THEN {"outboxFails", "candidateFails"} ELSE {})

\* Mutant: the candidate file survives a cancellation.
NextCandidate_KeptOnCancel(m, v, banked) ==
    CASE v.reason = "recovery_candidate" -> None
      [] v.cand # None -> [v.cand EXCEPT !.lastPost = m.lastPost, !.known = banked]
      [] OTHER -> candFile

\* The candidate file after a turn with verdict v.
NextCandidate(m, v, banked) ==
    CASE v.reason = "recovery_candidate" -> None
      [] v.cand # None -> [v.cand EXCEPT !.lastPost = m.lastPost, !.known = banked]
      [] v.cand = None /\ m.cand # None -> None
      [] OTHER -> candFile

\* Mutant: the candidate file is cleared before the post is saved.
TurnWrites_ClearFirst(posts, q, file, outcome) ==
    /\ candFile' = IF outcome # "candidateFails" THEN file ELSE candFile
    /\ outbox' = IF posts /\ outcome = "done" THEN q ELSE outbox
    /\ enqueued' = IF posts /\ outcome = "done" /\ q # outbox
                   THEN enqueued \cup {Last(q)} ELSE enqueued

\* The outbox is written before the candidate file.
TurnWrites(posts, q, file, outcome) ==
    /\ outbox' = IF posts /\ outcome # "outboxFails" THEN q ELSE outbox
    /\ candFile' = IF outcome = "done" THEN file ELSE candFile
    /\ enqueued' = IF posts /\ outcome # "outboxFails" /\ q # outbox
                   THEN enqueued \cup {Last(q)} ELSE enqueued

\* The sessions that have evidence of their own in mind while s has its turn:
\* one that runs, and those with a refresh waiting.
Others(s) == {t \in Session \ {s} : t = cur \/ op[t] # None}

\* What a turn leaves behind in two places: when an ended session has it beside
\* others, what these hold and what the file holds; and what a failed write leaves
\* in the file behind a later post.
Strays(s, reason, outcome) ==
    IF Others(s) # {}
    THEN {mem[t].cand.first : t \in {t \in Others(s) : mem[t].cand # None}}
            \cup {c.first : c \in {candFile'} \ {None}}
    ELSE IF outcome = "candidateFails" /\ reason \notin {"none", "heartbeat", "recovery_candidate"}
    THEN {c.first : c \in {candFile} \ {None}}
    ELSE {}

\* The turn of a refresh: evaluate, save the post, then save or clear the
\* candidate.  A heartbeat is sent at once, and only from an empty outbox.
\* Nothing asks whether the session has ended since it read.  An error stops the
\* monitor, except that a failed save of the outbox in a refresh of an ended
\* session goes unnoticed (finish returns at once).
RunRefresh(s) ==
    /\ state # "down" /\ call = None /\ op[s] # None
    /\ \A t \in 1..(s - 1) : op[t] = None
    /\ op' = [op EXCEPT ![s] = None]
    /\ \E outcome \in Outcome, eligible \in BOOLEAN :
       LET m == mem[s]
           v == Evaluate(m, op[s], eligible)
           posts == v.reason \notin {"none", "heartbeat"}
           q == IF posts THEN Enqueued(outbox, [reason |-> v.reason, snap |-> v.snap])
                ELSE outbox
           file == NextCandidate(m, v, op[s].banked)
       IN   /\ outcome = "outboxFails" => q # outbox
            /\ outcome = "candidateFails" =>
                  file # candFile \/ v.reason = "recovery_candidate"
            /\ TurnWrites(posts, q, file, outcome)
            /\ strays' = strays \cup Strays(s, v.reason, outcome)
            /\ IF outcome = "done"
               THEN /\ mem' = [mem EXCEPT ![s] = [lastPost |-> m.lastPost, base |-> v.base,
                                                  cand |-> v.cand, known |-> op[s].banked]]
                    /\ dropped' = IF m.cand # None /\ v.cand = None
                                     /\ v.reason # "recovery_candidate"
                                  THEN dropped \cup {m.cand.first} ELSE dropped
                    /\ call' = IF v.reason = "heartbeat" /\ outbox = <<>>
                               THEN [session |-> s, answered |-> FALSE,
                                     post |-> [reason |-> "heartbeat", snap |-> v.snap]]
                               ELSE None
                    /\ UNCHANGED process
               ELSE /\ UNCHANGED <<mem, dropped, call>>
                    /\ IF state = "up" /\ (outcome = "candidateFails" \/ s = cur)
                       THEN downs < MaxDown /\ Stop("stopping") /\ UNCHANGED begun
                       ELSE UNCHANGED process
    /\ UNCHANGED <<late, handled, time>>

----------------------------------------------------------------------------
(* Delivery.                                                               *)

\* Mutant: posts are delivered for a running session only.
Flush_InSession ==
    /\ state = "up" /\ cur # 0 /\ call = None /\ outbox # <<>>
    /\ call' = [session |-> 0, post |-> Head(outbox), answered |-> FALSE]
    /\ UNCHANGED <<disk, process, mem, op, late, handled, time, enqueued, fate>>

\* Mutant: the head leaves the file when it is sent.
FlushLosingHead ==
    /\ state = "up" /\ call = None /\ outbox # <<>>
    /\ call' = [session |-> 0, post |-> Head(outbox), answered |-> FALSE]
    /\ outbox' = Tail(outbox)
    /\ UNCHANGED <<candFile, process, mem, op, late, handled, time, enqueued, fate>>

\* flushPendingPosts, unless the limiter says wait: the head is sent, and kept.
Flush ==
    /\ state = "up" /\ call = None /\ outbox # <<>>
    /\ call' = [session |-> 0, post |-> Head(outbox), answered |-> FALSE]
    /\ UNCHANGED <<disk, process, mem, op, late, handled, time, enqueued, fate>>

\* External: the server handles the request and answers that it accepted it.
ServerHandles ==
    /\ call # None /\ ~call.answered
    /\ call' = [call EXCEPT !.answered = TRUE]
    /\ handled' = handled \cup {call.post}
    /\ UNCHANGED <<disk, process, mem, op, late, time, enqueued, fate>>

\* External: it handles a request nobody waits for, or never sees it.
ServerHandlesLate ==
    /\ \E p \in late :
          /\ late' = late \ {p}
          /\ handled' \in {handled, handled \cup {p}}
    /\ UNCHANGED <<disk, process, mem, op, call, time, enqueued, fate>>

\* The accepted handler of the session that runs now, or the heartbeat's own.
PostSucceeded(s) ==
    mem' = IF s = 0 THEN mem ELSE [mem EXCEPT ![s].lastPost = clock]

\* deliverPendingMonitorPost: accepted, so the rest of the outbox is saved.  A
\* failed save stops the monitor, which will deliver the head again.
DeliveryAccepted ==
    /\ call # None /\ call.session = 0 /\ call.answered
    /\ call' = None
    /\ \/ /\ outbox' = Tail(outbox)
          /\ PostSucceeded(cur)
          /\ UNCHANGED process
       \/ /\ Faults
          /\ UNCHANGED <<outbox, mem>>
          /\ IF state = "up" THEN downs < MaxDown /\ Stop("stopping") /\ UNCHANGED begun
             ELSE UNCHANGED process
    /\ UNCHANGED <<candFile, op, late, handled, time, enqueued, fate>>

HeartbeatAccepted ==
    /\ call # None /\ call.session # 0 /\ call.answered
    /\ call' = None
    /\ PostSucceeded(call.session)
    /\ UNCHANGED <<disk, process, op, late, handled, time, enqueued, fate>>

\* Mutant: a post that could not be delivered goes to the end of the outbox.
CallFails_Requeue ==
    /\ call # None
    /\ call' = None
    /\ late' = Abandoned(call)
    /\ outbox' = IF call.session = 0 THEN Append(Tail(outbox), Head(outbox)) ELSE outbox
    /\ UNCHANGED <<candFile, process, mem, op, handled, time, enqueued, fate>>

\* A timeout, an error status or a lost answer: the post stays where it is.
CallFails ==
    /\ call # None
    /\ call' = None
    /\ late' = Abandoned(call)
    /\ UNCHANGED <<disk, process, mem, op, handled, time, enqueued, fate>>

Tick ==
    /\ clock < MaxClock
    /\ Prompt => NoTurnFree
    /\ clock' = clock + 1
    /\ UNCHANGED <<disk, process, mem, op, net, lastRead, enqueued, fate>>

Next ==
    \/ StartProcess \/ BeginSession \/ EndSession \/ RequestStop \/ StopProcess
    \/ Crash \/ ReadAccount \/ (\E s \in Session : RunRefresh(s))
    \/ Flush \/ ServerHandles \/ ServerHandlesLate
    \/ DeliveryAccepted \/ HeartbeatAccepted \/ CallFails \/ Tick

Spec == Init /\ [][Next]_vars

\* What waits for a turn gets it and a request ends (both have timeouts), the
\* monitor is started again, posts are retried by a timer, and the server is
\* not down for ever: of infinitely many requests it accepts some.
FairSpec ==
    /\ Spec
    /\ WF_vars(StartProcess) /\ WF_vars(StopProcess)
    /\ WF_vars(\E s \in Session : RunRefresh(s))
    /\ WF_vars(DeliveryAccepted \/ HeartbeatAccepted \/ CallFails)
    /\ SF_vars(Flush) /\ SF_vars(ServerHandles) /\ SF_vars(DeliveryAccepted)

----------------------------------------------------------------------------
(* Properties.                                                             *)

\* A recovery is posted out of turn only for evidence that strayed: an ended
\* session had its turn while another one held it, or a failed write left it in
\* the file behind a later post.
Stray(p) == p.reason = "recovery_candidate" /\ p.snap \in strays

\* A post once saved in the outbox stays there until the server has handled
\* it, whatever fails or crashes in between; and the outbox is in the order of
\* observation and holds no post twice, however many sessions and restarts
\* filled it: but for recoveries that strayed, the head is the oldest that is left.
OutboxFaithful ==
    /\ \A p \in enqueued : p \in Range(outbox) \/ p \in handled
    /\ \A i, j \in DOMAIN outbox :
          i < j => outbox[i].snap.at < outbox[j].snap.at \/ Stray(outbox[j])

\* When the server first handles a post from the outbox, it has handled none
\* that was observed later, so that it is not passed over as stale: unless the
\* post is a recovery that strayed.
DurablePostsArriveInOrder ==
    [][\A p \in handled' \ handled :
          p \in enqueued /\ ~Stray(p) => \A q \in handled : q.snap.at < p.snap.at]_vars

\* Evidence dropped by a refresh (the usage or the schedule came back) is not
\* posted as a recovery later, by another session or after a restart, unless an
\* ended session's refresh had its turn beside the session that held it.
DroppedNeverPosted ==
    \A p \in enqueued :
        p.reason = "recovery_candidate" /\ p.snap \in dropped => p.snap \in strays

\* The same without exception, as the documentation has it: "Zero webhooks are
\* sent for the false alarm".  It does not hold.
FalseAlarmsUnposted ==
    \A p \in enqueued : p.reason = "recovery_candidate" => p.snap \notin dropped

\* A recovery that has not strayed is enqueued once: neither a crash between
\* enqueue and clear nor a restart makes a second post of the same evidence.
ConfirmedOnce ==
    [][Len(outbox') > Len(outbox) =>
          Last(outbox') \notin enqueued \/ Stray(Last(outbox'))]_vars

\* Evidence saved for a restart is given up only when its recovery is in the
\* outbox, when a refresh found it contradicted, when it is too old, or when it has
\* strayed: a crash or a failed write half way through the confirming turn does not
\* lose it.
EvidenceKept ==
    [][candFile # None /\ candFile' = None =>
          \/ [reason |-> "recovery_candidate", snap |-> candFile.first] \in enqueued'
          \/ candFile.first \in dropped' \cup strays
          \/ clock - candFile.first.at > Gap]_vars

\* Every post is delivered in the end, also when no app-server session is left
\* to run: the outbox is empty again and again.
OutboxDrains == []<>(outbox = <<>>)

\* Between turns the running session and the candidate file agree on the
\* pending evidence and on the banked resets seen: whenever the process is
\* killed, the restart resumes the very candidate the session was weighing.  Only
\* evidence that strayed is in one of them alone, or as it was earlier.
SessionTracksFile ==
    state = "up" /\ cur # 0 =>
        LET kept(c) == <<c.base, c.first, c.startedAt, c.last>>
        IN  \/ /\ (mem[cur].cand = None) = (candFile = None)
               /\ candFile # None => /\ kept(candFile) = kept(mem[cur].cand)
                                     /\ candFile.known = mem[cur].known
            \/ candFile # None /\ candFile.first \in strays
            \/ mem[cur].cand # None /\ mem[cur].cand.first \in strays
=============================================================================
