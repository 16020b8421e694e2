-------------------------- MODULE MonitorOutboxProofs --------------------------
(***************************************************************************)
(* Proofs about MonitorOutbox, for any levels, plans, delays and bounds.   *)
(***************************************************************************)
EXTENDS MonitorOutbox, SequenceTheorems, TLAPS

USE DEF fate

\* What a session remembers is complete: a candidate comes after a post, and a
\* baseline with the count of banked resets that was read with it.
MemOK(m) == /\ m.cand # None => m.lastPost # None
            /\ m.base # None => m.known # None
MemoryOK == \A s \in Session : MemOK(mem[s])

\* The running session is the last one begun.  Sessions that ended may have a
\* refresh waiting, each of a later reading than those of the sessions before it.
Waits(s) == op[s] # None
SessionOK ==
    /\ cur # 0 => cur = begun /\ state = "up"
    /\ \A s \in Session : Waits(s) =>
          /\ s <= begun /\ state # "down" /\ op[s].snap.at <= lastRead
          /\ \A t \in Session : s < t /\ Waits(t) => op[s].snap.at < op[t].snap.at

\* A session and the candidate file agree.
Tracks(m) ==
    /\ (m.cand = None) = (candFile = None)
    /\ candFile # None =>
          /\ m.cand.base = candFile.base /\ m.cand.first = candFile.first
          /\ m.cand.startedAt = candFile.startedAt /\ m.cand.last = candFile.last
          /\ m.known = candFile.known

\* They do, or what either has has strayed, for as long as the session runs or has
\* a refresh waiting.
Strayed(c) == c # None => c.first \in strays
Tracked ==
    \A s \in Session :
        cur = s \/ Waits(s) =>
            Tracks(mem[s]) \/ (Strayed(mem[s].cand) /\ Strayed(candFile))

\* Every post there ever was: saved, handled or under way.
Past == enqueued \cup handled \cup late \cup (IF call = None THEN {} ELSE {call.post})

\* Nothing is younger than the last reading, and what waits for its turn is
\* younger than everything else.
Before(t) == t <= lastRead /\ \A s \in Session : Waits(s) => t < op[s].snap.at
TimesOK ==
    /\ \A p \in Past : Before(p.snap.at)
    /\ \A x \in dropped : Before(x.at)
    /\ \A s \in Session : mem[s].cand # None => Before(mem[s].cand.first.at)
    /\ candFile # None => Before(candFile.first.at)

\* The evidence in the file, unless it strayed, is younger than every post, or its
\* own post is in the outbox and the process has gone down over the failed write.
RecoveryOf(c) == [reason |-> "recovery_candidate", snap |-> c.first]
Unposted == \A p \in Past : p.snap.at < candFile.first.at
HalfWritten == /\ state # "up" /\ call = None /\ \A s \in Session : ~Waits(s)
               /\ RecoveryOf(candFile) \in Range(outbox)
CandidateOK ==
    ~Strayed(candFile) =>
        /\ candFile.first.at <= candFile.startedAt
        /\ candFile.first \notin dropped
        /\ Unposted \/ HalfWritten

\* The request of the outbox's turn is its head.
QueueOK ==
    /\ Range(outbox) \subseteq enqueued
    /\ call # None /\ call.session = 0 => outbox # <<>> /\ call.post = Head(outbox)
    /\ call # None /\ call.answered => call.post \in handled

\* Whatever has been sent is the head of the posts not yet handled, or older, but
\* for recoveries that strayed.
Sent == handled \cup late \cup (IF call = None THEN {} ELSE {call.post})
SentOK ==
    \A x \in Sent, p \in enqueued \ handled : x = p \/ x.snap.at < p.snap.at \/ Stray(p)

-----------------------------------------------------------------------------
(* What a verdict and a turn do. *)

\* What holds of the verdict on a refresh r by a session whose memory is m.
VerdictOK(m, r, v) ==
    /\ v.reason \in Reason \cup {"none"} /\ v.snap \in Snapshot
    /\ v.cand \in Candidate \cup {None} /\ v.base \in Snapshot
    /\ v.reason = "recovery_candidate" =>
          m.cand # None /\ v.snap = m.cand.first /\ v.cand = None
    /\ v.reason # "recovery_candidate" => v.snap = r.snap
    /\ v.cand # None =>
          /\ m.lastPost # None /\ v.reason = "none"
          /\ m.cand # None => /\ v.cand.first = m.cand.first
                              /\ v.cand.startedAt = m.cand.startedAt
          /\ m.cand = None => v.cand.first = r.snap /\ v.cand.startedAt = clock

\* With a candidate pending, only the second look makes a recovery of it.
LEMMA JudgeCandidateOK ==
    ASSUME NEW m \in Memory, NEW r \in Refresh, NEW e, clock \in 0..MaxClock,
           m.cand # None, m.lastPost # None
    PROVE  VerdictOK(m, r, JudgeCandidate(m.cand, r.snap, r.trigger, e))
<1> DEFINE c == m.cand
           s == r.snap
<1> USE MonitorOutboxAssumption
<1>1. c \in Candidate /\ s \in Snapshot /\ s # None /\ c # None
  BY NoneIsNoValue DEF Memory, Refresh
<1>2. CASE JudgeCandidate(c, s, r.trigger, e) = Verdict("structure_change", s, None, s)
  BY <1>1, <1>2 DEF VerdictOK, Verdict, Reason
<1>3. CASE JudgeCandidate(c, s, r.trigger, e) \in
             {Verdict("none", s, None, c.last), Verdict("none", s, None, s)}
  BY <1>1, <1>3 DEF VerdictOK, Verdict, Reason, Candidate
<1>4. CASE JudgeCandidate(c, s, r.trigger, e) = Verdict("recovery_candidate", c.first, None, s)
  BY <1>1, <1>4 DEF VerdictOK, Verdict, Reason, Candidate
<1>5. CASE JudgeCandidate(c, s, r.trigger, e) = Verdict("none", s, [c EXCEPT !.last = s], c.base)
  <2>1. /\ [c EXCEPT !.last = s] \in Candidate
        /\ [c EXCEPT !.last = s].first = c.first
        /\ [c EXCEPT !.last = s].startedAt = c.startedAt
    BY <1>1 DEF Candidate
  <2> QED
    BY <1>1, <1>5, <2>1 DEF VerdictOK, Verdict, Reason, Candidate
<1> QED
  BY <1>2, <1>3, <1>4, <1>5 DEF JudgeCandidate

\* Without one, a reading above the baseline becomes the candidate.
LEMMA JudgeBaselineOK ==
    ASSUME NEW m \in Memory, MemOK(m), NEW r \in Refresh, clock \in 0..MaxClock,
           m.cand = None, m.lastPost # None
    PROVE  VerdictOK(m, r, JudgeBaseline(m, r.snap))
<1> DEFINE s == r.snap
           c == [base |-> m.base, first |-> s, startedAt |-> clock,
                 last |-> s, lastPost |-> m.lastPost, known |-> m.known]
<1>1. s \in Snapshot
  BY DEF Refresh
<1>2. CASE JudgeBaseline(m, s) \in
             {Verdict("none", s, None, s), Verdict("structure_change", s, None, s),
              Verdict("heartbeat", s, None, s)}
  BY <1>1, <1>2 DEF VerdictOK, Verdict, Reason
<1>3. CASE m.base # None /\ JudgeBaseline(m, s) = Verdict("none", s, None, m.base)
  BY <1>1, <1>3 DEF VerdictOK, Verdict, Reason, Memory
<1>4. CASE m.base # None /\ JudgeBaseline(m, s) = Verdict("none", s, c, m.base)
  <2>1. m.base \in Snapshot /\ m.known \in Banked /\ m.lastPost \in 0..MaxClock
    BY <1>4 DEF MemOK, Memory
  <2>2. c \in Candidate
    BY <1>1, <2>1 DEF Candidate
  <2>3. c.first = s /\ c.startedAt = clock
    OBVIOUS
  <2> HIDE DEF c
  <2> QED
    BY <1>1, <1>4, <2>1, <2>2, <2>3 DEF VerdictOK, Verdict, Reason
<1> QED
  BY <1>2, <1>3, <1>4 DEF JudgeBaseline

LEMMA EvaluateOK ==
    ASSUME NEW m \in Memory, MemOK(m), NEW r \in Refresh, NEW e, clock \in 0..MaxClock
    PROVE  VerdictOK(m, r, Evaluate(m, r, e))
<1>1. r.snap \in Snapshot
  BY DEF Refresh
<1>2. CASE m.lastPost = None
  <2>1. Evaluate(m, r, e) = Verdict("initial", r.snap, None, r.snap)
    BY <1>2 DEF Evaluate
  <2> QED
    BY <1>1, <1>2, <2>1 DEF VerdictOK, Verdict, Reason
<1>3. CASE m.lastPost # None /\ m.known # None /\ r.banked > m.known
  <2>1. Evaluate(m, r, e) = Verdict("banked_reset_count_change", r.snap, None, r.snap)
    BY <1>3 DEF Evaluate
  <2> QED
    BY <1>1, <2>1 DEF VerdictOK, Verdict, Reason
<1>4. CASE m.lastPost # None /\ ~(m.known # None /\ r.banked > m.known) /\ m.cand # None
  BY <1>4, JudgeCandidateOK DEF Evaluate
<1>5. CASE m.lastPost # None /\ ~(m.known # None /\ r.banked > m.known) /\ m.cand = None
  BY <1>5, JudgeBaselineOK DEF Evaluate
<1> QED
  BY <1>2, <1>3, <1>4, <1>5

\* What a turn does to the outbox: nothing, or it appends p.
PostOf(v) == [reason |-> v.reason, snap |-> v.snap]
Keeps == outbox' = outbox /\ enqueued' = enqueued
Appends(p) == outbox' = Append(outbox, p) /\ enqueued' = enqueued \cup {p}
AlreadyIn(p) ==
    \E i \in DOMAIN outbox : \/ outbox[i].reason = "initial" /\ p.reason = "initial"
                             \/ outbox[i].reason = p.reason /\ outbox[i].snap.at = p.snap.at

\* What a turn of session s with verdict v does when it ends with "outcome".
TurnOK(s, v, outcome) ==
    /\ op' = [op EXCEPT ![s] = None]
    /\ Keeps \/ (v.reason \notin {"none", "heartbeat"} /\ Appends(PostOf(v)))
    /\ outcome = "outboxFails" => Keeps
    /\ v.reason = "recovery_candidate" /\ outcome # "outboxFails" =>
          Appends(PostOf(v)) \/ AlreadyIn(PostOf(v))
    /\ candFile' = IF outcome = "done" THEN NextCandidate(mem[s], v, op[s].banked) ELSE candFile
    /\ strays' = strays \cup Strays(s, v.reason, outcome)
    /\ outcome = "done" =>
          /\ mem' = [mem EXCEPT ![s] = [lastPost |-> mem[s].lastPost, base |-> v.base,
                                        cand |-> v.cand, known |-> op[s].banked]]
          /\ dropped' = IF mem[s].cand # None /\ v.cand = None
                           /\ v.reason # "recovery_candidate"
                        THEN dropped \cup {mem[s].cand.first} ELSE dropped
          /\ \/ call' = None
             \/ /\ v.reason = "heartbeat" /\ outbox = <<>>
                /\ call' = [session |-> s, answered |-> FALSE, post |-> PostOf(v)]
          /\ UNCHANGED process
    /\ outcome # "done" =>
          /\ outcome \in {"outboxFails", "candidateFails"}
          /\ UNCHANGED <<mem, dropped, call>>
          /\ \/ state = "up" /\ downs < MaxDown /\ Stop("stopping") /\ UNCHANGED begun
             \/ /\ UNCHANGED process
                /\ state = "up" => outcome = "outboxFails" /\ s # cur
    /\ \A t \in Session : t < s => op[t] = None
    /\ UNCHANGED <<late, handled, clock, lastRead>>

LEMMA EnqueuedOK ==
    ASSUME outbox \in Seq(Post), NEW p \in Post
    PROVE  /\ AlreadyIn(p) => Enqueued(outbox, p) = outbox
           /\ ~AlreadyIn(p) => /\ Enqueued(outbox, p) = Append(outbox, p)
                               /\ Enqueued(outbox, p) # outbox
                               /\ Last(Enqueued(outbox, p)) = p
BY DEF AlreadyIn, Enqueued, Last

LEMMA TurnFacts ==
    ASSUME TypeOK, MemoryOK, NEW s \in Session, RunRefresh(s)
    PROVE  /\ state # "down" /\ call = None /\ op[s] # None
           /\ \E v, outcome : VerdictOK(mem[s], op[s], v) /\ TurnOK(s, v, outcome)
<1>1. state # "down" /\ call = None /\ op[s] # None
  BY DEF RunRefresh
<1>2. mem[s] \in Memory /\ op[s] \in Refresh /\ MemOK(mem[s]) /\ clock \in 0..MaxClock
  BY <1>1, MonitorOutboxAssumption DEF TypeOK, MemoryOK
<1>3. PICK outcome \in Outcome, eligible \in BOOLEAN :
        LET m == mem[s]
            v == Evaluate(m, op[s], eligible)
            posts == v.reason \notin {"none", "heartbeat"}
            q == IF posts THEN Enqueued(outbox, PostOf(v)) ELSE outbox
        IN  /\ TurnWrites(posts, q, NextCandidate(m, v, op[s].banked), outcome)
            /\ strays' = strays \cup Strays(s, v.reason, outcome)
            /\ IF outcome = "done"
               THEN /\ mem' = [mem EXCEPT ![s] = [lastPost |-> m.lastPost, base |-> v.base,
                                                  cand |-> v.cand, known |-> op[s].banked]]
                    /\ dropped' = IF m.cand # None /\ v.cand = None
                                     /\ v.reason # "recovery_candidate"
                                  THEN dropped \cup {m.cand.first} ELSE dropped
                    /\ call' = IF v.reason = "heartbeat" /\ outbox = <<>>
                               THEN [session |-> s, answered |-> FALSE,
                                     post |-> [reason |-> "heartbeat", snap |-> v.snap]]
                               ELSE None
                    /\ UNCHANGED process
               ELSE /\ UNCHANGED <<mem, dropped, call>>
                    /\ IF state = "up" /\ (outcome = "candidateFails" \/ s = cur)
                       THEN downs < MaxDown /\ Stop("stopping") /\ UNCHANGED begun
                       ELSE UNCHANGED process
  BY DEF RunRefresh, PostOf
<1> DEFINE v == Evaluate(mem[s], op[s], eligible)
           p == PostOf(v)
           posts == v.reason \notin {"none", "heartbeat"}
           q == IF posts THEN Enqueued(outbox, p) ELSE outbox
<1>4. VerdictOK(mem[s], op[s], v)
  BY <1>2, EvaluateOK
<1>5. posts => p \in Post
  BY <1>4 DEF VerdictOK, PostOf, Post
<1>6. /\ op' = [op EXCEPT ![s] = None] /\ UNCHANGED <<late, handled, clock, lastRead>>
      /\ \A t \in Session : t < s => op[t] = None
  BY MonitorOutboxAssumption DEF RunRefresh, time, Session
<1>7. outcome # "done" => outcome \in {"outboxFails", "candidateFails"}
  BY DEF Outcome
<1>8. /\ Keeps \/ (posts /\ Appends(p))
      /\ outcome = "outboxFails" => Keeps
      /\ posts /\ outcome # "outboxFails" => Appends(p) \/ AlreadyIn(p)
  <2>1. outbox \in Seq(Post)
    BY DEF TypeOK
  <2>2. TurnWrites(posts, q, NextCandidate(mem[s], v, op[s].banked), outcome)
    BY <1>3
  <2> HIDE DEF v
  <2>3. CASE ~posts
    BY <2>2, <2>3 DEF TurnWrites, Keeps
  <2>4. CASE posts /\ AlreadyIn(p)
    <3>1. q = outbox
      BY <1>5, <2>1, <2>4, EnqueuedOK
    <3> HIDE DEF q, p
    <3> QED
      BY <2>2, <2>4, <3>1 DEF TurnWrites, Keeps
  <2>5. CASE posts /\ ~AlreadyIn(p)
    <3>1. q = Append(outbox, p) /\ q # outbox /\ Last(q) = p
      BY <1>5, <2>1, <2>5, EnqueuedOK
    <3> HIDE DEF q, p
    <3> QED
      BY <2>2, <2>5, <3>1 DEF TurnWrites, Keeps, Appends
  <2> QED
    BY <2>3, <2>4, <2>5
<1>9. candFile' = IF outcome = "done" THEN NextCandidate(mem[s], v, op[s].banked) ELSE candFile
  BY <1>3 DEF TurnWrites
<1>10. /\ strays' = strays \cup Strays(s, v.reason, outcome)
       /\ outcome = "done" =>
          /\ mem' = [mem EXCEPT ![s] = [lastPost |-> mem[s].lastPost, base |-> v.base,
                                        cand |-> v.cand, known |-> op[s].banked]]
          /\ dropped' = IF mem[s].cand # None /\ v.cand = None
                           /\ v.reason # "recovery_candidate"
                        THEN dropped \cup {mem[s].cand.first} ELSE dropped
          /\ \/ call' = None
             \/ /\ v.reason = "heartbeat" /\ outbox = <<>>
                /\ call' = [session |-> s, answered |-> FALSE, post |-> PostOf(v)]
          /\ UNCHANGED process
       /\ outcome # "done" =>
          /\ UNCHANGED <<mem, dropped, call>>
          /\ \/ state = "up" /\ downs < MaxDown /\ Stop("stopping") /\ UNCHANGED begun
             \/ /\ UNCHANGED process
                /\ state = "up" => outcome # "candidateFails" /\ s # cur
  BY <1>3 DEF PostOf
<1> HIDE DEF v
<1>11. TurnOK(s, v, outcome)
  BY <1>6, <1>7, <1>8, <1>9, <1>10 DEF TurnOK
<1> QED
  BY <1>1, <1>4, <1>11

\* A file that is there, a number or a request is not "none".
LEMMA ValuesNotNone ==
    /\ \A n \in Nat : n # None
    /\ \A n \in 0..MaxClock : n # None
    /\ \A n \in Banked : n # None
    /\ \A x \in Snapshot \cup Candidate \cup Refresh \cup Call : x # None
<1>1. \A n \in Nat : n # None
  BY NoneIsNoValue
<1>2. Banked \subseteq Nat /\ 0..MaxClock \subseteq Nat
  BY MonitorOutboxAssumption
<1> QED
  BY <1>1, <1>2, NoneIsNoValue

\* The candidate file after a turn: cleared, as the verdict has it, or untouched.
LEMMA NextCandidateOK ==
    ASSUME NEW m \in Memory, NEW r \in Refresh, NEW v, VerdictOK(m, r, v),
           candFile \in Candidate \cup {None}
    PROVE  LET n == NextCandidate(m, v, r.banked)
           IN  /\ n \in Candidate \cup {None}
               /\ v.cand # None =>
                     /\ n # None
                     /\ n.base = v.cand.base /\ n.first = v.cand.first
                     /\ n.startedAt = v.cand.startedAt /\ n.last = v.cand.last
                     /\ n.known = r.banked
               /\ v.cand = None /\ m.cand # None => n = None
               /\ v.cand = None /\ m.cand = None => n = candFile
<1> DEFINE c == [v.cand EXCEPT !.lastPost = m.lastPost, !.known = r.banked]
<1>1. CASE v.cand # None
  <2>1. v.cand \in Candidate /\ m.lastPost \in 0..MaxClock /\ r.banked \in Banked
    BY <1>1 DEF VerdictOK, Memory, Refresh
  <2>2. /\ c \in Candidate /\ c.base = v.cand.base /\ c.first = v.cand.first
        /\ c.startedAt = v.cand.startedAt /\ c.last = v.cand.last /\ c.known = r.banked
    BY <2>1 DEF Candidate
  <2>3. NextCandidate(m, v, r.banked) = c
    BY <1>1 DEF VerdictOK, NextCandidate
  <2> HIDE DEF c
  <2> QED
    BY <1>1, <2>2, <2>3, ValuesNotNone
<1>2. CASE v.cand = None /\ m.cand # None
  BY <1>2 DEF NextCandidate
<1>3. CASE v.cand = None /\ m.cand = None
  BY <1>3 DEF NextCandidate, VerdictOK
<1> QED
  BY <1>1, <1>2, <1>3

-----------------------------------------------------------------------------
(* The types, and no post is lost: whatever sessions and failures there are. *)

NoneLost == \A p \in enqueued : p \in Range(outbox) \/ p \in handled
FileInv == TypeOK /\ MemoryOK /\ QueueOK /\ NoneLost

LEMMA InitFileInv == Init => FileInv
BY MonitorOutboxAssumption
   DEF Init, FileInv, TypeOK, MemoryOK, MemOK, QueueOK, NoneLost, Blank, Memory, Range

LEMMA BlankOK == Blank \in Memory /\ MemOK(Blank)
BY DEF Blank, Memory, MemOK

LEMMA AbandonedOK ==
    ASSUME TypeOK PROVE Abandoned(call) \subseteq Post
BY DEF TypeOK, Abandoned, Call

LEMMA BeginFileInv ==
    ASSUME FileInv, BeginSession PROVE FileInv'
<1> USE MonitorOutboxAssumption
<1>1. PICK n : /\ n \in Memory /\ MemOK(n)
               /\ mem' = [mem EXCEPT ![begun + 1] = n]
  <2>1. CASE candFile = None
    BY <2>1, BlankOK DEF BeginSession
  <2>2. CASE candFile # None
    <3> DEFINE n == [lastPost |-> candFile.lastPost, base |-> candFile.base,
                     cand |-> candFile, known |-> candFile.known]
    <3>1. candFile \in Candidate
      BY <2>2 DEF FileInv, TypeOK
    <3>2. /\ candFile.lastPost \in 0..MaxClock /\ candFile.base \in Snapshot
          /\ candFile.known \in Banked
      BY <3>1 DEF Candidate
    <3>3. candFile.lastPost # None /\ candFile.known # None
      BY <3>2, ValuesNotNone
    <3>4. n \in Memory /\ MemOK(n)
      BY <3>1, <3>2, <3>3 DEF Memory, MemOK
    <3> QED
      BY <2>2, <3>4 DEF BeginSession
  <2> QED
    BY <2>1, <2>2
<1>2. begun + 1 \in Session /\ begun + 1 \in 0..Sessions /\ cur' = begun + 1 /\ begun' = begun + 1
  BY DEF BeginSession, FileInv, TypeOK, Session
<1>3. mem' \in [Session -> Memory] /\ MemoryOK'
  BY <1>1, <1>2 DEF FileInv, TypeOK, MemoryOK
<1>4. UNCHANGED <<disk, state, downs, op, net, time, enqueued, dropped, strays>>
  BY DEF BeginSession
<1>5. TypeOK'
  BY <1>2, <1>3, <1>4 DEF FileInv, TypeOK, disk, net, time
<1> QED
  BY <1>3, <1>4, <1>5 DEF FileInv, QueueOK, NoneLost, disk, net

\* A post that is appended is in the outbox, after all that were there.
LEMMA RangeAppend ==
    ASSUME NEW S, NEW q \in Seq(S), NEW p \in S
    PROVE  Range(Append(q, p)) = Range(q) \cup {p}
<1>1. /\ DOMAIN Append(q, p) = 1..(Len(q) + 1) /\ DOMAIN q = 1..Len(q) /\ Len(q) \in Nat
      /\ \A i \in 1..Len(q) : Append(q, p)[i] = q[i]
      /\ Append(q, p)[Len(q) + 1] = p
  OBVIOUS
<1>2. \A i \in 1..(Len(q) + 1) : i \in 1..Len(q) \/ i = Len(q) + 1
  BY <1>1
<1> QED
  BY <1>1, <1>2 DEF Range

LEMMA RangeTail ==
    ASSUME NEW S, NEW q \in Seq(S), q # <<>>
    PROVE  /\ Tail(q) \in Seq(S)
           /\ Range(Tail(q)) \subseteq Range(q)
           /\ \A p \in Range(q) : p \in Range(Tail(q)) \/ p = Head(q)
<1>1. /\ Tail(q) \in Seq(S) /\ Len(q) \in Nat \ {0} /\ DOMAIN q = 1..Len(q)
      /\ DOMAIN Tail(q) = 1..(Len(q) - 1) /\ Head(q) = q[1]
      /\ \A i \in 1..(Len(q) - 1) : Tail(q)[i] = q[i + 1]
  OBVIOUS
<1>2. \A i \in 1..Len(q) : i # 1 => i - 1 \in 1..(Len(q) - 1) /\ Tail(q)[i - 1] = q[i]
  BY <1>1
<1>3. \A i \in 1..(Len(q) - 1) : i + 1 \in 1..Len(q)
  BY <1>1
<1>4. Range(Tail(q)) \subseteq Range(q)
  BY <1>1, <1>3 DEF Range
<1>5. \A p \in Range(q) : p \in Range(Tail(q)) \/ p = Head(q)
  <2> SUFFICES ASSUME NEW i \in 1..Len(q), i # 1 PROVE q[i] \in Range(Tail(q))
    BY <1>1 DEF Range
  <2> QED
    BY <1>1, <1>2 DEF Range
<1> QED
  BY <1>1, <1>4, <1>5

LEMMA RunRefreshFileInv ==
    ASSUME FileInv, NEW s \in Session, RunRefresh(s) PROVE FileInv'
<1> USE MonitorOutboxAssumption
<1>1. TypeOK /\ MemoryOK /\ QueueOK /\ NoneLost
  BY DEF FileInv
<1>2. PICK v, outcome : VerdictOK(mem[s], op[s], v) /\ TurnOK(s, v, outcome)
  BY <1>1, TurnFacts
<1>3. call = None /\ mem[s] \in Memory /\ op[s] \in Refresh /\ MemOK(mem[s])
  BY <1>1, TurnFacts DEF TypeOK, MemoryOK
<1>4. candFile' \in Candidate \cup {None}
  BY <1>1, <1>2, <1>3, NextCandidateOK DEF TurnOK, TypeOK
<1>5. /\ outbox' \in Seq(Post) /\ enqueued' \subseteq Post
      /\ Range(outbox') \subseteq enqueued' /\ NoneLost'
  <2>1. handled' = handled /\ outbox \in Seq(Post) /\ enqueued \subseteq Post
    BY <1>1, <1>2 DEF TurnOK, TypeOK
  <2>2. CASE Keeps
    BY <1>1, <2>1, <2>2 DEF Keeps, QueueOK, NoneLost
  <2>3. CASE v.reason \notin {"none", "heartbeat"} /\ Appends(PostOf(v))
    <3>1. PostOf(v) \in Post
      BY <1>2, <2>3 DEF VerdictOK, PostOf, Post
    <3>2. Range(outbox') = Range(outbox) \cup {PostOf(v)} /\ outbox' \in Seq(Post)
      BY <2>1, <2>3, <3>1, RangeAppend DEF Appends
    <3> QED
      BY <1>1, <2>1, <2>3, <3>1, <3>2 DEF Appends, QueueOK, NoneLost
  <2> QED
    BY <1>2, <2>2, <2>3 DEF TurnOK
<1>6. mem' \in [Session -> Memory] /\ MemoryOK'
  <2> DEFINE n == [lastPost |-> mem[s].lastPost, base |-> v.base,
                   cand |-> v.cand, known |-> op[s].banked]
  <2>1. n \in Memory
    BY <1>2, <1>3 DEF VerdictOK, Memory, Refresh
  <2>2. op[s].banked \in Banked
    BY <1>3 DEF Refresh
  <2>3. MemOK(n)
    BY <1>2, <2>2, ValuesNotNone DEF VerdictOK, MemOK
  <2>4. mem' = [mem EXCEPT ![s] = n] \/ mem' = mem
    BY <1>2 DEF TurnOK
  <2> HIDE DEF n
  <2> QED
    BY <1>1, <2>1, <2>3, <2>4 DEF TypeOK, MemoryOK
<1>7. dropped' \subseteq Snapshot /\ strays' \subseteq Snapshot
  <2>1. \A t \in Session : mem[t].cand # None => mem[t].cand.first \in Snapshot
    BY <1>1 DEF TypeOK, Memory, Candidate
  <2>2. \A c \in {candFile, candFile'} : c # None => c.first \in Snapshot
    BY <1>1, <1>4 DEF TypeOK, Candidate
  <2>3. Strays(s, v.reason, outcome) \subseteq Snapshot
    BY <2>1, <2>2 DEF Strays, Others
  <2> QED
    BY <1>1, <1>2, <2>1, <2>3 DEF TurnOK, TypeOK
<1>8. /\ call' \in Call \cup {None}
      /\ call' # None => call'.session # 0 /\ ~call'.answered
  <2>1. CASE call' = None
    BY <2>1
  <2>2. CASE /\ v.reason = "heartbeat"
             /\ call' = [session |-> s, answered |-> FALSE, post |-> PostOf(v)]
    <3>1. PostOf(v) \in Post /\ s \in 0..Sessions /\ s # 0
      BY <1>2, <2>2 DEF VerdictOK, PostOf, Post, Session
    <3> QED
      BY <2>2, <3>1 DEF Call
  <2> QED
    BY <1>2, <1>3, <2>1, <2>2 DEF TurnOK
<1>9. op' \in [Session -> Refresh \cup {None}]
  BY <1>1, <1>2 DEF TurnOK, TypeOK
<1>10. /\ state' \in {"down", "up", "stopping"} /\ cur' \in 0..begun' /\ begun' \in 0..Sessions
       /\ downs' \in 0..MaxDown
  <2>1. UNCHANGED process \/ (downs < MaxDown /\ Stop("stopping") /\ UNCHANGED begun)
    BY <1>2 DEF TurnOK
  <2> QED
    BY <1>1, <2>1 DEF TypeOK, Stop, process
<1>11. UNCHANGED <<late, handled, clock, lastRead>>
  BY <1>2 DEF TurnOK
<1>12. TypeOK'
  BY <1>1, <1>4, <1>5, <1>6, <1>7, <1>8, <1>9, <1>10, <1>11 DEF TypeOK
<1>13. QueueOK'
  BY <1>5, <1>8 DEF QueueOK
<1> QED
  BY <1>5, <1>6, <1>12, <1>13 DEF FileInv

LEMMA AcceptedFileInv ==
    ASSUME FileInv, DeliveryAccepted \/ HeartbeatAccepted PROVE FileInv'
<1> USE MonitorOutboxAssumption
<1>1. TypeOK /\ MemoryOK /\ QueueOK /\ NoneLost /\ call # None
  BY DEF FileInv, DeliveryAccepted, HeartbeatAccepted
<1>2. ASSUME NEW t \in 0..Sessions, PostSucceeded(t)
      PROVE  mem' \in [Session -> Memory] /\ MemoryOK'
  <2>1. CASE t = 0
    BY <1>1, <1>2, <2>1 DEF PostSucceeded, TypeOK, MemoryOK
  <2>2. CASE t # 0
    <3>1. t \in Session /\ mem[t] \in Memory /\ MemOK(mem[t])
      BY <1>1, <2>2 DEF TypeOK, MemoryOK, Session
    <3> DEFINE n == [mem[t] EXCEPT !.lastPost = clock]
    <3>2. n \in Memory /\ MemOK(n)
      <4>1. clock \in 0..MaxClock /\ clock # None
        BY <1>1, ValuesNotNone DEF TypeOK
      <4> QED
        BY <3>1, <4>1 DEF Memory, MemOK
    <3>3. mem' = [mem EXCEPT ![t] = n]
      BY <1>2, <2>2 DEF PostSucceeded
    <3> HIDE DEF n
    <3> QED
      BY <1>1, <3>1, <3>2, <3>3 DEF TypeOK, MemoryOK
  <2> QED
    BY <2>1, <2>2
<1>3. CASE HeartbeatAccepted
  <2>1. call.session \in 0..Sessions
    BY <1>1 DEF TypeOK, Call
  <2>2. mem' \in [Session -> Memory] /\ MemoryOK'
    BY <1>2, <1>3, <2>1 DEF HeartbeatAccepted
  <2>3. call' = None /\ UNCHANGED <<disk, process, op, late, handled, time, enqueued, dropped, strays>>
    BY <1>3 DEF HeartbeatAccepted
  <2>4. TypeOK'
    BY <1>1, <2>2, <2>3 DEF TypeOK, disk, process, time
  <2> QED
    BY <1>1, <2>2, <2>3, <2>4 DEF FileInv, QueueOK, NoneLost, disk
<1>4. CASE DeliveryAccepted
  <2>1. outbox \in Seq(Post) /\ outbox # <<>> /\ Head(outbox) \in handled
    BY <1>1, <1>4 DEF DeliveryAccepted, TypeOK, QueueOK
  <2>2. /\ call' = None /\ UNCHANGED <<candFile, op, late, handled, time, enqueued, dropped, strays>>
        /\ \/ outbox' = Tail(outbox) /\ PostSucceeded(cur) /\ UNCHANGED process
           \/ /\ UNCHANGED <<outbox, mem>>
              /\ \/ downs < MaxDown /\ Stop("stopping") /\ UNCHANGED begun
                 \/ UNCHANGED process
    BY <1>4 DEF DeliveryAccepted
  <2>3. mem' \in [Session -> Memory] /\ MemoryOK'
    <3>1. cur \in 0..Sessions
      BY <1>1 DEF TypeOK
    <3> QED
      BY <1>1, <1>2, <2>2, <3>1 DEF TypeOK, MemoryOK
  <2>4. outbox' \in Seq(Post) /\ Range(outbox') \subseteq enqueued' /\ NoneLost'
    <3>1. /\ Tail(outbox) \in Seq(Post) /\ Range(Tail(outbox)) \subseteq Range(outbox)
          /\ \A p \in Range(outbox) : p \in Range(Tail(outbox)) \/ p = Head(outbox)
      BY <2>1, RangeTail
    <3>2. Range(outbox) \subseteq enqueued /\ NoneLost
      BY <1>1 DEF QueueOK
    <3>3. CASE outbox' = Tail(outbox)
      BY <2>1, <2>2, <3>1, <3>2, <3>3 DEF NoneLost
    <3>4. CASE outbox' = outbox
      BY <2>1, <2>2, <3>2, <3>4 DEF NoneLost
    <3> QED
      BY <2>2, <3>3, <3>4
  <2>5. /\ state' \in {"down", "up", "stopping"} /\ cur' \in 0..begun' /\ begun' \in 0..Sessions
        /\ downs' \in 0..MaxDown
    BY <1>1, <2>2 DEF TypeOK, Stop, process
  <2>6. TypeOK'
    BY <1>1, <2>2, <2>3, <2>4, <2>5 DEF TypeOK, time
  <2> QED
    BY <2>2, <2>3, <2>4, <2>6 DEF FileInv, QueueOK
<1> QED
  BY <1>3, <1>4

LEMMA FileInvPreserved == FileInv /\ [Next]_vars => FileInv'
<1> SUFFICES ASSUME FileInv, [Next]_vars PROVE FileInv'
  OBVIOUS
<1> USE MonitorOutboxAssumption
<1>0. TypeOK /\ MemoryOK /\ QueueOK /\ NoneLost
  BY DEF FileInv
<1>1. CASE StartProcess
  <2>1. /\ candFile' \in {candFile, None} /\ state' = "up"
        /\ UNCHANGED <<outbox, cur, begun, downs, mem, op, net, time, enqueued, dropped, strays>>
    BY <1>1 DEF StartProcess
  <2> QED
    BY <1>0, <2>1 DEF FileInv, TypeOK, MemoryOK, QueueOK, NoneLost, net, time
<1>2. CASE BeginSession
  BY <1>2, BeginFileInv
<1>3. CASE EndSession \/ RequestStop \/ StopProcess
  BY <1>0, <1>3 DEF EndSession, RequestStop, StopProcess, Stop, FileInv, TypeOK, MemoryOK,
     QueueOK, NoneLost, disk, net, time
<1>4. CASE Crash
  <2>1. /\ state' = "down" /\ cur' = 0 /\ downs' = downs + 1 /\ downs < MaxDown
        /\ mem' = [t \in Session |-> Blank] /\ op' = [t \in Session |-> None]
        /\ call' = None /\ late' = Abandoned(call)
        /\ UNCHANGED <<disk, begun, time, enqueued, handled, dropped, strays>>
    BY <1>4 DEF Crash, Stop
  <2>2. late' \subseteq Post
    BY <1>0, <2>1, AbandonedOK
  <2>3. mem' \in [Session -> Memory] /\ MemoryOK'
    BY <2>1, BlankOK DEF MemoryOK
  <2> QED
    BY <1>0, <2>1, <2>2, <2>3 DEF FileInv, TypeOK, QueueOK, NoneLost, disk, time
<1>5. CASE ReadAccount
  <2>1. PICK x \in Refresh : op' = [op EXCEPT ![cur] = x]
    <3>1. clock \in 0..MaxClock
      BY <1>0 DEF TypeOK
    <3> QED
      BY <1>5, <3>1 DEF ReadAccount, Refresh, Snapshot
  <2>2. /\ lastRead' = clock
        /\ UNCHANGED <<disk, process, mem, net, clock, enqueued, dropped, strays>>
    BY <1>5 DEF ReadAccount
  <2>3. op' \in [Session -> Refresh \cup {None}]
    BY <1>0, <2>1 DEF TypeOK
  <2>4. lastRead' \in 0..clock' /\ clock' \in 0..MaxClock
    BY <1>0, <2>2 DEF TypeOK
  <2>5. TypeOK'
    BY <1>0, <2>2, <2>3, <2>4 DEF TypeOK, disk, process, net
  <2> QED
    BY <1>0, <2>2, <2>5 DEF FileInv, MemoryOK, QueueOK, NoneLost, disk, process, net
<1>6. ASSUME NEW s \in Session, RunRefresh(s) PROVE FileInv'
  BY <1>6, RunRefreshFileInv
<1>7. CASE Flush
  <2>1. Head(outbox) \in Post /\ 0 \in 0..Sessions
    BY <1>0, <1>7 DEF Flush, TypeOK
  <2>2. call' \in Call
    BY <1>7, <2>1 DEF Flush, Call
  <2>3. UNCHANGED <<disk, process, mem, op, late, handled, time, enqueued, dropped, strays>>
    BY <1>7 DEF Flush
  <2>4. TypeOK' /\ MemoryOK' /\ NoneLost'
    BY <1>0, <2>2, <2>3 DEF TypeOK, MemoryOK, NoneLost, disk, process, time
  <2>5. QueueOK'
    BY <1>0, <1>7, <2>3 DEF QueueOK, Flush, disk
  <2> QED
    BY <2>4, <2>5 DEF FileInv
<1>8. CASE ServerHandles
  <2>1. /\ call' = [call EXCEPT !.answered = TRUE] /\ handled' = handled \cup {call.post}
        /\ UNCHANGED <<disk, process, mem, op, late, time, enqueued, dropped, strays>>
        /\ call # None
    BY <1>8 DEF ServerHandles
  <2>2. /\ call' \in Call /\ call'.session = call.session /\ call'.post = call.post
        /\ call.post \in Post /\ call'.answered
    BY <1>0, <2>1 DEF TypeOK, Call
  <2>3. TypeOK' /\ MemoryOK' /\ NoneLost'
    BY <1>0, <2>1, <2>2 DEF TypeOK, MemoryOK, NoneLost, disk, process, time
  <2>4. QueueOK'
    BY <1>0, <2>1, <2>2 DEF QueueOK, disk
  <2> QED
    BY <2>3, <2>4 DEF FileInv
<1>9. CASE ServerHandlesLate
  BY <1>0, <1>9 DEF ServerHandlesLate, FileInv, TypeOK, MemoryOK, QueueOK, NoneLost,
     disk, process, time
<1>10. CASE DeliveryAccepted \/ HeartbeatAccepted
  BY <1>10, AcceptedFileInv
<1>11. CASE CallFails
  <2>1. late' \subseteq Post
    BY <1>0, <1>11, AbandonedOK DEF CallFails
  <2> QED
    BY <1>0, <1>11, <2>1 DEF CallFails, FileInv, TypeOK, MemoryOK, QueueOK, NoneLost,
       disk, process, time
<1>12. CASE Tick
  BY <1>0, <1>12 DEF Tick, FileInv, TypeOK, MemoryOK, QueueOK, NoneLost, disk, process, net
<1>13. CASE UNCHANGED vars
  BY <1>0, <1>13 DEF vars, FileInv, TypeOK, MemoryOK, QueueOK, NoneLost
<1> QED
  BY <1>1, <1>2, <1>3, <1>4, <1>5, <1>6, <1>7, <1>8, <1>9, <1>10, <1>11, <1>12, <1>13 DEF Next

\* Every value the program keeps has its type: posts, candidates, memories and
\* requests are whole, the clock does not go back behind a reading.
THEOREM TypeCorrect == Spec => []TypeOK
<1>1. Init => FileInv
  BY InitFileInv
<1>2. FileInv /\ [Next]_vars => FileInv'
  BY FileInvPreserved
<1>3. FileInv => TypeOK
  BY DEF FileInv
<1> QED
  BY <1>1, <1>2, <1>3, PTL DEF Spec

-----------------------------------------------------------------------------
(* The order of the posts and the fate of the evidence, but for recoveries *)
(* that strayed.                                                           *)

Sorted ==
    \A i, j \in DOMAIN outbox :
        i < j => outbox[i].snap.at < outbox[j].snap.at \/ Stray(outbox[j])

PostsInv == TimesOK /\ CandidateOK /\ SentOK /\ DroppedNeverPosted
OrderInv == SessionOK /\ Tracked /\ PostsInv /\ Sorted

LEMMA InitOrderInv == Init => OrderInv
<1> SUFFICES ASSUME Init PROVE OrderInv
  OBVIOUS
<1>1. SessionOK /\ Tracked
  BY MonitorOutboxAssumption DEF Init, SessionOK, Tracked, Waits, Session
<1>2. TimesOK /\ CandidateOK /\ SentOK /\ DroppedNeverPosted
  BY DEF Init, TimesOK, CandidateOK, SentOK, DroppedNeverPosted, Past, Sent, Strayed, Blank
<1>3. Sorted
  BY DEF Init, Sorted
<1> QED
  BY <1>1, <1>2, <1>3 DEF OrderInv, PostsInv

\* No refresh comes to wait; those that go on waiting are the same.
NoneComes == \A s \in Session : Waits(s)' => Waits(s) /\ op'[s] = op[s]

\* Of what is now: it is before the reading and the refreshes there are next.
BeforeNext(t) == t <= lastRead' /\ \A s \in Session : Waits(s)' => t < op'[s].snap.at

LEMMA BeforeStays ==
    ASSUME NoneComes, lastRead' = lastRead
    PROVE  \A t : Before(t) => BeforeNext(t)
BY DEF NoneComes, Before, BeforeNext

\* A step that neither reads nor saves anything, at most moves requests on.
LEMMA QuietStep ==
    ASSUME PostsInv, UNCHANGED <<candFile, lastRead, enqueued, dropped, strays>>,
           handled \subseteq handled', Past' \subseteq Past, Sent' \subseteq Sent,
           NoneComes,
           \A s \in Session : mem'[s].cand = mem[s].cand \/ mem'[s].cand \in {candFile, None},
           HalfWritten => HalfWritten'
    PROVE  PostsInv'
<1>1. TimesOK'
  <2>1. \A t : BeforeNext(t) <=> Before(t)'
    BY DEF BeforeNext, Before
  <2> QED
    BY <2>1, BeforeStays DEF PostsInv, TimesOK
<1>2. CandidateOK'
  BY DEF PostsInv, CandidateOK, Unposted, Strayed
<1>3. SentOK' /\ DroppedNeverPosted'
  BY DEF PostsInv, SentOK, DroppedNeverPosted, Stray
<1> QED
  BY <1>1, <1>2, <1>3 DEF PostsInv

LEMMA AbandonedPast ==
    ASSUME late' = Abandoned(call), call' = None, UNCHANGED <<handled, enqueued>>
    PROVE  Past' \subseteq Past /\ Sent' \subseteq Sent
BY DEF Past, Sent, Abandoned

\* With no process, nothing waits.
LEMMA ProcessSteps ==
    ASSUME FileInv, OrderInv, StartProcess \/ EndSession \/ RequestStop \/ StopProcess
    PROVE  OrderInv'
<1>1. SessionOK /\ Tracked /\ PostsInv /\ Sorted
  BY DEF OrderInv
<1>2. CASE StartProcess
  <2>1. /\ state = "down" /\ state' = "up"
        /\ UNCHANGED <<outbox, cur, begun, downs, mem, op, net, time, enqueued, dropped, strays>>
        /\ candFile' = candFile \/ candFile' = None
    BY <1>2 DEF StartProcess
  <2>2. cur = 0 /\ \A s \in Session : ~Waits(s) /\ ~Waits(s)' /\ cur' # s
    BY <1>1, <2>1, MonitorOutboxAssumption DEF SessionOK, Waits, Session
  <2>3. SessionOK' /\ Tracked' /\ Sorted'
    BY <1>1, <2>1, <2>2 DEF SessionOK, Tracked, Sorted, Stray
  <2>4. Past' = Past /\ Sent' = Sent
    BY <2>1 DEF Past, Sent, net
  <2>5. ~Strayed(candFile)' => candFile' = candFile /\ ~Strayed(candFile) /\ Unposted
    <3> SUFFICES ASSUME ~Strayed(candFile)'
                 PROVE  candFile' = candFile /\ ~Strayed(candFile) /\ Unposted
      OBVIOUS
    <3>1. candFile' = candFile /\ candFile # None /\ ~Strayed(candFile)
      BY <2>1 DEF Strayed
    <3>2. RecoveryOf(candFile) \notin Range(outbox)
      BY <1>2, <3>1 DEF StartProcess, RecoveryOf, Range
    <3> QED
      BY <1>1, <3>1, <3>2 DEF PostsInv, CandidateOK, HalfWritten
  <2>6. CandidateOK'
    BY <1>1, <2>1, <2>4, <2>5 DEF PostsInv, CandidateOK, Unposted
  <2>7. TimesOK'
    BY <1>1, <2>1, <2>2, <2>4 DEF PostsInv, TimesOK, Before, time
  <2>8. SentOK' /\ DroppedNeverPosted'
    BY <1>1, <2>1, <2>4 DEF PostsInv, SentOK, DroppedNeverPosted, Stray, net
  <2> QED
    BY <2>3, <2>6, <2>7, <2>8 DEF OrderInv, PostsInv
<1>3. CASE EndSession \/ RequestStop \/ StopProcess
  <2>1. /\ UNCHANGED <<disk, begun, mem, op, net, time, enqueued, dropped, strays>>
        /\ EndSession => state' = state /\ cur' = 0
        /\ RequestStop => state' = "stopping" /\ cur' = 0 /\ state = "up"
        /\ StopProcess => /\ state' = "down" /\ cur' = cur /\ state = "stopping"
                          /\ \A s \in Session : op[s] = None
    BY <1>3 DEF EndSession, RequestStop, StopProcess, Stop
  <2>2. \A s \in Session : (Waits(s)' <=> Waits(s)) /\ op'[s] = op[s]
    BY <2>1 DEF Waits
  <2>3. SessionOK'
    BY <1>1, <1>3, <2>1, <2>2 DEF SessionOK, time, Waits
  <2>4. Tracked'
    <3>1. \A s \in Session : cur' = s => cur = s
      BY <1>3, <2>1, MonitorOutboxAssumption DEF Session
    <3> QED
      BY <1>1, <2>1, <2>2, <3>1 DEF Tracked, Tracks, Strayed, disk
  <2>5. NoneComes /\ Past' = Past /\ Sent' = Sent /\ Sorted'
    BY <1>1, <2>1, <2>2 DEF NoneComes, Past, Sent, Sorted, Stray, net, disk
  <2>6. HalfWritten => HalfWritten'
    <3>1. HalfWritten => state' # "up"
      BY <1>1, <1>3, <2>1 DEF HalfWritten, SessionOK, EndSession
    <3> QED
      BY <2>1, <2>2, <3>1 DEF HalfWritten, disk, net
  <2>7. PostsInv'
    BY <1>1, <2>1, <2>5, <2>6, QuietStep DEF disk, time, net
  <2> QED
    BY <2>3, <2>4, <2>5, <2>7 DEF OrderInv
<1> QED
  BY <1>2, <1>3

LEMMA BeginOrder ==
    ASSUME FileInv, OrderInv, BeginSession PROVE OrderInv'
<1>1. SessionOK /\ Tracked /\ PostsInv /\ Sorted /\ TypeOK
  BY DEF OrderInv, FileInv
<1>2. /\ state = "up" /\ cur = 0 /\ begun' = begun + 1 /\ cur' = begun + 1
      /\ UNCHANGED <<disk, state, downs, op, net, time, enqueued, dropped, strays>>
      /\ begun \in 0..Sessions /\ begun < Sessions
  BY <1>1 DEF BeginSession, TypeOK
<1>3. \A s \in Session : /\ Waits(s)' <=> Waits(s)
                         /\ Waits(s) => s # begun + 1 /\ s <= begun + 1
  BY <1>1, <1>2, MonitorOutboxAssumption DEF SessionOK, Waits, Session
<1>4. SessionOK' /\ Sorted' /\ NoneComes
  <2>1. cur' = begun' /\ state' = "up" /\ op' = op /\ lastRead' = lastRead
    BY <1>2 DEF time
  <2>2. SessionOK'
    <3>1. \A s \in Session : Waits(s)' =>
             /\ s <= begun' /\ op'[s].snap.at <= lastRead'
             /\ \A t \in Session : s < t /\ Waits(t)' => op'[s].snap.at < op'[t].snap.at
      BY <1>1, <1>2, <1>3, <2>1 DEF SessionOK
    <3> QED
      BY <2>1, <3>1 DEF SessionOK
  <2> QED
    BY <1>1, <1>2, <2>1, <2>2 DEF Sorted, Stray, Waits, NoneComes, disk
<1>5. PICK n : /\ mem' = [mem EXCEPT ![begun + 1] = n] /\ n.cand = candFile
               /\ candFile # None => n.known = candFile.known
  <2>1. CASE candFile = None
    <3>1. mem' = [mem EXCEPT ![begun + 1] = Blank]
      BY <2>1 DEF BeginSession
    <3>2. Blank.cand = candFile
      BY <2>1 DEF Blank
    <3> QED
      BY <2>1, <3>1, <3>2
  <2>2. CASE candFile # None
    <3> DEFINE n == [lastPost |-> candFile.lastPost, base |-> candFile.base,
                     cand |-> candFile, known |-> candFile.known]
    <3>1. n.cand = candFile /\ n.known = candFile.known
      OBVIOUS
    <3>2. mem' = [mem EXCEPT ![begun + 1] = n]
      BY <2>2 DEF BeginSession
    <3> HIDE DEF n
    <3> QED
      BY <3>1, <3>2
  <2> QED
    BY <2>1, <2>2
<1>6. /\ \A s \in Session : s # begun + 1 => mem'[s] = mem[s]
      /\ \A s \in Session : s = begun + 1 => mem'[s] = n
  BY <1>1, <1>5 DEF TypeOK
<1>7. Tracked'
  <2> SUFFICES ASSUME NEW s \in Session, (cur = s \/ Waits(s))'
               PROVE  (Tracks(mem[s]) \/ (Strayed(mem[s].cand) /\ Strayed(candFile)))'
    BY DEF Tracked
  <2>1. CASE s = begun + 1
    BY <1>2, <1>5, <1>6, <2>1 DEF Tracks, disk
  <2>2. CASE s # begun + 1
    <3>1. Waits(s)
      BY <1>2, <1>3, <2>2
    <3> QED
      BY <1>1, <1>2, <1>6, <2>2, <3>1 DEF Tracked, Tracks, Strayed, disk
  <2> QED
    BY <2>1, <2>2
<1>8. Past' = Past /\ Sent' = Sent /\ ~HalfWritten
  BY <1>2 DEF Past, Sent, HalfWritten, net
<1>9. \A s \in Session : mem'[s].cand = mem[s].cand \/ mem'[s].cand \in {candFile, None}
  BY <1>5, <1>6
<1>10. PostsInv'
  BY <1>1, <1>2, <1>4, <1>8, <1>9, QuietStep DEF disk, net, time
<1> QED
  BY <1>4, <1>7, <1>10 DEF OrderInv

LEMMA CrashOrder ==
    ASSUME FileInv, OrderInv, Crash PROVE OrderInv'
<1>1. SessionOK /\ Tracked /\ PostsInv /\ Sorted
  BY DEF OrderInv
<1>2. /\ state' = "down" /\ cur' = 0 /\ op' = [s \in Session |-> None]
      /\ mem' = [s \in Session |-> Blank] /\ call' = None /\ late' = Abandoned(call)
      /\ UNCHANGED <<disk, begun, time, enqueued, handled, dropped, strays>>
  BY DEF Crash, Stop
<1>3. \A s \in Session : ~Waits(s)' /\ cur' # s /\ mem'[s].cand = None
  BY <1>2, MonitorOutboxAssumption DEF Session, Waits, Blank
<1>4. SessionOK' /\ Tracked' /\ Sorted' /\ NoneComes
  BY <1>1, <1>2, <1>3 DEF SessionOK, Tracked, Sorted, Stray, NoneComes, disk
<1>5. Past' \subseteq Past /\ Sent' \subseteq Sent
  BY <1>2, AbandonedPast
<1>6. HalfWritten => HalfWritten'
  BY <1>2, <1>3 DEF HalfWritten, disk
<1>7. PostsInv'
  BY <1>1, <1>2, <1>3, <1>4, <1>5, <1>6, QuietStep DEF disk, time
<1> QED
  BY <1>4, <1>7 DEF OrderInv

\* A reading is younger than everything there is.
LEMMA ReadOrder ==
    ASSUME FileInv, OrderInv, ReadAccount PROVE OrderInv'
<1>1. SessionOK /\ Tracked /\ PostsInv /\ Sorted /\ TypeOK
  BY DEF OrderInv, FileInv
<1>2. /\ state = "up" /\ cur # 0 /\ op[cur] = None /\ clock > lastRead /\ lastRead' = clock
      /\ UNCHANGED <<disk, process, mem, net, clock, enqueued, dropped, strays>>
      /\ clock \in Nat /\ lastRead \in Nat /\ cur \in Nat /\ begun \in Nat /\ cur = begun
  BY <1>1, MonitorOutboxAssumption DEF ReadAccount, TypeOK, SessionOK
<1>3. PICK x : op' = [op EXCEPT ![cur] = x] /\ x.snap.at = clock
  <2>1. PICK level \in Level, plan \in Plan, banked \in Banked, trigger \in Trigger :
           op' = [op EXCEPT ![cur] =
                    [snap |-> [at |-> clock, level |-> level, plan |-> plan],
                     banked |-> banked, trigger |-> trigger]]
    BY DEF ReadAccount
  <2> DEFINE x == [snap |-> [at |-> clock, level |-> level, plan |-> plan],
                   banked |-> banked, trigger |-> trigger]
  <2>2. x.snap.at = clock /\ op' = [op EXCEPT ![cur] = x]
    BY <2>1
  <2> HIDE DEF x
  <2> QED
    BY <2>2
<1>4. \A s \in Session : IF s = cur THEN op'[s].snap.at = clock ELSE op'[s] = op[s]
  BY <1>1, <1>3 DEF TypeOK
<1>5. \A s \in Session : Waits(s) => /\ s # cur /\ s <= begun /\ s \in Nat
                                     /\ op[s].snap.at \in Nat /\ op[s].snap.at <= lastRead
  <2>1. \A s \in Session : Waits(s) => op[s] \in Refresh
    BY <1>1 DEF TypeOK, Waits
  <2> QED
    BY <1>1, <1>2, <2>1, MonitorOutboxAssumption DEF SessionOK, Waits, Refresh, Snapshot, Session
<1>6. SessionOK'
  <2> SUFFICES ASSUME NEW s \in Session, Waits(s)'
               PROVE  (/\ s <= begun /\ state # "down" /\ op[s].snap.at <= lastRead
                       /\ \A t \in Session : s < t /\ Waits(t) => op[s].snap.at < op[t].snap.at)'
    BY <1>1, <1>2 DEF SessionOK, process
  <2>1. CASE s = cur
    <3>1. \A t \in Session : s < t => ~Waits(t)'
      <4> SUFFICES ASSUME NEW t \in Session, s < t, Waits(t)' PROVE FALSE
        OBVIOUS
      <4>1. s \in Nat /\ t \in Nat /\ t # cur
        BY <2>1, MonitorOutboxAssumption DEF Session
      <4>2. t <= begun
        BY <1>4, <1>5, <4>1 DEF Waits
      <4> QED
        BY <1>2, <2>1, <4>1, <4>2
    <3>2. s <= begun /\ op'[s].snap.at = clock /\ clock <= clock
      BY <1>2, <1>4, <2>1
    <3> QED
      BY <1>2, <3>1, <3>2 DEF process
  <2>2. CASE s # cur
    <3>1. Waits(s) /\ op'[s] = op[s]
      BY <1>4, <2>2 DEF Waits
    <3>2. op[s].snap.at < clock /\ op[s].snap.at <= clock /\ s <= begun
      BY <1>2, <1>5, <3>1
    <3>3. ASSUME NEW t \in Session, s < t, Waits(t)' PROVE op'[s].snap.at < op'[t].snap.at
      BY <1>1, <1>4, <3>1, <3>2, <3>3 DEF SessionOK, Waits
    <3> QED
      BY <1>2, <3>1, <3>2, <3>3 DEF process
  <2> QED
    BY <2>1, <2>2
<1>7. Tracked' /\ Sorted'
  BY <1>1, <1>2, <1>4 DEF Tracked, Tracks, Strayed, Waits, Sorted, Stray, disk, process
<1>8. Past' = Past /\ Sent' = Sent /\ ~HalfWritten
  BY <1>2 DEF Past, Sent, HalfWritten, net
<1>9. TimesOK'
  <2>1. /\ \A p \in Past : p.snap.at \in Nat
        /\ \A y \in dropped : y.at \in Nat
        /\ \A s \in Session : mem[s].cand # None => mem[s].cand.first.at \in Nat
        /\ candFile # None => candFile.first.at \in Nat
    BY <1>1, MonitorOutboxAssumption
       DEF TypeOK, Past, Post, Snapshot, Candidate, Call, Memory
  <2>2. ASSUME NEW n \in Nat, Before(n) PROVE Before(n)'
    <3>1. n < clock /\ n <= clock
      BY <1>2, <2>2 DEF Before
    <3>2. \A s \in Session : Waits(s)' => n < op'[s].snap.at
      BY <1>4, <2>2, <3>1 DEF Before, Waits
    <3> QED
      BY <1>2, <3>1, <3>2 DEF Before
  <2> QED
    BY <1>1, <1>2, <1>8, <2>1, <2>2 DEF PostsInv, TimesOK, disk
<1>10. CandidateOK' /\ SentOK' /\ DroppedNeverPosted'
  BY <1>1, <1>2, <1>8 DEF PostsInv, CandidateOK, Unposted, Strayed, SentOK, Stray,
     DroppedNeverPosted, disk, net
<1> QED
  BY <1>6, <1>7, <1>9, <1>10 DEF OrderInv, PostsInv

\* The turn of a refresh.
TurnInv(s, v, outcome) ==
    /\ FileInv /\ OrderInv
    /\ op[s] # None /\ call = None /\ state # "down"
    /\ VerdictOK(mem[s], op[s], v) /\ TurnOK(s, v, outcome)

LEMMA TurnTypes ==
    ASSUME NEW s \in Session, NEW v, NEW outcome, TurnInv(s, v, outcome)
    PROVE  /\ mem[s] \in Memory /\ op[s] \in Refresh /\ MemOK(mem[s])
           /\ candFile \in Candidate \cup {None}
           /\ lastRead \in Nat /\ clock \in Nat /\ lastRead <= clock
           /\ \A p \in Past : p \in Post /\ p.snap.at \in Nat
           /\ \A x \in dropped : x.at \in Nat
           /\ v.snap.at \in Nat /\ op[s].snap.at \in Nat
           /\ candFile # None => candFile.first.at \in Nat /\ candFile.startedAt \in Nat
<1>1. TypeOK /\ MemoryOK
  BY DEF TurnInv, FileInv
<1>2. 0..MaxClock \subseteq Nat
  BY MonitorOutboxAssumption
<1>3. /\ mem[s] \in Memory /\ op[s] \in Refresh /\ MemOK(mem[s])
      /\ candFile \in Candidate \cup {None}
      /\ lastRead \in Nat /\ clock \in Nat /\ lastRead <= clock
  BY <1>1, MonitorOutboxAssumption DEF TypeOK, MemoryOK, TurnInv
<1>4. \A p \in Past : p \in Post
  BY <1>1 DEF TypeOK, Past, Call
<1>5. \A x \in Snapshot : x.at \in Nat
  BY <1>2 DEF Snapshot
<1>6. \A p \in Post : p.snap.at \in Nat
  BY <1>5 DEF Post
<1>7. candFile # None => candFile.first.at \in Nat /\ candFile.startedAt \in Nat
  BY <1>2, <1>3, <1>5 DEF Candidate
<1>8. v.snap.at \in Nat /\ op[s].snap.at \in Nat /\ \A x \in dropped : x.at \in Nat
  BY <1>1, <1>3, <1>5 DEF TurnInv, VerdictOK, TypeOK, Refresh
<1> QED
  BY <1>3, <1>4, <1>6, <1>7, <1>8

\* Whose turn it is, and who is left.
LEMMA TurnPlace ==
    ASSUME NEW s \in Session, NEW v, NEW outcome, TurnInv(s, v, outcome)
    PROVE  /\ ~Waits(s)' /\ NoneComes
           /\ s = cur => Others(s) = {}
           /\ Others(s) = {} => \A t \in Session : ~Waits(t)' /\ (cur' = t => t = s)
           /\ cur' = cur \/ cur' = 0
           /\ BeforeNext(op[s].snap.at)
<1>1. SessionOK /\ TypeOK /\ op' = [op EXCEPT ![s] = None] /\ lastRead' = lastRead
  BY DEF TurnInv, OrderInv, FileInv, TurnOK
<1>2. /\ \A t \in Session : t # s => op'[t] = op[t]
      /\ op'[s] = None
  BY <1>1 DEF TypeOK
<1>3. ~Waits(s)' /\ NoneComes
  BY <1>2 DEF Waits, NoneComes
<1>4. Waits(s)
  BY DEF TurnInv, Waits
<1>5. s = cur => Others(s) = {}
  <2> SUFFICES ASSUME s = cur, NEW t \in Others(s) PROVE FALSE
    OBVIOUS
  <2>1. t \in Session /\ t # s /\ Waits(t)
    BY DEF Others, Waits
  <2>2. t <= begun /\ cur = begun
    BY <1>1, <2>1, MonitorOutboxAssumption DEF SessionOK, Session
  <2>3. ~(t < s)
    BY <2>1 DEF TurnInv, TurnOK, Waits
  <2>4. s \in Nat /\ t \in Nat
    BY <2>1, MonitorOutboxAssumption DEF Session
  <2> QED
    BY <2>1, <2>2, <2>3, <2>4
<1>6. cur' = cur \/ cur' = 0
  BY DEF TurnInv, TurnOK, Stop, process
<1>7. Others(s) = {} => \A t \in Session : ~Waits(t)' /\ (cur' = t => t = s)
  BY <1>2, <1>6, MonitorOutboxAssumption DEF Others, Waits, Session
<1>8. ASSUME NEW t \in Session, Waits(t)' PROVE op[s].snap.at < op'[t].snap.at
  <2>1. t # s /\ Waits(t) /\ op'[t] = op[t]
    BY <1>2, <1>8 DEF Waits
  <2>2. ~(t < s)
    BY <2>1 DEF TurnInv, TurnOK, Waits
  <2>3. s < t
    BY <2>1, <2>2, MonitorOutboxAssumption DEF Session
  <2> QED
    BY <1>1, <1>4, <2>1, <2>3 DEF SessionOK
<1>9. BeforeNext(op[s].snap.at)
  BY <1>1, <1>4, <1>8 DEF SessionOK, BeforeNext
<1> QED
  BY <1>3, <1>5, <1>6, <1>7, <1>9

\* What a turn beside others leaves, strayed.
LEMMA TurnStrays ==
    ASSUME NEW s \in Session, NEW v, NEW outcome, TurnInv(s, v, outcome)
    PROVE  /\ strays \subseteq strays'
           /\ Others(s) # {} =>
                 /\ Strayed(candFile)'
                 /\ \A t \in Session : cur' = t \/ Waits(t)' => t # s /\ Strayed(mem[t].cand)'
<1>1. strays' = strays \cup Strays(s, v.reason, outcome)
  BY DEF TurnInv, TurnOK
<1>2. SUFFICES ASSUME Others(s) # {}
               PROVE  /\ Strayed(candFile)'
                      /\ \A t \in Session : cur' = t \/ Waits(t)' =>
                            t # s /\ Strayed(mem[t].cand)'
  BY <1>1
<1>3. /\ candFile' # None => candFile'.first \in strays'
      /\ \A t \in Others(s) : mem[t].cand # None => mem[t].cand.first \in strays'
  BY <1>1, <1>2 DEF Strays
<1>4. ASSUME NEW t \in Session, cur' = t \/ Waits(t)' PROVE t # s /\ Strayed(mem[t].cand)'
  <2>1. ~Waits(s)' /\ s # cur /\ (cur' = cur \/ cur' = 0) /\ NoneComes
    BY <1>2, TurnPlace
  <2>2. t # s /\ t \in Others(s)
    BY <1>4, <2>1, MonitorOutboxAssumption DEF Others, Waits, NoneComes, Session
  <2>3. mem'[t] = mem[t]
    BY <2>2 DEF TurnInv, TurnOK, FileInv, TypeOK
  <2> QED
    BY <1>3, <2>2, <2>3 DEF Strayed
<1> QED
  BY <1>3, <1>4 DEF Strayed

\* Evidence that has not strayed is in the file and in the session that has its
\* turn, and is younger than every post.
LEMMA TurnHolds ==
    ASSUME NEW s \in Session, NEW v, NEW outcome, TurnInv(s, v, outcome),
           ~Strayed(mem[s].cand) \/ ~Strayed(candFile)
    PROVE  /\ mem[s].cand # None /\ candFile # None
           /\ mem[s].cand.first = candFile.first
           /\ mem[s].cand.startedAt = candFile.startedAt
           /\ ~Strayed(candFile) /\ ~Strayed(mem[s].cand)
           /\ candFile.first.at <= candFile.startedAt /\ candFile.first \notin dropped
           /\ Unposted
<1>1. Tracked /\ CandidateOK /\ Waits(s)
  BY DEF TurnInv, OrderInv, PostsInv, Waits
<1>2. Tracks(mem[s])
  BY <1>1 DEF Tracked
<1>3. /\ mem[s].cand # None /\ candFile # None
      /\ mem[s].cand.first = candFile.first /\ mem[s].cand.startedAt = candFile.startedAt
      /\ ~Strayed(candFile) /\ ~Strayed(mem[s].cand)
  BY <1>2 DEF Tracks, Strayed
<1>4. ~HalfWritten
  BY <1>1 DEF HalfWritten
<1> QED
  BY <1>1, <1>3, <1>4 DEF CandidateOK

\* What is posted is as old as the reading or as the evidence it confirms.
LEMMA TurnFresh ==
    ASSUME NEW s \in Session, NEW v, NEW outcome, TurnInv(s, v, outcome)
    PROVE  /\ BeforeNext(v.snap.at)
           /\ (\A p \in Past : p.snap.at < v.snap.at) \/ Stray(PostOf(v))
           /\ v.reason = "recovery_candidate" =>
                 mem[s].cand # None /\ v.snap = mem[s].cand.first
<1>1. /\ TimesOK /\ VerdictOK(mem[s], op[s], v) /\ lastRead' = lastRead
      /\ NoneComes /\ BeforeNext(op[s].snap.at)
  BY TurnPlace DEF TurnInv, OrderInv, PostsInv, TurnOK
<1>2. CASE v.reason = "recovery_candidate"
  <2>1. mem[s].cand # None /\ v.snap = mem[s].cand.first
    BY <1>1, <1>2 DEF VerdictOK
  <2>2. BeforeNext(v.snap.at)
    BY <1>1, <2>1, BeforeStays DEF TimesOK
  <2>3. CASE Strayed(mem[s].cand)
    BY <1>2, <2>1, <2>2, <2>3 DEF Strayed, Stray, PostOf
  <2>4. CASE ~Strayed(mem[s].cand)
    BY <2>1, <2>2, <2>4, TurnHolds DEF Unposted
  <2> QED
    BY <2>1, <2>3, <2>4, <2>2
<1>3. CASE v.reason # "recovery_candidate"
  <2>1. v.snap = op[s].snap
    BY <1>1, <1>3 DEF VerdictOK
  <2>2. \A p \in Past : p.snap.at < op[s].snap.at
    BY <1>1 DEF TimesOK, Before, TurnInv, Waits
  <2> QED
    BY <1>1, <1>3, <2>1, <2>2
<1> QED
  BY <1>2, <1>3

\* The memory and the file after a turn that ends.
LEMMA TurnMemory ==
    ASSUME NEW s \in Session, NEW v, NEW outcome, TurnInv(s, v, outcome), outcome = "done"
    PROVE  /\ mem'[s].cand = v.cand /\ mem'[s].known = op[s].banked
           /\ v.cand # None => Tracks(mem[s])'
           /\ v.cand = None /\ mem[s].cand # None => candFile' = None
           /\ v.cand = None /\ mem[s].cand = None => candFile' = candFile
<1>1. /\ mem[s] \in Memory /\ op[s] \in Refresh /\ candFile \in Candidate \cup {None}
      /\ VerdictOK(mem[s], op[s], v)
  BY TurnTypes DEF TurnInv
<1> DEFINE n == [lastPost |-> mem[s].lastPost, base |-> v.base,
                 cand |-> v.cand, known |-> op[s].banked]
<1>2. mem'[s] = n /\ candFile' = NextCandidate(mem[s], v, op[s].banked)
  BY DEF TurnInv, TurnOK, FileInv, TypeOK
<1>3. n.cand = v.cand /\ n.known = op[s].banked
  OBVIOUS
<1> HIDE DEF n
<1>4. v.cand # None => Tracks(mem[s])'
  BY <1>1, <1>2, <1>3, NextCandidateOK DEF Tracks
<1> QED
  BY <1>1, <1>2, <1>3, <1>4, NextCandidateOK

LEMMA TurnSession ==
    ASSUME NEW s \in Session, NEW v, NEW outcome, TurnInv(s, v, outcome)
    PROVE  SessionOK' /\ Tracked'
<1>1. SessionOK /\ Tracked /\ NoneComes /\ lastRead' = lastRead
  BY TurnPlace DEF TurnInv, OrderInv, TurnOK
<1>2. UNCHANGED process \/ (Stop("stopping") /\ UNCHANGED begun)
  BY DEF TurnInv, TurnOK
<1>3. SessionOK'
  <2>1. /\ begun' = begun /\ state' # "down"
        /\ cur' # 0 => cur' = begun' /\ state' = "up"
    BY <1>1, <1>2 DEF SessionOK, Stop, process, TurnInv
  <2> QED
    BY <1>1, <2>1 DEF SessionOK, NoneComes
<1>4. CASE Others(s) # {}
  <2>1. Tracked'
    BY <1>4, TurnStrays DEF Tracked
  <2> QED
    BY <1>3, <2>1
<1>5. CASE Others(s) = {}
  <2> SUFFICES ASSUME cur' = s
               PROVE  (Tracks(mem[s]) \/ (Strayed(mem[s].cand) /\ Strayed(candFile)))'
    BY <1>3, <1>5, TurnPlace DEF Tracked
  <2>1. cur = s /\ s # 0
    BY TurnPlace, MonitorOutboxAssumption DEF Session
  <2>2. outcome = "done"
    BY <1>1, <2>1 DEF SessionOK, TurnInv, TurnOK, Stop
  <2>3. CASE v.cand # None
    BY <2>2, <2>3, TurnMemory
  <2>4. CASE v.cand = None /\ mem[s].cand # None
    BY <2>2, <2>4, TurnMemory DEF Tracks
  <2>5. CASE v.cand = None /\ mem[s].cand = None
    <3>1. Strayed(candFile)
      BY <2>5, TurnHolds
    <3>2. candFile' = candFile /\ mem'[s].cand = None
      BY <2>2, <2>5, TurnMemory
    <3> QED
      BY <3>1, <3>2, TurnStrays DEF Strayed
  <2> QED
    BY <2>3, <2>4, <2>5
<1> QED
  BY <1>4, <1>5

\* What the turn leaves of the posts.
LEMMA TurnPast ==
    ASSUME NEW s \in Session, NEW v, NEW outcome, TurnInv(s, v, outcome)
    PROVE  /\ Past' \subseteq Past \cup {PostOf(v)}
           /\ Keeps /\ v.reason # "heartbeat" => Past' = Past
           /\ Keeps /\ outcome # "done" => Past' = Past
           /\ \/ enqueued' = enqueued
              \/ /\ v.reason \notin {"none", "heartbeat"}
                 /\ enqueued' = enqueued \cup {PostOf(v)}
           /\ handled' = handled
           /\ \/ Sent' \subseteq Sent
              \/ enqueued' = enqueued /\ enqueued \subseteq handled
<1>1. /\ call = None /\ UNCHANGED <<late, handled>>
      /\ Keeps \/ (v.reason \notin {"none", "heartbeat"} /\ Appends(PostOf(v)))
      /\ outcome # "done" => call' = None
      /\ \/ call' = None
         \/ /\ v.reason = "heartbeat" /\ outbox = <<>>
            /\ call' = [session |-> s, answered |-> FALSE, post |-> PostOf(v)]
  BY DEF TurnInv, TurnOK
<1>2. NoneLost
  BY DEF TurnInv, FileInv
<1>3. \/ enqueued' = enqueued
      \/ v.reason \notin {"none", "heartbeat"} /\ enqueued' = enqueued \cup {PostOf(v)}
  BY <1>1 DEF Keeps, Appends
<1>4. CASE call' = None
  <2>1. Sent' \subseteq Sent /\ Past' \subseteq Past \cup {PostOf(v)}
    BY <1>1, <1>3, <1>4 DEF Past, Sent
  <2>2. Keeps => Past' = Past
    BY <1>1, <1>4 DEF Past, Keeps
  <2> QED
    BY <1>1, <1>3, <2>1, <2>2
<1>5. CASE /\ v.reason = "heartbeat" /\ outbox = <<>> /\ call' # None
           /\ call' = [session |-> s, answered |-> FALSE, post |-> PostOf(v)]
  <2>1. enqueued' = enqueued
    BY <1>1, <1>5 DEF Keeps
  <2>2. enqueued \subseteq handled
    BY <1>2, <1>5 DEF NoneLost, Range
  <2>3. Past' \subseteq Past \cup {PostOf(v)}
    <3>1. call' # None => call'.post = PostOf(v)
      BY <1>5
    <3> QED
      BY <1>1, <2>1, <3>1 DEF Past
  <2> QED
    BY <1>1, <1>5, <2>1, <2>2, <2>3
<1> QED
  BY <1>1, <1>4, <1>5

LEMMA TurnSorted ==
    ASSUME NEW s \in Session, NEW v, NEW outcome, TurnInv(s, v, outcome)
    PROVE  Sorted'
<1>1. Sorted /\ outbox \in Seq(Post) /\ Range(outbox) \subseteq Past
  BY DEF TurnInv, OrderInv, FileInv, TypeOK, QueueOK, Past
<1>2. \A p : Stray(p) => Stray(p)'
  BY TurnStrays DEF Stray
<1>3. CASE Keeps
  BY <1>1, <1>2, <1>3 DEF Keeps, Sorted
<1>4. CASE Appends(PostOf(v))
  <2> DEFINE q == Append(outbox, PostOf(v))
             n == Len(outbox)
  <2>1. /\ DOMAIN outbox = 1..n /\ n \in Nat /\ DOMAIN q = 1..(n + 1)
        /\ \A i \in 1..n : q[i] = outbox[i]
        /\ q[n + 1] = PostOf(v) /\ PostOf(v).snap = v.snap
    BY <1>1 DEF PostOf
  <2>2. \A i \in 1..n : outbox[i].snap.at < v.snap.at \/ Stray(PostOf(v))
    BY <1>1, <2>1, TurnFresh DEF Range
  <2>3. \A i, j \in 1..(n + 1) : i < j => i \in 1..n /\ (j \in 1..n \/ j = n + 1)
    BY <2>1
  <2> HIDE DEF q, n
  <2>4. \A i, j \in DOMAIN q : i < j => q[i].snap.at < q[j].snap.at \/ Stray(q[j])
    BY <1>1, <2>1, <2>2, <2>3 DEF Sorted
  <2>5. outbox' = q
    BY <1>4 DEF Appends, q
  <2> QED
    BY <1>2, <2>4, <2>5 DEF Sorted
<1> QED
  BY <1>3, <1>4 DEF TurnInv, TurnOK

LEMMA TurnTimes ==
    ASSUME NEW s \in Session, NEW v, NEW outcome, TurnInv(s, v, outcome)
    PROVE  TimesOK'
<1>1. /\ TimesOK /\ VerdictOK(mem[s], op[s], v) /\ NoneComes /\ lastRead' = lastRead
      /\ BeforeNext(op[s].snap.at)
  BY TurnPlace DEF TurnInv, OrderInv, PostsInv, TurnOK
<1>2. \A x : Before(x) => BeforeNext(x)
  BY <1>1, BeforeStays
<1>3. \A p \in Past' : BeforeNext(p.snap.at)
  <2>1. BeforeNext(PostOf(v).snap.at)
    BY TurnFresh DEF PostOf
  <2> QED
    BY <1>1, <1>2, <2>1, TurnPast DEF TimesOK
<1>4. \A x \in dropped' : BeforeNext(x.at)
  <2>1. dropped' = dropped \/ (mem[s].cand # None /\ dropped' = dropped \cup {mem[s].cand.first})
    BY DEF TurnInv, TurnOK
  <2> QED
    BY <1>1, <1>2, <2>1 DEF TimesOK
<1>5. v.cand # None => BeforeNext(v.cand.first.at)
  BY <1>1, <1>2 DEF VerdictOK, TimesOK
<1>6. ASSUME NEW t \in Session, mem'[t].cand # None PROVE BeforeNext(mem'[t].cand.first.at)
  <2>1. mem'[t] = mem[t] \/ (t = s /\ outcome = "done")
    BY DEF TurnInv, TurnOK, FileInv, TypeOK
  <2>2. CASE mem'[t] = mem[t]
    BY <1>1, <1>2, <1>6, <2>2 DEF TimesOK
  <2>3. CASE t = s /\ outcome = "done"
    BY <1>5, <1>6, <2>3, TurnMemory
  <2> QED
    BY <2>1, <2>2, <2>3
<1>7. ASSUME candFile' # None PROVE BeforeNext(candFile'.first.at)
  <2>1. candFile' = candFile \/ outcome = "done"
    BY DEF TurnInv, TurnOK
  <2>2. CASE candFile' = candFile
    BY <1>1, <1>2, <1>7, <2>2 DEF TimesOK
  <2>3. CASE outcome = "done" /\ v.cand # None
    BY <1>5, <1>7, <2>3, TurnMemory DEF Tracks
  <2>4. CASE outcome = "done" /\ v.cand = None
    BY <1>7, <2>2, <2>4, TurnMemory
  <2> QED
    BY <2>1, <2>2, <2>3, <2>4
<1> QED
  BY <1>3, <1>4, <1>6, <1>7 DEF TimesOK, Before, BeforeNext

LEMMA TurnSent ==
    ASSUME NEW s \in Session, NEW v, NEW outcome, TurnInv(s, v, outcome)
    PROVE  SentOK'
<1>1. SentOK /\ handled' = handled
  BY TurnPast DEF TurnInv, OrderInv, PostsInv
<1>2. \A p : Stray(p) => Stray(p)'
  BY TurnStrays DEF Stray
<1>3. CASE enqueued' = enqueued /\ enqueued \subseteq handled
  BY <1>1, <1>3 DEF SentOK
<1>4. CASE Sent' \subseteq Sent
  <2>1. \A x \in Sent : x.snap.at < PostOf(v).snap.at \/ Stray(PostOf(v))
    BY TurnFresh DEF Sent, Past, PostOf
  <2>2. enqueued' \subseteq enqueued \cup {PostOf(v)}
    BY TurnPast
  <2> QED
    BY <1>1, <1>2, <1>4, <2>1, <2>2 DEF SentOK
<1> QED
  BY <1>3, <1>4, TurnPast

LEMMA TurnDropped ==
    ASSUME NEW s \in Session, NEW v, NEW outcome, TurnInv(s, v, outcome)
    PROVE  DroppedNeverPosted'
<1>1. DroppedNeverPosted /\ strays \subseteq strays'
  BY TurnStrays DEF TurnInv, OrderInv, PostsInv
<1>2. \/ dropped' = dropped
      \/ /\ mem[s].cand # None /\ v.reason # "recovery_candidate"
         /\ dropped' = dropped \cup {mem[s].cand.first}
  BY DEF TurnInv, TurnOK
<1>3. SUFFICES ASSUME NEW p \in enqueued', p.reason = "recovery_candidate",
                      p.snap \in dropped', p.snap \notin strays'
               PROVE  FALSE
  BY DEF DroppedNeverPosted
<1>4. CASE p \in enqueued
  <2>1. p.snap = mem[s].cand.first /\ mem[s].cand # None
    BY <1>1, <1>2, <1>3, <1>4 DEF DroppedNeverPosted
  <2>2. ~Strayed(mem[s].cand)
    BY <1>1, <1>3, <2>1 DEF Strayed
  <2>3. p.snap.at < candFile.first.at /\ p.snap = candFile.first
    BY <1>4, <2>1, <2>2, TurnHolds DEF Unposted, Past
  <2> QED
    BY <1>4, <2>3, TurnTypes DEF Past
<1>5. CASE p = PostOf(v)
  <2>1. v.reason = "recovery_candidate" /\ p.snap = v.snap
    BY <1>3, <1>5 DEF PostOf
  <2>2. mem[s].cand # None /\ p.snap = mem[s].cand.first /\ dropped' = dropped
    BY <1>2, <2>1, TurnFresh
  <2>3. ~Strayed(mem[s].cand)
    BY <1>1, <1>3, <2>2 DEF Strayed
  <2> QED
    BY <1>3, <2>2, <2>3, TurnHolds
<1> QED
  BY <1>4, <1>5, TurnPast

\* A failed write leaves the file as it was: nothing was posted, or the recovery of
\* that very evidence, or it has strayed.
LEMMA TurnFailed ==
    ASSUME NEW s \in Session, NEW v, NEW outcome, TurnInv(s, v, outcome), outcome # "done"
    PROVE  CandidateOK'
<1>1. SUFFICES ASSUME ~Strayed(candFile)' PROVE CandidateOK'
  BY DEF CandidateOK
<1>2. /\ candFile' = candFile /\ dropped' = dropped /\ call' = None /\ call = None
      /\ outcome \in {"outboxFails", "candidateFails"}
      /\ outcome = "outboxFails" => Keeps
      /\ Keeps \/ (v.reason \notin {"none", "heartbeat"} /\ Appends(PostOf(v)))
      /\ strays' = strays \cup Strays(s, v.reason, outcome)
  BY DEF TurnInv, TurnOK
<1>3. Others(s) = {} /\ ~Strayed(candFile)
  BY <1>1, <1>2, TurnStrays DEF Strayed
<1>4. /\ mem[s].cand # None /\ candFile # None /\ mem[s].cand.first = candFile.first
      /\ candFile.first.at <= candFile.startedAt /\ candFile.first \notin dropped
      /\ Unposted
  BY <1>3, TurnHolds
<1>5. CASE Keeps
  <2>1. Past' = Past
    BY <1>5, TurnPast
  <2> QED
    BY <1>2, <1>4, <2>1 DEF CandidateOK, Unposted
<1>6. CASE Appends(PostOf(v)) /\ outcome = "candidateFails"
                              /\ v.reason \notin {"none", "heartbeat"}
  <2>1. v.reason = "recovery_candidate"
    <3> SUFFICES ASSUME v.reason # "recovery_candidate" PROVE FALSE
      OBVIOUS
    <3>1. candFile.first \in Strays(s, v.reason, outcome)
      BY <1>3, <1>4, <1>6 DEF Strays
    <3> QED
      BY <1>1, <1>2, <3>1 DEF Strayed
  <2>2. PostOf(v) = RecoveryOf(candFile)
    BY <1>4, <2>1, TurnFresh DEF PostOf, RecoveryOf
  <2>3. state' # "up"
    BY <1>6 DEF TurnInv, TurnOK, Stop, process
  <2>4. PostOf(v) \in Range(outbox')
    <3>1. outbox \in Seq(Post) /\ PostOf(v) \in Post
      BY <2>1 DEF TurnInv, FileInv, TypeOK, VerdictOK, PostOf, Post, Reason
    <3> QED
      BY <1>6, <3>1, RangeAppend DEF Appends
  <2>5. \A t \in Session : ~Waits(t)'
    BY <1>3, TurnPlace
  <2>6. HalfWritten'
    BY <1>2, <2>2, <2>3, <2>4, <2>5 DEF HalfWritten, RecoveryOf
  <2> QED
    BY <1>2, <1>4, <2>6 DEF CandidateOK
<1> QED
  BY <1>2, <1>5, <1>6

\* A turn that ends leaves the evidence it had, or new evidence from a reading
\* younger than every post.
LEMMA TurnDone ==
    ASSUME NEW s \in Session, NEW v, NEW outcome, TurnInv(s, v, outcome), outcome = "done"
    PROVE  CandidateOK'
<1>1. SUFFICES ASSUME ~Strayed(candFile)' PROVE CandidateOK'
  BY DEF CandidateOK
<1>2. strays \subseteq strays' /\ VerdictOK(mem[s], op[s], v) /\ TimesOK
  BY TurnStrays DEF TurnInv, OrderInv, PostsInv
<1>3. v.cand # None
  <2> SUFFICES ASSUME v.cand = None PROVE FALSE
    OBVIOUS
  <2>1. mem[s].cand = None /\ candFile' = candFile
    BY <1>1, TurnMemory DEF Strayed
  <2>2. ~Strayed(candFile)
    BY <1>1, <1>2, <2>1 DEF Strayed
  <2> QED
    BY <2>1, <2>2, TurnHolds
<1>4. candFile'.first = v.cand.first /\ candFile'.startedAt = v.cand.startedAt
  BY <1>3, TurnMemory DEF Tracks
<1>5. v.reason = "none" /\ Keeps /\ dropped' = dropped
  BY <1>2, <1>3 DEF TurnInv, TurnOK, VerdictOK
<1>6. Past' = Past
  BY <1>5, TurnPast
<1>7. CASE mem[s].cand # None
  <2>1. v.cand.first = mem[s].cand.first /\ v.cand.startedAt = mem[s].cand.startedAt
    BY <1>2, <1>3, <1>7 DEF VerdictOK
  <2>2. ~Strayed(mem[s].cand)
    BY <1>1, <1>2, <1>4, <1>7, <2>1 DEF Strayed
  <2>3. /\ candFile'.first = candFile.first /\ candFile'.startedAt = candFile.startedAt
        /\ candFile.first.at <= candFile.startedAt /\ candFile.first \notin dropped /\ Unposted
    BY <1>4, <2>1, <2>2, TurnHolds
  <2> QED
    BY <1>5, <1>6, <2>3 DEF CandidateOK, Unposted
<1>8. CASE mem[s].cand = None
  <2>1. candFile'.first = op[s].snap /\ candFile'.startedAt = clock
    BY <1>2, <1>3, <1>4, <1>8 DEF VerdictOK
  <2>2. op[s].snap.at <= clock
    BY TurnTypes DEF TurnInv, OrderInv, SessionOK, Waits
  <2>3. \A p \in Past : p.snap.at < op[s].snap.at
    BY <1>2 DEF TimesOK, Before, TurnInv, Waits
  <2>4. op[s].snap \notin dropped
    <3>1. \A x \in dropped : x.at < op[s].snap.at
      BY <1>2 DEF TimesOK, Before, TurnInv, Waits
    <3> QED
      BY <3>1, TurnTypes
  <2> QED
    BY <1>5, <1>6, <2>1, <2>2, <2>3, <2>4 DEF CandidateOK, Unposted
<1> QED
  BY <1>7, <1>8

LEMMA TurnOfRefresh ==
    ASSUME FileInv, OrderInv, NEW s \in Session, RunRefresh(s)
    PROVE  \E v, outcome : TurnInv(s, v, outcome)
BY TurnFacts DEF TurnInv, FileInv

LEMMA TurnOrder ==
    ASSUME FileInv, OrderInv, NEW s \in Session, RunRefresh(s) PROVE OrderInv'
<1>1. PICK v, outcome : TurnInv(s, v, outcome)
  BY TurnOfRefresh
<1>2. CandidateOK'
  BY <1>1, TurnDone, TurnFailed
<1> QED
  BY <1>1, <1>2, TurnSession, TurnTimes, TurnSent, TurnDropped, TurnSorted
     DEF OrderInv, PostsInv

-----------------------------------------------------------------------------
(* Delivery.                                                               *)

\* Sending takes the head: whatever else is not handled is younger.
LEMMA FlushOrder ==
    ASSUME FileInv, OrderInv, Flush PROVE OrderInv'
<1>1. SessionOK /\ Tracked /\ PostsInv /\ Sorted /\ QueueOK /\ NoneLost /\ outbox \in Seq(Post)
  BY DEF OrderInv, FileInv, TypeOK
<1>2. /\ state = "up" /\ call = None /\ outbox # <<>>
      /\ call' # None => call'.post = Head(outbox)
      /\ UNCHANGED <<disk, process, mem, op, late, handled, time, enqueued, dropped, strays>>
  BY DEF Flush
<1>3. SessionOK' /\ Tracked' /\ Sorted' /\ NoneComes
  BY <1>1, <1>2 DEF SessionOK, Tracked, Tracks, Strayed, Sorted, Stray, NoneComes, Waits,
     disk, process, time
<1>4. /\ Head(outbox) = outbox[1] /\ 1 \in DOMAIN outbox
      /\ \A i \in DOMAIN outbox : i = 1 \/ 1 < i
  BY <1>1, <1>2
<1>5. Head(outbox) \in enqueued
  BY <1>1, <1>4 DEF QueueOK, Range
<1>6. Past' \subseteq Past
  BY <1>2, <1>5 DEF Past
<1>7. \A p \in enqueued \ handled :
         Head(outbox) = p \/ Head(outbox).snap.at < p.snap.at \/ Stray(p)
  BY <1>1, <1>4 DEF NoneLost, Range, Sorted
<1>8. SentOK'
  <2>1. Sent' \subseteq Sent \cup {Head(outbox)}
    BY <1>2 DEF Sent
  <2>2. SentOK
    BY <1>1 DEF PostsInv
  <2> QED
    BY <1>2, <1>7, <2>1, <2>2 DEF SentOK, Stray
<1>9. TimesOK' /\ DroppedNeverPosted'
  BY <1>1, <1>2, <1>3, <1>6, BeforeStays
     DEF PostsInv, TimesOK, Before, BeforeNext, DroppedNeverPosted, disk, time
<1>10. CandidateOK'
  BY <1>1, <1>2, <1>6 DEF PostsInv, CandidateOK, Unposted, HalfWritten, Strayed, disk
<1> QED
  BY <1>3, <1>8, <1>9, <1>10 DEF OrderInv, PostsInv

\* A request that goes on, ends or gets lost leaves the order alone.
LEMMA NetOrder ==
    ASSUME FileInv, OrderInv, ServerHandles \/ ServerHandlesLate \/ CallFails PROVE OrderInv'
<1>1. SessionOK /\ Tracked /\ PostsInv /\ Sorted /\ TypeOK
  BY DEF OrderInv, FileInv
<1>2. /\ UNCHANGED <<disk, process, mem, op, time, enqueued, dropped, strays>>
      /\ handled \subseteq handled'
  BY DEF ServerHandles, ServerHandlesLate, CallFails
<1>3. Past' \subseteq Past /\ Sent' \subseteq Sent
  <2>1. CASE ServerHandles
    <3>1. call # None /\ call'.post = call.post
      BY <1>1, <2>1 DEF ServerHandles, TypeOK, Call
    <3> QED
      BY <1>2, <2>1, <3>1 DEF ServerHandles, Past, Sent
  <2>2. CASE ServerHandlesLate
    BY <2>2 DEF ServerHandlesLate, Past, Sent
  <2>3. CASE CallFails
    BY <2>3, AbandonedPast DEF CallFails
  <2> QED
    BY <2>1, <2>2, <2>3
<1>4. HalfWritten => HalfWritten'
  BY <1>2 DEF HalfWritten, ServerHandles, ServerHandlesLate, CallFails, Waits, disk, process
<1>5. SessionOK' /\ Tracked' /\ Sorted' /\ NoneComes
  BY <1>1, <1>2 DEF SessionOK, Tracked, Tracks, Strayed, Sorted, Stray, NoneComes, Waits,
     disk, process, time
<1>6. PostsInv'
  BY <1>1, <1>2, <1>3, <1>4, <1>5, QuietStep DEF disk, time
<1> QED
  BY <1>5, <1>6 DEF OrderInv

LEMMA SucceededKeeps ==
    ASSUME TypeOK, NEW t \in 0..Sessions, PostSucceeded(t)
    PROVE  \A s \in Session : mem'[s].cand = mem[s].cand /\ mem'[s].known = mem[s].known
<1>1. CASE t = 0
  BY <1>1 DEF PostSucceeded
<1>2. CASE t # 0
  <2>1. t \in Session /\ mem \in [Session -> Memory]
    BY <1>2 DEF TypeOK, Session
  <2>2. mem[t] \in Memory
    BY <2>1
  <2> DEFINE n == [mem[t] EXCEPT !.lastPost = clock]
  <2>3. n.cand = mem[t].cand /\ n.known = mem[t].known
    BY <2>2 DEF Memory
  <2>4. mem' = [mem EXCEPT ![t] = n]
    BY <1>2 DEF PostSucceeded
  <2> HIDE DEF n
  <2> QED
    BY <2>1, <2>3, <2>4
<1> QED
  BY <1>1, <1>2

LEMMA AcceptedOrder ==
    ASSUME FileInv, OrderInv, DeliveryAccepted \/ HeartbeatAccepted PROVE OrderInv'
<1>1. SessionOK /\ Tracked /\ PostsInv /\ Sorted /\ TypeOK /\ QueueOK
  BY DEF OrderInv, FileInv
<1>2. /\ call # None /\ call' = None
      /\ UNCHANGED <<candFile, op, late, handled, time, enqueued, dropped, strays>>
      /\ UNCHANGED process \/ (Stop("stopping") /\ UNCHANGED begun)
      /\ mem' = mem \/ (\E t \in 0..Sessions : PostSucceeded(t))
  <2>1. CASE HeartbeatAccepted
    BY <1>1, <2>1 DEF HeartbeatAccepted, TypeOK, Call, disk
  <2>2. CASE DeliveryAccepted
    <3>1. cur \in 0..Sessions
      BY <1>1, MonitorOutboxAssumption DEF TypeOK
    <3> QED
      BY <2>2, <3>1 DEF DeliveryAccepted
  <2> QED
    BY <2>1, <2>2
<1>3. \A s \in Session : /\ Tracks(mem[s]) => Tracks(mem[s])'
                         /\ mem'[s].cand = mem[s].cand
  <2>1. CASE mem' = mem
    BY <1>2, <2>1 DEF Tracks
  <2>2. CASE \E t \in 0..Sessions : PostSucceeded(t)
    <3>1. PICK t \in 0..Sessions : PostSucceeded(t)
      BY <2>2
    <3>2. \A s \in Session : mem'[s].cand = mem[s].cand /\ mem'[s].known = mem[s].known
      BY <1>1, <3>1, SucceededKeeps
    <3> QED
      BY <1>2, <3>2 DEF Tracks
  <2> QED
    BY <1>2, <2>1, <2>2
<1>4. SessionOK' /\ Tracked'
  <2>1. CASE UNCHANGED process
    BY <1>1, <1>2, <1>3, <2>1 DEF SessionOK, Tracked, Strayed, Waits, process, time
  <2>2. CASE Stop("stopping") /\ UNCHANGED begun
    BY <1>1, <1>2, <1>3, <2>2, MonitorOutboxAssumption
       DEF SessionOK, Tracked, Strayed, Waits, Stop, time, Session
  <2> QED
    BY <1>2, <2>1, <2>2
<1>5. Past' \subseteq Past /\ Sent' \subseteq Sent /\ ~HalfWritten /\ NoneComes
  BY <1>2 DEF Past, Sent, HalfWritten, NoneComes, Waits
<1>6. PostsInv'
  BY <1>1, <1>2, <1>3, <1>5, QuietStep DEF time
<1>7. Sorted'
  <2>1. CASE outbox' = outbox
    BY <1>1, <1>2, <2>1 DEF Sorted, Stray
  <2>2. CASE outbox' = Tail(outbox) /\ outbox # <<>>
    <3>1. /\ outbox \in Seq(Post) /\ Len(outbox) \in Nat /\ DOMAIN outbox = 1..Len(outbox)
          /\ DOMAIN outbox' = 1..(Len(outbox) - 1)
          /\ \A i \in 1..(Len(outbox) - 1) : outbox'[i] = outbox[i + 1]
      BY <1>1, <2>2 DEF TypeOK
    <3>2. \A i, j \in 1..(Len(outbox) - 1) :
             i < j => i + 1 \in 1..Len(outbox) /\ j + 1 \in 1..Len(outbox) /\ i + 1 < j + 1
      BY <3>1
    <3> QED
      BY <1>1, <1>2, <3>1, <3>2 DEF Sorted, Stray
  <2>3. outbox' = outbox \/ (outbox' = Tail(outbox) /\ outbox # <<>>)
    BY <1>1 DEF DeliveryAccepted, HeartbeatAccepted, QueueOK, disk
  <2> QED
    BY <2>1, <2>2, <2>3
<1> QED
  BY <1>4, <1>6, <1>7 DEF OrderInv

LEMMA OrderPreserved == FileInv /\ OrderInv /\ [Next]_vars => OrderInv'
<1> SUFFICES ASSUME FileInv, OrderInv, [Next]_vars PROVE OrderInv'
  OBVIOUS
<1>1. CASE Tick \/ UNCHANGED vars
  <2>1. UNCHANGED <<disk, process, mem, op, net, lastRead, enqueued, dropped, strays>>
    BY <1>1 DEF Tick, vars, disk, process, net
  <2>2. SessionOK /\ Tracked /\ PostsInv /\ Sorted
    BY DEF OrderInv
  <2>3. SessionOK' /\ Tracked' /\ Sorted'
    BY <2>1, <2>2 DEF SessionOK, Tracked, Tracks, Strayed, Sorted, Stray, Waits,
       disk, process
  <2>4. /\ Past' = Past /\ Sent' = Sent /\ NoneComes
        /\ HalfWritten => HalfWritten'
    BY <2>1 DEF Past, Sent, NoneComes, Waits, HalfWritten, disk, process, net
  <2>5. PostsInv'
    BY <2>1, <2>2, <2>4, QuietStep DEF disk, net
  <2> QED
    BY <2>3, <2>5 DEF OrderInv
<1>2. ASSUME NEW s \in Session, RunRefresh(s) PROVE OrderInv'
  BY <1>2, TurnOrder
<1> QED
  BY <1>1, <1>2, ProcessSteps, BeginOrder, CrashOrder, ReadOrder, FlushOrder, NetOrder,
     AcceptedOrder DEF Next

-----------------------------------------------------------------------------
(* What a step may do to the outbox and to the candidate file.             *)

LEMMA FileSteps ==
    ASSUME FileInv, [Next]_vars
    PROVE  /\ \/ outbox' = outbox
              \/ outbox # <<>> /\ outbox' = Tail(outbox)
              \/ \E s \in Session : RunRefresh(s)
           /\ \/ candFile' = candFile \/ StartProcess
              \/ \E s \in Session : RunRefresh(s)
<1>1. CASE StartProcess \/ BeginSession \/ EndSession \/ RequestStop \/ StopProcess \/ Crash
  BY <1>1 DEF StartProcess, BeginSession, EndSession, RequestStop, StopProcess, Crash, disk
<1>2. CASE \/ ReadAccount \/ Flush \/ ServerHandles \/ ServerHandlesLate
           \/ HeartbeatAccepted \/ CallFails \/ Tick
  BY <1>2 DEF ReadAccount, Flush, ServerHandles, ServerHandlesLate, HeartbeatAccepted,
     CallFails, Tick, disk
<1>3. CASE DeliveryAccepted
  BY <1>3 DEF DeliveryAccepted, FileInv, QueueOK
<1>4. CASE UNCHANGED vars
  BY <1>4 DEF vars
<1> QED
  BY <1>1, <1>2, <1>3, <1>4 DEF Next

LEMMA ConfirmedOnceStep ==
    ASSUME FileInv, OrderInv, [Next]_vars, Len(outbox') > Len(outbox)
    PROVE  Last(outbox') \notin enqueued \/ Stray(Last(outbox'))
<1>1. outbox \in Seq(Post) /\ Len(outbox) \in Nat
  BY DEF FileInv, TypeOK
<1>2. PICK s \in Session : RunRefresh(s)
  BY <1>1, FileSteps
<1>3. PICK v, outcome : TurnInv(s, v, outcome)
  BY <1>2, TurnOfRefresh
<1>4. Appends(PostOf(v)) /\ v.reason \notin {"none", "heartbeat"}
  BY <1>1, <1>3 DEF TurnInv, TurnOK, Keeps
<1>5. PostOf(v) \in Post
  BY <1>3, <1>4 DEF TurnInv, VerdictOK, PostOf, Post
<1>6. Last(outbox') = PostOf(v)
  BY <1>1, <1>4, <1>5 DEF Appends, Last
<1>7. \/ Stray(PostOf(v))
      \/ \A p \in enqueued : p.snap.at \in Nat /\ p.snap.at < v.snap.at
  BY <1>3, TurnFresh, TurnTypes DEF Past
<1> QED
  BY <1>6, <1>7 DEF PostOf

LEMMA EvidenceKeptStep ==
    ASSUME FileInv, OrderInv, [Next]_vars, candFile # None, candFile' = None
    PROVE  \/ RecoveryOf(candFile) \in enqueued'
           \/ candFile.first \in dropped' \cup strays
           \/ clock - candFile.first.at > Gap
<1>0. SUFFICES ASSUME ~Strayed(candFile)
               PROVE  \/ RecoveryOf(candFile) \in enqueued'
                      \/ candFile.first \in dropped'
                      \/ clock - candFile.first.at > Gap
  BY DEF Strayed
<1>1. CASE StartProcess
  <2>1. \/ clock - candFile.startedAt > Gap
        \/ clock - candFile.first.at > Gap
        \/ RecoveryOf(candFile) \in Range(outbox)
    BY <1>1 DEF StartProcess, RecoveryOf, Range
  <2>2. /\ candFile.first.at \in Nat /\ candFile.startedAt \in Nat
        /\ clock \in Nat /\ Gap \in Nat
    BY MonitorOutboxAssumption DEF FileInv, TypeOK, Candidate, Snapshot
  <2>3. candFile.first.at <= candFile.startedAt
    BY <1>0 DEF OrderInv, PostsInv, CandidateOK
  <2>4. Range(outbox) \subseteq enqueued /\ enqueued' = enqueued
    BY <1>1 DEF StartProcess, FileInv, QueueOK
  <2>5. clock - candFile.startedAt > Gap => clock - candFile.first.at > Gap
    BY <2>2, <2>3
  <2> QED
    BY <2>1, <2>4, <2>5
<1>2. ASSUME NEW s \in Session, RunRefresh(s)
      PROVE  RecoveryOf(candFile) \in enqueued' \/ candFile.first \in dropped'
  <2>1. PICK v, outcome : TurnInv(s, v, outcome)
    BY <1>2, TurnOfRefresh
  <2>2. /\ mem[s].cand # None /\ mem[s].cand.first = candFile.first /\ Unposted
    BY <1>0, <2>1, TurnHolds
  <2>3. outcome = "done"
    BY <2>1 DEF TurnInv, TurnOK
  <2>4. v.cand = None
    BY <2>1, <2>3, TurnMemory DEF Tracks
  <2>5. CASE v.reason # "recovery_candidate"
    BY <2>1, <2>2, <2>3, <2>4, <2>5 DEF TurnInv, TurnOK
  <2>6. CASE v.reason = "recovery_candidate"
    <3>1. PostOf(v) = RecoveryOf(candFile)
      BY <2>1, <2>2, <2>6, TurnFresh DEF PostOf, RecoveryOf
    <3>2. ~AlreadyIn(PostOf(v))
      <4>1. \A i \in DOMAIN outbox : outbox[i] \in Past
        BY DEF FileInv, QueueOK, Range, Past
      <4>2. \A p \in Past : p.snap.at \in Nat /\ p.snap.at < candFile.first.at
        BY <2>1, <2>2, TurnTypes DEF Unposted
      <4> QED
        BY <3>1, <4>1, <4>2 DEF AlreadyIn, RecoveryOf
    <3>3. Appends(PostOf(v))
      BY <2>1, <2>3, <2>6, <3>2 DEF TurnInv, TurnOK
    <3> QED
      BY <3>1, <3>3 DEF Appends
  <2> QED
    BY <2>5, <2>6
<1>3. candFile' # candFile
  OBVIOUS
<1> QED
  BY <1>1, <1>2, <1>3, FileSteps

-----------------------------------------------------------------------------
(* The theorems.                                                           *)

LEMMA FileInvariant == Spec => []FileInv
BY InitFileInv, FileInvPreserved, PTL DEF Spec

LEMMA OrderInvariant == Spec => [](FileInv /\ OrderInv)
<1>1. Init => FileInv /\ OrderInv
  BY InitFileInv, InitOrderInv
<1>2. FileInv /\ OrderInv /\ [Next]_vars => (FileInv /\ OrderInv)'
  BY FileInvPreserved, OrderPreserved
<1> QED
  BY <1>1, <1>2, PTL DEF Spec

\* A post once saved stays in the outbox until the server has handled it, with
\* failed writes, crashes and refreshes of ended sessions.
THEOREM NoPostLost == Spec => []NoneLost
<1>1. FileInv => NoneLost
  BY DEF FileInv
<1> QED
  BY <1>1, FileInvariant, PTL

\* And the outbox is in the order of observation, without duplicates, but for
\* recoveries that strayed.
THEOREM OutboxIsFaithful == Spec => []OutboxFaithful
<1>1. FileInv /\ OrderInv => OutboxFaithful
  BY DEF FileInv, OrderInv, NoneLost, Sorted, OutboxFaithful
<1> QED
  BY <1>1, OrderInvariant, PTL

\* Evidence that a refresh dropped is not posted by a later session either, unless
\* it strayed.
THEOREM DroppedEvidenceNotPosted == Spec => []DroppedNeverPosted
<1>1. OrderInv => DroppedNeverPosted
  BY DEF OrderInv, PostsInv
<1> QED
  BY <1>1, OrderInvariant, PTL

\* Between turns the session and the candidate file hold the same evidence, unless
\* it strayed.
THEOREM SessionAndFileAgree == Spec => []SessionTracksFile
<1>1. FileInv /\ OrderInv => SessionTracksFile
  <2> SUFFICES ASSUME FileInv, OrderInv, state = "up", cur # 0
               PROVE  Tracks(mem[cur]) \/ (Strayed(mem[cur].cand) /\ Strayed(candFile))
    BY DEF SessionTracksFile, Tracks, Strayed
  <2>1. cur \in Session
    BY MonitorOutboxAssumption DEF FileInv, TypeOK, Session
  <2> QED
    BY <2>1 DEF OrderInv, Tracked
<1> QED
  BY <1>1, OrderInvariant, PTL

\* The server first handles the posts of the outbox in their order, but for
\* recoveries that strayed.
THEOREM PostsArriveInOrder == Spec => DurablePostsArriveInOrder
<1>1. OrderInv =>
        \A p \in handled' \ handled :
           p \in enqueued /\ ~Stray(p) => \A q \in handled : q.snap.at < p.snap.at
  BY DEF OrderInv, PostsInv, SentOK, Sent
<1> QED
  BY <1>1, OrderInvariant, PTL DEF DurablePostsArriveInOrder

\* No turn posts what has been posted before, whatever fell between the two
\* writes of the turn that posted it.
THEOREM RecoveryConfirmedOnce == Spec => ConfirmedOnce
<1>1. FileInv /\ OrderInv /\ [Next]_vars =>
        (Len(outbox') > Len(outbox) =>
            Last(outbox') \notin enqueued \/ Stray(Last(outbox')))
  BY ConfirmedOnceStep
<1> QED
  BY <1>1, OrderInvariant, PTL DEF Spec, ConfirmedOnce

\* Saved evidence goes only with its post, its refutation or its age.
THEOREM EvidenceIsKept == Spec => EvidenceKept
<1>1. FileInv /\ OrderInv /\ [Next]_vars =>
        (candFile # None /\ candFile' = None =>
            \/ [reason |-> "recovery_candidate", snap |-> candFile.first] \in enqueued'
            \/ candFile.first \in dropped' \cup strays
            \/ clock - candFile.first.at > Gap)
  BY EvidenceKeptStep DEF RecoveryOf
<1> QED
  BY <1>1, OrderInvariant, PTL DEF Spec, EvidenceKept

-----------------------------------------------------------------------------
(* The monitor as CodexUsage has it: its queue is the outbox, the request  *)
(* it waits for is the call.                                               *)

\* A post is younger than whatever is saved, handled or under way, or it is a
\* recovery that strayed, of which CodexUsage knows nothing.
Younger(p) == \A q \in Past : q.snap.at < p.snap.at

\* CodexUsage's Enqueue, Heartbeat and Send: no other step begins a request or
\* makes a post.
Enqueues ==
    /\ call = None /\ call' = None
    /\ \E p \in Post : /\ p.reason # "heartbeat" /\ (Younger(p) \/ Stray(p))
                       /\ outbox' = Append(outbox, p)
SendsHeartbeat ==
    /\ call = None /\ outbox = <<>> /\ outbox' = <<>>
    /\ \E p \in Post, s \in Session :
          /\ p.reason = "heartbeat" /\ Younger(p)
          /\ call' = [session |-> s, post |-> p, answered |-> FALSE]
SendsHead ==
    /\ call = None /\ outbox # <<>> /\ outbox' = outbox
    /\ call' = [session |-> 0, post |-> Head(outbox), answered |-> FALSE]

\* The answer of acceptance takes the post that was sent out of the queue; a
\* heartbeat's, and any other end of a request, GiveUp or Crash, leaves it alone.
Answered == /\ call # None /\ call' = [call EXCEPT !.answered = TRUE] /\ outbox' = outbox
RemovesHead ==
    /\ call # None /\ call.session = 0 /\ call.answered /\ call' = None
    /\ outbox # <<>> /\ call.post = Head(outbox) /\ outbox' = Tail(outbox)
EndsRequest == call # None /\ call' = None /\ outbox' = outbox

MonitorStep == \/ Enqueues \/ SendsHeartbeat \/ SendsHead
               \/ Answered \/ RemovesHead \/ EndsRequest

LEMMA RefreshAsAssumed ==
    ASSUME FileInv, OrderInv, NEW s \in Session, RunRefresh(s),
           <<outbox, call>>' # <<outbox, call>>
    PROVE  Enqueues \/ SendsHeartbeat
<1>1. PICK v, outcome : TurnInv(s, v, outcome)
  BY TurnOfRefresh
<1> DEFINE p == PostOf(v)
<1>2. /\ call = None /\ TurnOK(s, v, outcome) /\ VerdictOK(mem[s], op[s], v)
      /\ p.reason = v.reason /\ p.snap = v.snap /\ (Younger(p) \/ Stray(p))
  BY <1>1, TurnFresh DEF TurnInv, PostOf, Younger
<1>3. v.reason # "none" => p \in Post
  BY <1>2 DEF VerdictOK, PostOf, Post
<1>4. CASE call' = None
  <2>1. v.reason \notin {"none", "heartbeat"} /\ outbox' = Append(outbox, p)
    BY <1>2, <1>4 DEF TurnOK, Keeps, Appends
  <2> QED
    BY <1>2, <1>3, <1>4, <2>1 DEF Enqueues
<1>5. CASE call' # None
  <2>1. /\ v.reason = "heartbeat" /\ outbox = <<>>
        /\ call' = [session |-> s, answered |-> FALSE, post |-> p]
    BY <1>2, <1>5 DEF TurnOK
  <2>2. outbox' = <<>>
    BY <1>2, <2>1 DEF TurnOK, Keeps
  <2> QED
    BY <1>2, <1>3, <2>1, <2>2 DEF SendsHeartbeat, Stray
<1> QED
  BY <1>4, <1>5

\* The monitor does to the webhook what CodexUsage has it do, through crashes,
\* restarts and failed writes, and one thing more: it may save a recovery that
\* strayed.  Its other posts and its heartbeats are each younger than whatever is
\* saved, handled or under way, one request runs at a time, of the queue its head,
\* a heartbeat only when the queue is empty, and the head leaves the queue only when
\* its own request was answered.
THEOREM MonitorAsAssumed == Spec => [][MonitorStep]_<<outbox, call>>
<1>1. FileInv /\ OrderInv /\ [Next]_vars => [MonitorStep]_<<outbox, call>>
  <2> SUFFICES ASSUME FileInv, OrderInv, [Next]_vars, <<outbox, call>>' # <<outbox, call>>
               PROVE  MonitorStep
    OBVIOUS
  <2>1. CASE \/ StartProcess \/ BeginSession \/ EndSession \/ RequestStop \/ StopProcess
             \/ ReadAccount \/ ServerHandlesLate \/ Tick \/ UNCHANGED vars
    BY <2>1 DEF StartProcess, BeginSession, EndSession, RequestStop, StopProcess,
       ReadAccount, ServerHandlesLate, Tick, vars, disk, net
  <2>2. CASE Crash \/ CallFails \/ HeartbeatAccepted
    BY <2>2 DEF Crash, CallFails, HeartbeatAccepted, disk, MonitorStep, EndsRequest
  <2>3. CASE \E s \in Session : RunRefresh(s)
    BY <2>3, RefreshAsAssumed DEF MonitorStep
  <2>4. CASE Flush
    <3>1. SendsHead
      BY <2>4 DEF Flush, disk, SendsHead
    <3> QED
      BY <3>1 DEF MonitorStep
  <2>5. CASE ServerHandles
    BY <2>5 DEF ServerHandles, disk, MonitorStep, Answered
  <2>6. CASE DeliveryAccepted
    <3>1. outbox # <<>> /\ call.post = Head(outbox)
      BY <2>6 DEF DeliveryAccepted, FileInv, QueueOK
    <3> QED
      BY <2>6, <3>1 DEF DeliveryAccepted, MonitorStep, RemovesHead, EndsRequest
  <2> QED
    BY <2>1, <2>2, <2>3, <2>4, <2>5, <2>6 DEF Next
<1> QED
  BY <1>1, OrderInvariant, PTL DEF Spec
=============================================================================
