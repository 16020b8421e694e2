------------------------- MODULE TiboWebhookProofs -------------------------
(***************************************************************************)
(* Proofs about CodexUsage and TiboWebhook, for any posts, recoveries and  *)
(* BANKED resets, any number of requests and deliveries at once, and any   *)
(* number of faults.                                                       *)
(*                                                                         *)
(* UsageInv, of the usage webhook, says how the outbox, the requests under *)
(* way and the snapshots that were counted stand to each other; from it    *)
(* follow the refinement of UsageLedger and the fate of a recovery.        *)
(* EventInv, for the usage webhook alone, adds what makes each recovery an *)
(* event.  With the deliveries beside the requests, WebhookInv says which  *)
(* delivery may announce a claim.  NamesInv and JoinInv say how a          *)
(* completion finds the event of the recovery that it follows, MergeInv    *)
(* which delivery will see to the merge while nothing fails.               *)
(***************************************************************************)
EXTENDS TiboWebhook, FiniteSetTheorems, TLAPS

----------------------------------------------------------------------------
(* The usage webhook: its inductive invariant.                             *)

Latest == IF state = None THEN 0 ELSE state.at

Recovers(s) == s.reason = "recovery_candidate"

\* The snapshots the system holds.
Known ==
    {queue[i] : i \in 1..Len(queue)}
        \cup {requests[r].snap : r \in {p \in Slot : requests[p] # None}}
        \cup ({state, last} \ {None})

\* A time tells the snapshot, and the quota recovers with time only.
Precedes(a, b) ==
    /\ a.at = b.at => a = b
    /\ a.at < b.at => a.cycle <= b.cycle /\ (Recovers(b) => a.cycle < b.cycle)

ReadingsOK ==
    /\ \A a \in Known : \A b \in Known : Precedes(a, b)
    /\ \A a \in Known : /\ last # None /\ a.at <= last.at
                        /\ a.at = 1 => a.reason = "initial"

\* The outbox is in order, and nothing under way or counted is younger.
QueueOK ==
    /\ \A i, j \in 1..Len(queue) : i < j => queue[i].at < queue[j].at
    /\ \A i \in 1..Len(queue) :
        /\ \A r \in Slot : requests[r] # None => requests[r].snap.at <= queue[i].at
        /\ Latest <= queue[i].at /\ queue[i].reason # "heartbeat"

\* The monitor waits for the head of its outbox, or for a heartbeat, and for
\* the youngest request there is.
WaitingOK ==
    waiting # None =>
        /\ requests[waiting] # None
        /\ requests[waiting].snap.reason = "heartbeat" => queue = <<>>
        /\ requests[waiting].snap.reason # "heartbeat" =>
              queue # <<>> /\ queue[1] = requests[waiting].snap
        /\ \A r \in Slot : requests[r] # None =>
              requests[r].since <= requests[waiting].since

Working(q) == q.pc \in {"notice", "match", "write"}
Ends(q) == q.pc \in {"claim", "accepted"}

\* As long as nothing counts, all that circulates is the first reading.
FirstOK ==
    state = None /\ last # None =>
        /\ queue # <<>> /\ queue[1].at = 1
        /\ \A r \in Slot : requests[r] # None =>
              requests[r].snap.at = 1 /\ ~Ends(requests[r])

\* What a request knows of the snapshots that were counted since it began.
RequestOK(q) ==
    /\ q.since + q.retry <= Len(applied)
    /\ q.seen # None => state # None /\ q.seen.at <= Latest
    /\ Working(q) /\ q.seen # None => q.seen.at < q.snap.at
    /\ Working(q) /\ state # q.seen => q.since + q.retry < Len(applied)
    /\ q.pc \in {"notice", "match"} => Recovery(q.seen, q.snap)
    /\ Ends(q) => q.snap.at <= Latest \/ q.since + 2 <= Len(applied)

CountOK ==
    /\ Len(applied) <= Latest
    /\ \A r \in Slot : requests[r] # None => RequestOK(requests[r])

Observed(s) == \E o \in observations : o.at = s.at
Queued(s) == queue # <<>> /\ queue[1].at <= s.at

\* A recovery that is no longer in the outbox is observed, or was overtaken
\* twice by every request for it.
LostOnlyToTwo(q) ==
    Recovers(q.snap) /\ ~Observed(q.snap) /\ (Ends(q) \/ ~Queued(q.snap))
        => q.since + 2 <= Len(applied)

LostOK ==
    /\ state # None /\ Recovers(state) => Observed(state)
    /\ \A r \in Slot : requests[r] # None => LostOnlyToTwo(requests[r])

CoreOK == ReadingsOK /\ QueueOK /\ WaitingOK /\ FirstOK /\ CountOK /\ LostOK
UsageInv == TypeOK /\ CoreOK

----------------------------------------------------------------------------
(* Types.                                                                  *)

LEMMA NoneIsNoValue ==
    /\ \A r \in Slot : r # None
    /\ \A t \in Tweet : t # None
    /\ \A s \in Snapshot : s # None
    /\ \A q \in Request : q # None
    /\ \A k \in Key : k # None
BY NoneAssumption

LEMMA SnapshotFields ==
    ASSUME NEW s \in Snapshot
    PROVE  /\ s.at \in Nat /\ 1 <= s.at /\ s.at <= MaxAt
           /\ s.cycle \in Nat /\ s.banked \in Nat /\ s.banked <= MaxGrants
           /\ s.near \in BOOLEAN /\ s.reason \in Reason
BY BoundsAssumption DEF Snapshot, Time

LEMMA RequestFields ==
    ASSUME NEW q \in Request
    PROVE  /\ q.snap \in Snapshot /\ q.seen \in Snapshot \cup {None}
           /\ q.since \in Nat /\ q.retry \in 0..1
           /\ q.notice \in Tweet \cup {None} /\ q.teaser \in Tweet \cup {None}
           /\ q.match \in Tweet \cup {None}
           /\ q.promote \in BOOLEAN /\ q.cluster \subseteq Tweet
BY BoundsAssumption DEF Request

LEMMA LatestNat == TypeOK => Latest \in Nat /\ Latest <= MaxAt
BY SnapshotFields, BoundsAssumption DEF TypeOK, Latest

LEMMA KnownTyped == TypeOK => Known \subseteq Snapshot
BY RequestFields DEF TypeOK, Known

LEMMA InTheRange == TypeOK /\ CountOK => Len(applied) \in 0..MaxAt
BY LatestNat, BoundsAssumption DEF TypeOK, CountOK

\* A step of one request that neither counts a snapshot nor ends it.
Local(r) ==
    /\ requests[r] # None
    /\ \E q \in Request :
        /\ requests' = [requests EXCEPT ![r] = q]
        /\ q.snap = requests[r].snap /\ q.since = requests[r].since
        /\ RequestOK(q) /\ LostOnlyToTwo(q)
        /\ state = None => ~Ends(q)
    /\ UNCHANGED <<state, observations, grants, monitor, applied>>

LEMMA RequestTyped ==
    ASSUME UsageInv, NEW r \in Slot, requests[r] # None
    PROVE  /\ requests[r] \in Request
           /\ RequestOK(requests[r]) /\ LostOnlyToTwo(requests[r])
           /\ state = None => ~Ends(requests[r])
           /\ requests[r].snap \in Known
<1>1. requests[r] \in Request /\ requests[r].snap \in Known
  BY DEF UsageInv, TypeOK, Known
<1>2. last # None
  BY <1>1 DEF UsageInv, CoreOK, ReadingsOK
<1> QED
  BY <1>1, <1>2 DEF UsageInv, CoreOK, CountOK, LostOK, FirstOK

\* A recovery that is not observed, and not younger than what was counted, has
\* left the outbox.
LEMMA CaughtUp ==
    ASSUME UsageInv, NEW r \in Slot, requests[r] # None,
           state # None, requests[r].snap.at <= state.at,
           Recovers(requests[r].snap), ~Observed(requests[r].snap)
    PROVE  ~Queued(requests[r].snap)
<1> DEFINE s == requests[r].snap
<1>1. s \in Snapshot /\ s \in Known
  BY RequestTyped, RequestFields
<1>2. state \in Snapshot /\ state \in Known
  BY DEF UsageInv, TypeOK, Known
<1>3. SUFFICES ASSUME Queued(s) PROVE FALSE
  OBVIOUS
<1>4. queue # <<>> /\ queue \in Seq(Snapshot) /\ queue[1].at <= s.at
  BY <1>3 DEF Queued, UsageInv, TypeOK
<1>5. 1 \in 1..Len(queue) /\ queue[1] \in Snapshot
  BY <1>4
<1>6. state.at <= queue[1].at
  BY <1>5 DEF UsageInv, CoreOK, QueueOK, Latest
<1>7. s.at = state.at
  BY <1>1, <1>2, <1>4, <1>5, <1>6, SnapshotFields
<1>8. Precedes(s, state)
  BY <1>1, <1>2 DEF UsageInv, CoreOK, ReadingsOK
<1>9. s = state
  BY <1>7, <1>8 DEF Precedes
<1> QED
  BY <1>9 DEF UsageInv, CoreOK, LostOK

LEMMA ReadStateLocal ==
    ASSUME UsageInv, NEW r \in Slot, ReadState(r)
    PROVE  Local(r)
<1> DEFINE p == requests[r]
           s == p.snap
           next == IF state # None /\ s.at <= state.at THEN "accepted"
                   ELSE IF Recovery(state, s) THEN "notice" ELSE "write"
           q == [p EXCEPT !.seen = state, !.pc = next]
<1>1. p # None /\ p.pc = "state"
  BY DEF ReadState
<1>2. p \in Request /\ RequestOK(p) /\ LostOnlyToTwo(p) /\ state \in Snapshot \cup {None}
  BY <1>1, RequestTyped DEF UsageInv, TypeOK
<1>3. requests \in [Slot -> Request \cup {None}]
  BY DEF UsageInv, TypeOK
<1>4. next \in {"accepted", "notice", "write"}
  OBVIOUS
<1>5. /\ q \in Request /\ q.snap = s /\ q.since = p.since /\ q.retry = p.retry
      /\ q.seen = state /\ q.pc = next
  BY <1>2, <1>4 DEF Request
<1>6. requests' = [requests EXCEPT ![r] = q]
  BY <1>3 DEF ReadState
<1>7. p.since \in Nat /\ p.retry \in Nat /\ s \in Snapshot
  BY <1>2, RequestFields
<1>8. ASSUME state # None PROVE state.at \in Nat /\ s.at \in Nat
  BY <1>2, <1>7, <1>8, SnapshotFields
<1>9. RequestOK(q)
  <2>1. Ends(q) => state # None /\ s.at <= Latest
    BY <1>5 DEF Ends, Latest
  <2>2. Working(q) /\ state # None => state.at < s.at
    BY <1>5, <1>8 DEF Working
  <2>3. q.pc = "notice" => Recovery(state, s)
    BY <1>5
  <2>4. q.pc # "match"
    BY <1>5, <1>4
  <2>5. state # None => state.at <= Latest
    BY <1>8 DEF Latest
  <2> QED
    BY <1>2, <1>5, <2>1, <2>2, <2>3, <2>4, <2>5 DEF RequestOK
<1>10. LostOnlyToTwo(q)
  <2>1. SUFFICES ASSUME Recovers(s), ~Observed(s), Ends(q) \/ ~Queued(s)
                 PROVE  p.since + 2 <= Len(applied)
    BY <1>5 DEF LostOnlyToTwo
  <2>2. Ends(q) => state # None /\ s.at <= state.at
    BY <1>5 DEF Ends
  <2>3. ~Queued(s)
    BY <2>1, <2>2, <1>1, CaughtUp
  <2> QED
    BY <2>1, <2>3, <1>2 DEF LostOnlyToTwo
<1>11. state = None => ~Ends(q)
  BY <1>5 DEF Ends
<1> QED
  BY <1>1, <1>5, <1>6, <1>9, <1>10, <1>11 DEF Local, ReadState, tables

LEMMA NewRequestTyped ==
    ASSUME UsageInv, NEW s \in Snapshot
    PROVE  /\ NewRequest(s) \in Request
           /\ NewRequest(s).snap = s /\ NewRequest(s).since = Len(applied)
           /\ NewRequest(s).seen = None /\ NewRequest(s).pc = "state"
           /\ NewRequest(s).retry = 0
<1>1. Len(applied) \in 0..MaxAt
  BY InTheRange DEF UsageInv, CoreOK
<1>2. Len(applied) \in 0..MaxAt /\ {} \in SUBSET Tweet /\ 0 \in 0..1
  BY <1>1
<1> QED
  BY <1>2 DEF NewRequest, Request

LEMMA WriteStaleLocal ==
    ASSUME UsageInv, NEW r \in Slot, WriteStale(r)
    PROVE  Local(r)
<1> DEFINE p == requests[r]
           s == p.snap
           again == [NewRequest(s) EXCEPT !.retry = 1, !.since = p.since]
           over == [p EXCEPT !.pc = "accepted"]
<1>1. p # None /\ p.pc = "write" /\ state # p.seen
  BY DEF WriteStale, Overtaken
<1>2. p \in Request /\ RequestOK(p) /\ LostOnlyToTwo(p) /\ state \in Snapshot \cup {None}
  BY <1>1, RequestTyped DEF UsageInv, TypeOK
<1>3. requests \in [Slot -> Request \cup {None}] /\ Len(applied) \in Nat
  BY DEF UsageInv, TypeOK
<1>4. state # None /\ state \in Snapshot
  BY <1>1, <1>2 DEF RequestOK
<1>5. /\ p.since \in 0..MaxAt /\ p.retry \in 0..1 /\ s \in Snapshot
      /\ s.at \in Nat /\ state.at \in Nat /\ MaxAt \in Nat
  BY <1>2, <1>4, SnapshotFields, BoundsAssumption DEF Request
<1>6. p.since + p.retry < Len(applied)
  BY <1>1, <1>2 DEF RequestOK, Working
<1>7. CASE s.at > state.at /\ p.retry = 0
  <2>1. /\ again \in Request /\ again.snap = s /\ again.since = p.since
        /\ again.retry = 1 /\ again.seen = None /\ again.pc = "state"
    <3> DEFINE n == NewRequest(s)
    <3>1. n \in Request /\ n.snap = s /\ n.seen = None /\ n.pc = "state"
      BY <1>5, NewRequestTyped
    <3>2. again = [n EXCEPT !.retry = 1, !.since = p.since]
      OBVIOUS
    <3>3. 1 \in 0..1 /\ p.since \in 0..MaxAt
      BY <1>5
    <3> HIDE DEF n, again, s
    <3>4. again \in Request
      BY <3>1, <3>2, <3>3 DEF Request
    <3> QED
      BY <3>1, <3>2, <3>4 DEF Request
  <2>2. requests' = [requests EXCEPT ![r] = again]
    BY <1>7 DEF WriteStale
  <2>3. RequestOK(again)
    BY <2>1, <1>3, <1>5, <1>6, <1>7 DEF RequestOK, Working, Ends
  <2>4. LostOnlyToTwo(again) /\ ~Ends(again)
    BY <2>1, <1>2 DEF LostOnlyToTwo, Ends
  <2> QED
    BY <1>1, <2>1, <2>2, <2>3, <2>4 DEF Local, WriteStale, tables
<1>8. CASE ~(s.at > state.at /\ p.retry = 0)
  <2>1. /\ over \in Request /\ over.snap = s /\ over.since = p.since
        /\ over.retry = p.retry /\ over.seen = p.seen /\ over.pc = "accepted"
    BY <1>2 DEF Request
  <2>2. requests' = [requests EXCEPT ![r] = over]
    BY <1>8, <1>3 DEF WriteStale
  <2>3. s.at <= state.at \/ p.since + 2 <= Len(applied)
    BY <1>3, <1>5, <1>6, <1>8
  <2>4. RequestOK(over)
    BY <2>1, <2>3, <1>2, <1>4 DEF RequestOK, Working, Latest
  <2>5. LostOnlyToTwo(over)
    <3>1. SUFFICES ASSUME Recovers(s), ~Observed(s), ~(p.since + 2 <= Len(applied))
                   PROVE  FALSE
      BY <2>1 DEF LostOnlyToTwo
    <3>2. ~Queued(s)
      BY <3>1, <2>3, <1>1, <1>4, CaughtUp
    <3> QED
      BY <3>1, <3>2, <1>2 DEF LostOnlyToTwo
  <2> QED
    BY <1>1, <1>4, <2>1, <2>2, <2>4, <2>5 DEF Local, WriteStale, tables
<1> QED
  BY <1>7, <1>8

LEMMA LookupLocal ==
    ASSUME UsageInv, NEW r \in Slot,
           LookupNotice(r) \/ LookupMatch(r) \/ LookupFails(r)
    PROVE  Local(r)
<1> DEFINE p == requests[r]
<1>1. p # None
  BY DEF LookupNotice, LookupMatch, LookupFails
<1>2. p \in Request /\ RequestOK(p) /\ LostOnlyToTwo(p)
  BY <1>1, RequestTyped
<1>3. requests \in [Slot -> Request \cup {None}]
  BY DEF UsageInv, TypeOK
<1>4. ASSUME NEW q \in Request, requests' = [requests EXCEPT ![r] = q],
             q.snap = p.snap, q.since = p.since, q.retry = p.retry,
             q.seen = p.seen, ~Ends(q),
             Working(q) => Working(p), q.pc \in {"notice", "match"} => Working(p),
             q.pc \in {"notice", "match"} => Recovery(q.seen, q.snap),
             UNCHANGED <<state, observations, grants, monitor, applied>>
      PROVE  Local(r)
  <2>1. RequestOK(q)
    BY <1>2, <1>4 DEF RequestOK
  <2>2. LostOnlyToTwo(q)
    BY <1>2, <1>4 DEF LostOnlyToTwo
  <2> QED
    BY <1>1, <1>4, <2>1, <2>2 DEF Local
<1>5. CASE LookupNotice(r)
  <2>1. PICK n \in Tweet \cup {None}, z \in Tweet \cup {None} :
          requests' = [requests EXCEPT
                ![r].notice = n, ![r].spent = n # None /\ Used(n),
                ![r].teaser = z,
                ![r].pc = IF p.snap.near THEN "write" ELSE "match"]
    BY <1>5 DEF LookupNotice
  <2> DEFINE u == n # None /\ Used(n)
             pc == IF p.snap.near THEN "write" ELSE "match"
             q == [p EXCEPT !.notice = n, !.spent = u, !.teaser = z, !.pc = pc]
  <2>2. u \in BOOLEAN /\ pc \in {"write", "match"}
    OBVIOUS
  <2>3. requests' = [requests EXCEPT ![r] = q]
    BY <2>1, <1>3
  <2> HIDE DEF u, pc
  <2>4. /\ q \in Request /\ q.snap = p.snap /\ q.since = p.since
        /\ q.retry = p.retry /\ q.seen = p.seen /\ q.pc = pc
    BY <1>2, <2>2 DEF Request
  <2>5. p.pc = "notice" /\ UNCHANGED <<state, observations, grants, monitor, applied>>
    BY <1>5 DEF LookupNotice, tables
  <2>6. Working(p) /\ Recovery(p.seen, p.snap) /\ ~Ends(q)
    BY <1>2, <2>2, <2>4, <2>5 DEF RequestOK, Working, Ends
  <2> HIDE DEF q
  <2> QED
    BY <1>4, <2>3, <2>4, <2>5, <2>6
<1>6. CASE LookupMatch(r)
  <2>1. PICK t \in Tweet \cup {None} :
          requests' = [requests EXCEPT
            ![r].match = t,
            ![r].promote = t # None /\ signals[t] = "deferred",
            ![r].cluster = IF t = None THEN {} ELSE Announcements,
            ![r].pc = "write"]
    BY <1>6 DEF LookupMatch, Formal
  <2> DEFINE u == t # None /\ signals[t] = "deferred"
             c == IF t = None THEN {} ELSE Announcements
             q == [p EXCEPT !.match = t, !.promote = u, !.cluster = c, !.pc = "write"]
  <2>2. u \in BOOLEAN /\ c \subseteq Tweet
    BY DEF Announcements
  <2>3. requests' = [requests EXCEPT ![r] = q]
    BY <2>1, <1>3
  <2> HIDE DEF u, c
  <2>4. /\ q \in Request /\ q.snap = p.snap /\ q.since = p.since
        /\ q.retry = p.retry /\ q.seen = p.seen /\ q.pc = "write"
    BY <1>2, <2>2 DEF Request
  <2>5. p.pc = "match" /\ UNCHANGED <<state, observations, grants, monitor, applied>>
    BY <1>6 DEF LookupMatch, tables
  <2>6. Working(p) /\ ~Ends(q) /\ q.pc \notin {"notice", "match"}
    BY <2>4, <2>5 DEF Working, Ends
  <2> HIDE DEF q
  <2> QED
    BY <1>4, <2>3, <2>4, <2>5, <2>6
<1>7. CASE LookupFails(r)
  <2> DEFINE f == [p EXCEPT !.pc = "failed"]
             w == [p EXCEPT !.blind = TRUE, !.pc = "write"]
  <2>1. UNCHANGED <<state, observations, grants, monitor, applied>>
    BY <1>7 DEF LookupFails, tables
  <2>2. \/ requests' = [requests EXCEPT ![r] = f]
        \/ Working(p) /\ requests' = [requests EXCEPT ![r] = w]
    BY <1>7, <1>3 DEF LookupFails, Goto, Working
  <2>3. /\ f \in Request /\ f.snap = p.snap /\ f.since = p.since
        /\ f.retry = p.retry /\ f.seen = p.seen /\ f.pc = "failed"
    BY <1>2 DEF Request
  <2>4. /\ w \in Request /\ w.snap = p.snap /\ w.since = p.since
        /\ w.retry = p.retry /\ w.seen = p.seen /\ w.pc = "write"
    BY <1>2 DEF Request
  <2>5. ~Ends(f) /\ ~Working(f) /\ ~Ends(w) /\ w.pc \notin {"notice", "match"}
        /\ f.pc \notin {"notice", "match"}
    BY <2>3, <2>4 DEF Ends, Working
  <2> HIDE DEF f, w
  <2> QED
    BY <1>4, <2>1, <2>2, <2>3, <2>4, <2>5
<1> QED
  BY <1>5, <1>6, <1>7

LEMMA WriteFailsLocal ==
    ASSUME UsageInv, NEW r \in Slot, WriteFails(r)
    PROVE  Local(r)
<1> DEFINE p == requests[r]
           q == [p EXCEPT !.pc = "failed"]
<1>1. p # None /\ UNCHANGED <<state, observations, grants, monitor, applied>>
  BY DEF WriteFails, tables
<1>2. p \in Request /\ RequestOK(p) /\ LostOnlyToTwo(p)
  BY <1>1, RequestTyped
<1>3. requests' = [requests EXCEPT ![r] = q]
  BY DEF WriteFails, Goto, UsageInv, TypeOK
<1>4. /\ q \in Request /\ q.snap = p.snap /\ q.since = p.since
      /\ q.retry = p.retry /\ q.seen = p.seen /\ q.pc = "failed"
  BY <1>2 DEF Request
<1>5. RequestOK(q) /\ LostOnlyToTwo(q) /\ ~Ends(q)
  BY <1>2, <1>4 DEF RequestOK, LostOnlyToTwo, Working, Ends
<1> QED
  BY <1>1, <1>3, <1>4, <1>5 DEF Local

LEMMA ClaimLocal ==
    ASSUME UsageInv, NEW r \in Slot, Claim(r) \/ ClaimFails(r)
    PROVE  Local(r)
<1> DEFINE p == requests[r]
           q == [p EXCEPT !.pc = "accepted"]
<1>1. /\ p # None /\ p.pc = "claim"
      /\ UNCHANGED <<state, observations, grants, monitor, applied>>
  BY DEF Claim, ClaimFails, tables
<1>2. /\ p \in Request /\ RequestOK(p) /\ LostOnlyToTwo(p)
      /\ state = None => ~Ends(p)
  BY <1>1, RequestTyped
<1>3. requests' = [requests EXCEPT ![r] = q]
  BY DEF Claim, ClaimFails, Goto, UsageInv, TypeOK
<1>4. /\ q \in Request /\ q.snap = p.snap /\ q.since = p.since
      /\ q.retry = p.retry /\ q.seen = p.seen /\ q.pc = "accepted"
  BY <1>2 DEF Request
<1>5. Ends(p) /\ Ends(q) /\ ~Working(q)
  BY <1>1, <1>4 DEF Ends, Working
<1>6. RequestOK(q) /\ LostOnlyToTwo(q)
  BY <1>2, <1>4, <1>5 DEF RequestOK, LostOnlyToTwo
<1> QED
  BY <1>1, <1>2, <1>3, <1>4, <1>5, <1>6 DEF Local

----------------------------------------------------------------------------
(* The steps keep the invariant.                                           *)

LEMMA TailFacts ==
    ASSUME NEW S, NEW q \in Seq(S), q # <<>>
    PROVE  /\ Tail(q) \in Seq(S) /\ Len(q) \in Nat \ {0} /\ Head(q) = q[1]
           /\ Len(Tail(q)) = Len(q) - 1
           /\ \A i \in 1..(Len(q) - 1) : i + 1 \in 1..Len(q) /\ Tail(q)[i] = q[i + 1]
OBVIOUS

LEMMA AppendFacts ==
    ASSUME NEW S, NEW q \in Seq(S), NEW s \in S
    PROVE  /\ Append(q, s) \in Seq(S) /\ Len(q) \in Nat
           /\ Len(Append(q, s)) = Len(q) + 1
           /\ \A i \in 1..Len(q) : Append(q, s)[i] = q[i]
           /\ Append(q, s)[Len(q) + 1] = s
           /\ Append(q, s) # <<>>
OBVIOUS

\* No new snapshot.
LEMMA ReadingsStay ==
    ASSUME ReadingsOK, Known' \subseteq Known, last' = last
    PROVE  ReadingsOK'
BY DEF ReadingsOK, Precedes, Recovers

LEMMA ReadingsTyped == Readings \subseteq Snapshot
<1>1. 1 \in Time /\ 0 \in 0..MaxCycle /\ 0 \in 0..MaxGrants
  BY BoundsAssumption DEF Time
<1>2. [at |-> 1, reason |-> "initial", cycle |-> 0, near |-> FALSE, banked |-> 0]
        \in Snapshot
  BY <1>1 DEF Snapshot, Reason
<1> QED
  BY <1>2 DEF Readings

\* A new reading is younger than all there is.
LEMMA Younger ==
    ASSUME UsageInv, NEW s \in Readings
    PROVE  /\ \A a \in Known : a.at < s.at
           /\ state # None => state.at < s.at
           /\ last = None => Known = {} /\ state = None /\ queue = <<>>
                            /\ \A r \in Slot : requests[r] = None
<1>1. Known \subseteq Snapshot /\ ReadingsOK /\ last \in Snapshot \cup {None}
  BY KnownTyped DEF UsageInv, CoreOK, TypeOK
<1>2. CASE last = None
  <2>1. Known = {}
    BY <1>1, <1>2 DEF ReadingsOK
  <2>2. state = None /\ \A r \in Slot : requests[r] = None
    BY <2>1 DEF Known
  <2>3. queue \in Seq(Snapshot) /\ \A i \in 1..Len(queue) : queue[i] \in Known
    BY DEF Known, UsageInv, TypeOK
  <2>4. queue = <<>>
    BY <2>1, <2>3
  <2> QED
    BY <1>2, <2>1, <2>2, <2>4
<1>3. CASE last # None
  <2>1. s.at = last.at + 1 /\ last.at \in Nat
    BY <1>1, <1>3, SnapshotFields DEF Readings
  <2>2. ASSUME NEW a \in Known PROVE a.at < s.at
    <3>1. a.at <= last.at /\ a.at \in Nat
      BY <1>1, SnapshotFields DEF ReadingsOK
    <3> QED
      BY <2>1, <3>1
  <2>3. state # None => state \in Known
    BY DEF Known
  <2> QED
    BY <1>3, <2>2, <2>3
<1> QED
  BY <1>2, <1>3

LEMMA ReadingsGrow ==
    ASSUME UsageInv, NEW s \in Readings, last' = s, Known' \subseteq Known \cup {s}
    PROVE  ReadingsOK'
<1>1. Known \subseteq Snapshot
  BY KnownTyped DEF UsageInv
<1>2. ReadingsOK /\ last \in Snapshot \cup {None}
  BY DEF UsageInv, CoreOK, TypeOK
<1>3. last' # None
  BY NoneIsNoValue, ReadingsTyped
<1>4. CASE last = None
  <2>1. Known = {}
    BY <1>2, <1>4 DEF ReadingsOK
  <2>2. s.at = 1 /\ s.reason = "initial"
    BY <1>4 DEF Readings
  <2> QED
    BY <1>3, <2>1, <2>2 DEF ReadingsOK, Precedes, Recovers
<1>5. CASE last # None
  <2>1. /\ s.at = last.at + 1
        /\ s.cycle = last.cycle + (IF Recovers(s) THEN 1 ELSE 0)
    BY <1>5 DEF Readings, Recovers
  <2>2. last \in Known /\ last \in Snapshot /\ last.at \in Nat /\ last.cycle \in Nat
        /\ last.at >= 1
    BY <1>2, <1>5, SnapshotFields DEF Known
  <2>3. ASSUME NEW a \in Known
        PROVE  /\ a.at < s.at /\ a.cycle <= s.cycle
               /\ Recovers(s) => a.cycle < s.cycle
    <3>1. a \in Snapshot /\ a.at \in Nat /\ a.cycle \in Nat
      BY <1>1, SnapshotFields
    <3>2. a.at <= last.at /\ Precedes(a, last)
      BY <1>2, <2>2 DEF ReadingsOK
    <3>3. a.cycle <= last.cycle
      BY <3>1, <3>2, <2>2 DEF Precedes
    <3> QED
      BY <2>1, <2>2, <3>1, <3>2, <3>3
  <2>4. s.at \in Nat /\ s.at # 1
    BY <2>1, <2>2
  <2>5. ASSUME NEW a \in Known, NEW b \in Known PROVE Precedes(a, b)
    BY <1>2 DEF ReadingsOK
  <2>6. ASSUME NEW a \in Known PROVE Precedes(a, s) /\ Precedes(s, a) /\ a.at <= s.at
    <3>1. a.at \in Nat /\ a.at < s.at
      BY <1>1, <2>3, SnapshotFields
    <3> QED
      BY <2>3, <2>4, <3>1 DEF Precedes
  <2>7. Precedes(s, s)
    BY <2>4 DEF Precedes
  <2>8. \A a \in Known : a.at = 1 => a.reason = "initial"
    BY <1>2 DEF ReadingsOK
  <2>9. \A a, b \in Known' : Precedes(a, b)
    BY <2>5, <2>6, <2>7
  <2>10. \A a \in Known' : a.at <= s.at /\ (a.at = 1 => a.reason = "initial")
    BY <2>4, <2>6, <2>8
  <2> QED
    BY <1>3, <2>9, <2>10 DEF ReadingsOK, Precedes, Recovers
<1> QED
  BY <1>4, <1>5

\* Nothing is counted, and no request is new: the monitor may stop waiting.
Steady ==
    /\ \A p \in Slot : requests'[p] # None =>
        /\ requests[p] # None
        /\ requests'[p].snap = requests[p].snap
        /\ requests'[p].since = requests[p].since
        /\ RequestOK(requests'[p]) /\ LostOnlyToTwo(requests'[p])
        /\ state = None => ~Ends(requests'[p])
    /\ UNCHANGED <<state, observations, applied, last, queue>>
    /\ waiting' \in {waiting, None}
    /\ waiting' # None => requests'[waiting] # None

LEMMA SteadyCore ==
    ASSUME UsageInv, Steady
    PROVE  CoreOK'
<1>1. Known' \subseteq Known
  BY DEF Known, Steady
<1>2. ReadingsOK'
  BY <1>1, ReadingsStay DEF Steady, UsageInv, CoreOK
<1>3. QueueOK'
  BY DEF UsageInv, CoreOK, QueueOK, Latest, Steady
<1>4. WaitingOK'
  <2>1. SUFFICES ASSUME waiting' # None PROVE WaitingOK'
    BY DEF WaitingOK
  <2>2. waiting' = waiting /\ waiting \in Slot
    BY <2>1 DEF Steady, UsageInv, TypeOK
  <2> QED
    BY <2>1, <2>2 DEF UsageInv, CoreOK, WaitingOK, Steady
<1>5. FirstOK'
  BY DEF UsageInv, CoreOK, FirstOK, Steady, Ends
<1>6. CountOK'
  BY DEF UsageInv, CoreOK, CountOK, Steady, Latest, RequestOK, Working, Ends
<1>7. LostOK'
  BY DEF UsageInv, CoreOK, LostOK, Steady, LostOnlyToTwo, Observed, Queued, Ends, Recovers
<1> QED
  BY <1>2, <1>3, <1>4, <1>5, <1>6, <1>7 DEF CoreOK

LEMMA LocalSteady ==
    ASSUME UsageInv, NEW r \in Slot, Local(r)
    PROVE  Steady
<1>1. PICK q \in Request :
        /\ requests' = [requests EXCEPT ![r] = q]
        /\ q.snap = requests[r].snap /\ q.since = requests[r].since
        /\ RequestOK(q) /\ LostOnlyToTwo(q)
        /\ state = None => ~Ends(q)
  BY DEF Local
<1>2. requests \in [Slot -> Request \cup {None}] /\ waiting \in Slot \cup {None}
  BY DEF UsageInv, TypeOK
<1>3. requests[r] # None /\ q # None
  BY NoneIsNoValue DEF Local
<1>4. ASSUME NEW p \in Slot, requests'[p] # None
      PROVE  /\ requests[p] # None
             /\ requests'[p].snap = requests[p].snap
             /\ requests'[p].since = requests[p].since
             /\ RequestOK(requests'[p]) /\ LostOnlyToTwo(requests'[p])
             /\ state = None => ~Ends(requests'[p])
  <2>1. CASE p = r
    BY <1>1, <1>2, <1>3, <2>1
  <2>2. CASE p # r
    BY <1>1, <1>2, <1>4, <2>2, RequestTyped
  <2> QED
    BY <2>1, <2>2
<1>5. waiting # None => requests[waiting] # None
  BY DEF UsageInv, CoreOK, WaitingOK
<1>6. waiting # None => requests'[waiting] # None
  BY <1>1, <1>2, <1>3, <1>5
<1> QED
  BY <1>4, <1>6 DEF Steady, Local, monitor

LEMMA GiveUpSteady ==
    ASSUME UsageInv, GiveUp
    PROVE  Steady
BY RequestTyped DEF GiveUp, Steady, tables

\* The request is over, and the outbox stays as it is.
LEMMA EndSteady ==
    ASSUME UsageInv, NEW r \in Slot, Crash(r) \/ (Answer(r) /\ queue' = queue)
    PROVE  Steady
<1>1. requests \in [Slot -> Request \cup {None}] /\ waiting \in Slot \cup {None}
  BY DEF UsageInv, TypeOK
<1>2. /\ requests' = [requests EXCEPT ![r] = None]
      /\ waiting' = IF waiting = r THEN None ELSE waiting
      /\ UNCHANGED <<state, observations, applied, last, queue>>
  BY DEF Crash, Answer, tables
<1>3. ASSUME NEW p \in Slot, requests'[p] # None
      PROVE  requests'[p] = requests[p]
  BY <1>1, <1>2, <1>3
<1>4. waiting # None => requests[waiting] # None
  BY DEF UsageInv, CoreOK, WaitingOK
<1>5. waiting' # None => requests'[waiting] # None
  BY <1>1, <1>2, <1>4
<1> QED
  BY <1>2, <1>3, <1>5, RequestTyped DEF Steady

\* A request begins: a heartbeat, or the head of the outbox.
LEMMA BeginCore ==
    ASSUME UsageInv, NEW r \in Slot, NEW s \in Snapshot, requests[r] = None,
           requests' = [requests EXCEPT ![r] = NewRequest(s)], waiting' = r,
           UNCHANGED <<state, observations, applied, queue>>,
           ReadingsOK',
           state = None => s.at = 1, last' # None => last # None,
           IF queue = <<>> THEN s.reason = "heartbeat" ELSE s = queue[1]
    PROVE  CoreOK'
<1> DEFINE q == NewRequest(s)
<1>1. /\ q \in Request /\ q.snap = s /\ q.since = Len(applied) /\ q.retry = 0
      /\ q.seen = None /\ q.pc = "state"
  BY NewRequestTyped
<1> HIDE DEF q
<1>2. /\ requests \in [Slot -> Request \cup {None}] /\ queue \in Seq(Snapshot)
      /\ Len(applied) \in Nat
  BY DEF UsageInv, TypeOK
<1>3. /\ requests'[r] = q /\ q # None /\ r # None
      /\ \A p \in Slot : p # r => requests'[p] = requests[p]
  BY <1>1, <1>2, NoneIsNoValue DEF q
<1>4. \A p \in Slot : requests[p] # None => requests[p].since <= Len(applied)
  <2> SUFFICES ASSUME NEW p \in Slot, requests[p] # None
               PROVE  requests[p].since <= Len(applied)
    OBVIOUS
  <2>1. RequestOK(requests[p]) /\ requests[p] \in Request
    BY RequestTyped
  <2> QED
    BY <1>2, <2>1, RequestFields DEF RequestOK
<1>5. queue # <<>> => s = queue[1] /\ s.reason # "heartbeat" /\ 1 \in 1..Len(queue)
  BY <1>2 DEF UsageInv, CoreOK, QueueOK
<1>6. QueueOK'
  <2>1. \A i \in 1..Len(queue) : s.at <= queue[i].at
    <3> SUFFICES ASSUME NEW i \in 1..Len(queue) PROVE s.at <= queue[i].at
      OBVIOUS
    <3>1. queue # <<>> /\ queue[i].at \in Nat /\ s.at \in Nat
      BY <1>2, SnapshotFields
    <3>2. i = 1 \/ 1 < i
      OBVIOUS
    <3>3. 1 < i => queue[1].at < queue[i].at
      BY <1>5, <3>1 DEF UsageInv, CoreOK, QueueOK
    <3> QED
      BY <1>5, <3>1, <3>2, <3>3
  <2> QED
    BY <1>1, <1>3, <2>1 DEF UsageInv, CoreOK, QueueOK, Latest
<1>7. WaitingOK'
  <2>1. \A p \in Slot : requests'[p] # None => requests'[p].since <= q.since
    BY <1>1, <1>2, <1>3, <1>4
  <2>2. s.reason = "heartbeat" => queue = <<>>
    BY <1>5
  <2>3. s.reason # "heartbeat" => queue # <<>> /\ queue[1] = s
    BY <1>5
  <2> QED
    BY <1>1, <1>3, <2>1, <2>2, <2>3 DEF WaitingOK
<1>8. FirstOK'
  BY <1>1, <1>3 DEF UsageInv, CoreOK, FirstOK, Ends
<1>9. RequestOK(q) /\ LostOnlyToTwo(q)
  <2>1. queue = <<>> => ~Recovers(s)
    BY DEF Recovers
  <2>2. queue # <<>> => Queued(s)
    BY <1>5, SnapshotFields DEF Queued
  <2> QED
    BY <1>1, <1>2, <2>1, <2>2 DEF RequestOK, LostOnlyToTwo, Working, Ends
<1>10. CountOK'
  BY <1>3, <1>9 DEF UsageInv, CoreOK, CountOK, RequestOK, Latest, Working, Ends
<1>11. LostOK'
  BY <1>3, <1>9 DEF UsageInv, CoreOK, LostOK, LostOnlyToTwo, Observed, Queued, Ends,
       Recovers
<1> QED
  BY <1>6, <1>7, <1>8, <1>10, <1>11 DEF CoreOK

LEMMA SendCore ==
    ASSUME UsageInv, Send
    PROVE  CoreOK'
<1>1. PICK r \in Slot :
        /\ Free(r) /\ requests' = [requests EXCEPT ![r] = NewRequest(Head(queue))]
        /\ waiting' = r
  BY DEF Send
<1> DEFINE s == Head(queue)
<1>2. queue # <<>> /\ queue \in Seq(Snapshot) /\ UNCHANGED <<tables, queue, last, applied>>
  BY DEF Send, UsageInv, TypeOK
<1>3. s = queue[1] /\ s \in Snapshot /\ 1 \in 1..Len(queue)
  BY <1>2
<1>4. s \in Known
  BY <1>3 DEF Known
<1>5. last # None
  BY <1>4 DEF UsageInv, CoreOK, ReadingsOK
<1>6. requests \in [Slot -> Request \cup {None}] /\ requests[r] = None
  BY <1>1 DEF Free, UsageInv, TypeOK
<1>7. NewRequest(s).snap = s
  BY <1>3, NewRequestTyped
<1>8. Known' \subseteq Known
  BY <1>1, <1>2, <1>4, <1>6, <1>7 DEF Known, tables
<1>9. ReadingsOK'
  BY <1>2, <1>8, ReadingsStay DEF UsageInv, CoreOK
<1>10. state = None => s.at = 1
  BY <1>3, <1>5 DEF UsageInv, CoreOK, FirstOK
<1> QED
  BY <1>1, <1>2, <1>3, <1>5, <1>6, <1>9, <1>10, BeginCore DEF tables

LEMMA HeartbeatCore ==
    ASSUME UsageInv, Heartbeat
    PROVE  CoreOK'
<1>1. PICK s \in Readings, r \in Slot :
        /\ s.reason = "heartbeat" /\ Free(r)
        /\ requests' = [requests EXCEPT ![r] = NewRequest(s)]
        /\ waiting' = r /\ last' = s
  BY DEF Heartbeat
<1>2. queue = <<>> /\ UNCHANGED <<tables, queue, applied>> /\ s \in Snapshot
  BY ReadingsTyped DEF Heartbeat
<1>3. last # None
  BY <1>1 DEF Readings
<1>4. state # None
  BY <1>2, <1>3 DEF UsageInv, CoreOK, FirstOK
<1>5. requests \in [Slot -> Request \cup {None}] /\ requests[r] = None
  BY <1>1 DEF Free, UsageInv, TypeOK
<1>6. NewRequest(s).snap = s
  BY <1>2, NewRequestTyped
<1>7. Known' \subseteq Known \cup {s}
  BY <1>1, <1>2, <1>5, <1>6 DEF Known, tables
<1>8. ReadingsOK'
  BY <1>1, <1>7, ReadingsGrow
<1> QED
  BY <1>1, <1>2, <1>3, <1>4, <1>5, <1>8, BeginCore DEF tables

LEMMA EnqueueCore ==
    ASSUME UsageInv, Enqueue
    PROVE  CoreOK'
<1>1. PICK s \in Readings :
        /\ s.reason # "heartbeat" /\ queue' = Append(queue, s) /\ last' = s
        /\ UNCHANGED <<tables, requests, waiting, applied>>
  BY DEF Enqueue
<1>2. queue \in Seq(Snapshot) /\ s \in Snapshot
  BY ReadingsTyped DEF UsageInv, TypeOK
<1>3. /\ Len(queue) \in Nat /\ Len(queue') = Len(queue) + 1 /\ queue' # <<>>
      /\ \A i \in 1..Len(queue) : queue'[i] = queue[i]
      /\ queue'[Len(queue) + 1] = s
  BY <1>1, <1>2, AppendFacts
<1>4. \A i \in 1..Len(queue') : i \in 1..Len(queue) \/ i = Len(queue) + 1
  BY <1>3
<1>5. Known' \subseteq Known \cup {s}
  BY <1>1, <1>3, <1>4 DEF Known, tables
<1>6. ReadingsOK'
  BY <1>1, <1>5, ReadingsGrow
<1>7. \A i \in 1..Len(queue) : queue[i].at < s.at
  BY Younger DEF Known
<1>8. \A p \in Slot : requests[p] # None => requests[p].snap.at < s.at
  BY Younger DEF Known
<1>9. Latest < s.at /\ Latest' = Latest
  BY <1>1, <1>2, Younger, SnapshotFields DEF Latest, tables
<1>10. QueueOK'
  <2>1. \A i, j \in 1..Len(queue') : i < j => queue'[i].at < queue'[j].at
    BY <1>3, <1>4, <1>7 DEF UsageInv, CoreOK, QueueOK
  <2>2. Latest \in Nat /\ s.at \in Nat /\ \A p \in Slot : requests[p] # None => requests[p].snap.at \in Nat
    BY <1>2, LatestNat, RequestTyped, RequestFields, SnapshotFields DEF UsageInv
  <2>3. ASSUME NEW i \in 1..Len(queue')
        PROVE  /\ \A r \in Slot : requests'[r] # None => requests'[r].snap.at <= queue'[i].at
               /\ Latest' <= queue'[i].at /\ queue'[i].reason # "heartbeat"
    <3>1. CASE i \in 1..Len(queue)
      BY <1>1, <1>3, <1>9, <3>1 DEF UsageInv, CoreOK, QueueOK
    <3>2. CASE i = Len(queue) + 1
      BY <1>1, <1>3, <1>8, <1>9, <2>2, <3>2
    <3> QED
      BY <1>4, <3>1, <3>2
  <2> QED
    BY <2>1, <2>3 DEF QueueOK
<1>11. queue # <<>> => queue'[1] = queue[1]
  BY <1>2, <1>3
<1>12. WaitingOK'
  <2>1. waiting # None => requests[waiting].snap.reason # "heartbeat"
    BY DEF Enqueue
  <2> QED
    BY <1>1, <1>3, <1>11, <2>1 DEF UsageInv, CoreOK, WaitingOK
<1>13. FirstOK'
  <2>1. CASE last = None
    <3>1. s.at = 1
      BY <2>1 DEF Readings
    <3>2. queue = <<>> /\ \A p \in Slot : requests[p] = None
      BY <2>1, Younger
    <3>3. queue'[1] = s
      BY <1>3, <3>2
    <3> QED
      BY <1>1, <1>3, <3>1, <3>2, <3>3 DEF FirstOK
  <2>2. CASE last # None
    BY <1>1, <1>3, <1>11, <2>2 DEF UsageInv, CoreOK, FirstOK, tables, Ends
  <2> QED
    BY <2>1, <2>2
<1>14. CountOK'
  BY <1>1, <1>9 DEF UsageInv, CoreOK, CountOK, RequestOK, Latest, Working, Ends, tables
<1>15. LostOK'
  <2>1. \A t : Queued(t) => Queued(t)'
    BY <1>3, <1>11 DEF Queued
  <2> QED
    BY <1>1, <2>1 DEF UsageInv, CoreOK, LostOK, LostOnlyToTwo, Observed, Ends, Recovers, tables
<1> QED
  BY <1>6, <1>10, <1>12, <1>13, <1>14, <1>15 DEF CoreOK

\* The head of the outbox is acknowledged.
LEMMA AckCore ==
    ASSUME UsageInv, NEW r \in Slot, Answer(r), queue' # queue
    PROVE  CoreOK'
<1> DEFINE s == requests[r].snap
<1>1. /\ requests \in [Slot -> Request \cup {None}] /\ waiting \in Slot \cup {None}
      /\ queue \in Seq(Snapshot)
  BY DEF UsageInv, TypeOK
<1>2. /\ requests[r] # None /\ requests[r].pc = "accepted" /\ waiting = r
      /\ s.reason # "heartbeat"
      /\ requests' = [requests EXCEPT ![r] = None] /\ waiting' = None
      /\ queue' = Tail(queue)
      /\ UNCHANGED <<state, observations, applied, last>>
  BY DEF Answer, tables
<1>3. r # None /\ Ends(requests[r])
  BY <1>2, NoneIsNoValue DEF Ends
<1>4. queue # <<>> /\ queue[1] = s
  BY <1>2, <1>3 DEF UsageInv, CoreOK, WaitingOK
<1>5. /\ queue' \in Seq(Snapshot) /\ Len(queue) \in Nat \ {0}
      /\ Len(queue') = Len(queue) - 1
      /\ \A i \in 1..Len(queue') : i + 1 \in 1..Len(queue) /\ queue'[i] = queue[i + 1]
  BY <1>1, <1>2, <1>4, TailFacts
<1>6. \A p \in Slot : requests'[p] # None => requests'[p] = requests[p] /\ requests[p] # None
  BY <1>1, <1>2
<1>7. Known' \subseteq Known
  <2>1. \A i \in 1..Len(queue') : queue'[i] \in Known
    BY <1>5 DEF Known
  <2>2. \A p \in Slot : requests'[p] # None => requests'[p].snap \in Known
    BY <1>6 DEF Known
  <2> QED
    BY <1>2, <2>1, <2>2 DEF Known
<1>8. ReadingsOK'
  BY <1>2, <1>7, ReadingsStay DEF UsageInv, CoreOK
<1>9. QueueOK'
  <2>1. \A i, j \in 1..Len(queue') : i < j => queue'[i].at < queue'[j].at
    <3> SUFFICES ASSUME NEW i \in 1..Len(queue'), NEW j \in 1..Len(queue'), i < j
                 PROVE  queue'[i].at < queue'[j].at
      OBVIOUS
    <3>1. i + 1 \in 1..Len(queue) /\ j + 1 \in 1..Len(queue) /\ i + 1 < j + 1
      BY <1>5
    <3> QED
      BY <1>5, <3>1 DEF UsageInv, CoreOK, QueueOK
  <2> QED
    BY <1>2, <1>5, <1>6, <2>1 DEF UsageInv, CoreOK, QueueOK, Latest
<1>10. WaitingOK'
  BY <1>2 DEF WaitingOK
<1>11. state # None
  BY <1>2, <1>3, RequestTyped
<1>12. FirstOK'
  BY <1>2, <1>11 DEF FirstOK
<1>13. CountOK'
  BY <1>2, <1>6 DEF UsageInv, CoreOK, CountOK, RequestOK, Latest, Working, Ends
<1>14. LostOK'
  <2>1. ASSUME NEW p \in Slot, requests'[p] # None
        PROVE  LostOnlyToTwo(requests[p])'
    <3> DEFINE t == requests[p].snap
    <3>1. requests'[p] = requests[p] /\ requests[p] # None
      BY <1>6, <2>1
    <3>2. SUFFICES ASSUME Recovers(t), ~Observed(t)
                   PROVE  requests[p].since + 2 <= Len(applied)
      BY <1>2, <3>1 DEF LostOnlyToTwo, Observed, Recovers
    <3>3. /\ LostOnlyToTwo(requests[p]) /\ LostOnlyToTwo(requests[r])
          /\ t \in Known /\ s \in Known /\ requests[p] \in Request
          /\ requests[r] \in Request
      BY <1>2, <3>1, RequestTyped
    <3>4. CASE ~Queued(t)
      BY <3>2, <3>3, <3>4 DEF LostOnlyToTwo
    <3>5. CASE Queued(t)
      <4>1. queue[1].at <= t.at /\ t.at <= queue[1].at
        BY <1>5, <3>1, <3>5 DEF Queued, UsageInv, CoreOK, QueueOK
      <4>2. t.at \in Nat /\ s.at \in Nat
        BY <3>3, RequestFields, SnapshotFields
      <4>3. t = s
        BY <1>4, <3>3, <4>1, <4>2 DEF UsageInv, CoreOK, ReadingsOK, Precedes
      <4>4. requests[r].since + 2 <= Len(applied)
        BY <1>3, <3>2, <3>3, <4>3 DEF LostOnlyToTwo
      <4>5. requests[p].since <= requests[r].since
        BY <1>2, <1>3, <3>1 DEF UsageInv, CoreOK, WaitingOK
      <4>6. requests[p].since \in Nat /\ requests[r].since \in Nat /\ Len(applied) \in Nat
        BY <3>3, RequestFields DEF UsageInv, TypeOK
      <4> QED
        BY <4>4, <4>5, <4>6
    <3> QED
      BY <3>4, <3>5
  <2> QED
    BY <1>2, <2>1 DEF UsageInv, CoreOK, LostOK, Observed, Recovers
<1> QED
  BY <1>8, <1>9, <1>10, <1>12, <1>13, <1>14 DEF CoreOK

\* What a request that writes knows of the state it was compared with.
LEMMA ApplyFacts ==
    ASSUME UsageInv, NEW r \in Slot, Apply(r)
    PROVE  /\ requests[r] # None /\ requests[r] \in Request
           /\ requests[r].snap \in Snapshot /\ requests[r].snap \in Known
           /\ state = requests[r].seen /\ state' = requests[r].snap
           /\ applied' = Append(applied, requests[r].snap)
           /\ Latest < requests[r].snap.at
           /\ Recovers(requests[r].snap) => Recovery(state, requests[r].snap)
           /\ UNCHANGED <<queue, waiting, last, accepted>>
<1> DEFINE q == requests[r]
           s == q.snap
<1>1. /\ q # None /\ q.pc = "write" /\ state = q.seen /\ state' = s
      /\ applied' = Append(applied, s) /\ UNCHANGED <<queue, waiting, last, accepted>>
  BY DEF Apply, Overtaken, monitor
<1>2. q \in Request /\ RequestOK(q) /\ s \in Known /\ (state = None => ~Ends(q))
  BY <1>1, RequestTyped
<1>3. s \in Snapshot /\ s.at \in Nat /\ 1 <= s.at
  BY <1>2, RequestFields, SnapshotFields
<1>4. last # None /\ (s.at = 1 => s.reason = "initial")
  BY <1>2 DEF UsageInv, CoreOK, ReadingsOK
<1>5. state = None => s.at = 1
  BY <1>1, <1>4 DEF UsageInv, CoreOK, FirstOK
<1>6. state # None => state.at < s.at
  BY <1>1, <1>2 DEF RequestOK, Working
<1>7. Latest < s.at
  BY <1>3, <1>6 DEF Latest
<1>8. ASSUME Recovers(s) PROVE Recovery(state, s)
  <2>1. state # None
    BY <1>4, <1>5, <1>8 DEF Recovers
  <2>2. state \in Known /\ state \in Snapshot
    BY <2>1 DEF Known, UsageInv, TypeOK
  <2>3. Precedes(state, s)
    BY <1>2, <2>2 DEF UsageInv, CoreOK, ReadingsOK
  <2>4. state.cycle < s.cycle /\ state.cycle \in Nat /\ s.cycle \in Nat
    BY <1>3, <1>6, <1>8, <2>1, <2>2, <2>3, SnapshotFields DEF Precedes
  <2> QED
    BY <1>8, <2>1, <2>4 DEF Recovery, Recovers
<1> QED
  BY <1>1, <1>2, <1>3, <1>7, <1>8

LEMMA ApplyCore ==
    ASSUME UsageInv, NEW r \in Slot, Apply(r)
    PROVE  CoreOK'
<1> DEFINE q == requests[r]
           s == q.snap
           next == IF MakesEvent(q) /\ q.promote THEN "claim" ELSE "accepted"
           n == [q EXCEPT !.pc = next]
<1>1. /\ q # None /\ q \in Request /\ s \in Snapshot /\ s \in Known
      /\ state = q.seen /\ state' = s /\ applied' = Append(applied, s)
      /\ Latest < s.at /\ (Recovers(s) => Recovery(state, s))
      /\ UNCHANGED <<queue, waiting, last>>
  BY ApplyFacts
<1>2. /\ requests \in [Slot -> Request \cup {None}] /\ applied \in Seq(Snapshot)
      /\ waiting \in Slot \cup {None}
  BY DEF UsageInv, TypeOK
<1>3. Len(applied) \in Nat /\ Len(applied') = Len(applied) + 1
  BY <1>1, <1>2, AppendFacts
<1>4. requests' = [requests EXCEPT ![r] = n]
  BY <1>2 DEF Apply, Goto
<1>5. /\ n \in Request /\ n.snap = s /\ n.since = q.since /\ n.retry = q.retry
      /\ n.seen = q.seen /\ n.pc = next
  BY <1>1 DEF Request
<1>6. Ends(n) /\ ~Working(n)
  BY <1>5 DEF Ends, Working
<1> HIDE DEF n, next
<1>7. s # None /\ n # None
  BY <1>1, <1>5, NoneIsNoValue
<1>8. Latest' = s.at /\ s.at \in Nat /\ Latest \in Nat
  BY <1>1, <1>7, SnapshotFields, LatestNat DEF Latest, UsageInv
<1>9. \A p \in Slot : p # r => requests'[p] = requests[p]
  BY <1>2, <1>4
<1>10. requests'[r] = n
  BY <1>2, <1>4
<1>11. Known' \subseteq Known
  BY <1>1, <1>5, <1>9, <1>10 DEF Known
<1>12. ReadingsOK'
  BY <1>1, <1>11, ReadingsStay DEF UsageInv, CoreOK
<1>13. QueueOK'
  BY <1>1, <1>5, <1>8, <1>9, <1>10 DEF UsageInv, CoreOK, QueueOK
<1>14. WaitingOK'
  <2> SUFFICES ASSUME waiting # None PROVE WaitingOK'
    BY <1>1 DEF WaitingOK
  <2>1. /\ requests'[waiting] # None /\ requests'[waiting].snap = requests[waiting].snap
        /\ requests'[waiting].since = requests[waiting].since
    BY <1>2, <1>5, <1>7, <1>9, <1>10 DEF UsageInv, CoreOK, WaitingOK
  <2>2. \A p \in Slot : requests'[p] # None =>
          requests[p] # None /\ requests'[p].since = requests[p].since
    BY <1>1, <1>5, <1>9, <1>10
  <2> QED
    BY <1>1, <2>1, <2>2 DEF UsageInv, CoreOK, WaitingOK
<1>15. FirstOK'
  BY <1>1, <1>7 DEF FirstOK
<1>16. ASSUME NEW p \in Slot, p # r, requests[p] # None
       PROVE  RequestOK(requests[p])'
  <2>1. RequestOK(requests[p]) /\ requests[p] \in Request /\ requests'[p] = requests[p]
    BY <1>9, <1>16, RequestTyped
  <2>2. requests[p].since \in Nat /\ requests[p].retry \in Nat
        /\ requests[p].snap.at \in Nat
    BY <2>1, RequestFields, SnapshotFields
  <2>3. Ends(requests[p]) => \/ requests[p].snap.at <= Latest'
                             \/ requests[p].since + 2 <= Len(applied')
    BY <1>1, <1>3, <1>8, <2>1, <2>2 DEF RequestOK
  <2>4. requests[p].seen # None => requests[p].seen.at <= Latest'
    BY <1>1, <1>8, <2>1, RequestFields, SnapshotFields DEF RequestOK
  <2> QED
    BY <1>1, <1>3, <1>7, <2>1, <2>2, <2>3, <2>4 DEF RequestOK, Working, Ends
<1>17. RequestOK(requests[r])'
  <2>1. RequestOK(q) /\ q.since \in Nat /\ q.retry \in Nat
    BY <1>1, RequestTyped, RequestFields
  <2>2. q.seen # None => q.seen.at <= Latest'
    BY <1>1, <1>8, <2>1, RequestFields, SnapshotFields DEF RequestOK
  <2>3. q.since + q.retry <= Len(applied')
    BY <1>3, <2>1 DEF RequestOK
  <2>4. s.at <= Latest' /\ state' # None
    BY <1>1, <1>7, <1>8
  <2> HIDE DEF q, s
  <2> QED
    BY <1>5, <1>6, <1>10, <2>2, <2>3, <2>4 DEF RequestOK, Working, Ends
<1>18. CountOK'
  <2>1. Len(applied') <= Latest'
    BY <1>1, <1>3, <1>8 DEF UsageInv, CoreOK, CountOK
  <2> QED
    BY <1>1, <1>9, <1>10, <1>16, <1>17, <2>1 DEF CountOK
<1>19. LostOK'
  <2>1. \A o \in observations : o \in observations'
    BY DEF Apply
  <2>2. Recovers(s) => \E o \in observations' : o.at = s.at
    <3> SUFFICES ASSUME Recovers(s) PROVE \E o \in observations' : o.at = s.at
      OBVIOUS
    <3>1. PlannedObservation(q) \in observations'
      BY <1>1 DEF Apply
    <3>2. PlannedObservation(q).at = s.at
      BY DEF PlannedObservation
    <3> QED
      BY <3>1, <3>2
  <2>3. ASSUME NEW p \in Slot, p # r, requests[p] # None
        PROVE  LostOnlyToTwo(requests[p])'
    <3>1. LostOnlyToTwo(requests[p]) /\ requests[p] \in Request /\ requests'[p] = requests[p]
      BY <1>9, <2>3, RequestTyped
    <3>2. requests[p].since \in Nat
      BY <3>1, RequestFields
    <3>3. ~Observed(requests[p].snap)' => ~Observed(requests[p].snap)
      BY <2>1, <3>1 DEF Observed
    <3> QED
      BY <1>1, <1>3, <3>1, <3>2, <3>3 DEF LostOnlyToTwo, Queued, Ends, Recovers
  <2>4. LostOnlyToTwo(requests[r])'
    BY <1>5, <1>10, <2>2 DEF LostOnlyToTwo, Observed, Recovers
  <2>5. Recovers(state)' => Observed(state)'
    BY <1>1, <2>2 DEF Recovers, Observed
  <2> QED
    BY <1>1, <1>9, <2>3, <2>4, <2>5 DEF LostOK
<1> QED
  BY <1>12, <1>13, <1>14, <1>15, <1>18, <1>19 DEF CoreOK

\* Every step of the usage webhook and its monitor keeps the invariant.
LEMMA UsageCore ==
    ASSUME UsageInv, UsageNext
    PROVE  CoreOK'
<1>1. CASE Enqueue \/ Heartbeat \/ Send
  BY <1>1, EnqueueCore, HeartbeatCore, SendCore
<1>2. CASE GiveUp
  BY <1>2, GiveUpSteady, SteadyCore
<1>3. ASSUME NEW r \in Slot, Serve(r) \/ Fails(r) PROVE CoreOK'
  <2>1. CASE \/ ReadState(r) \/ LookupNotice(r) \/ LookupMatch(r) \/ WriteStale(r)
             \/ Claim(r) \/ LookupFails(r) \/ WriteFails(r) \/ ClaimFails(r)
    <3>1. Local(r)
      BY <2>1, ReadStateLocal, LookupLocal, WriteStaleLocal, ClaimLocal, WriteFailsLocal
    <3> QED
      BY <3>1, LocalSteady, SteadyCore
  <2>2. CASE Apply(r)
    BY <2>2, ApplyCore
  <2>3. CASE Crash(r) \/ Answer(r)
    BY <2>3, EndSteady, SteadyCore, AckCore
  <2> QED
    BY <1>3, <2>1, <2>2, <2>3 DEF Serve, Fails
<1> QED
  BY <1>1, <1>2, <1>3 DEF UsageNext

----------------------------------------------------------------------------
(* What the server works out, typed.                                       *)

LEMMA KeyParts ==
    /\ \A t \in Tweet : <<"tibo-reset", t>> \in Key
    /\ \A n \in Time \cup {Pending} : <<"usage-reset", n>> \in Key
    /\ \A k \in Key : /\ k[1] \in {"usage-reset", "tibo-reset"}
                      /\ k[1] = "tibo-reset" => k[2] \in Tweet /\ k = <<"tibo-reset", k[2]>>
BY DEF Key

LEMMA PlannedKeyTyped ==
    ASSUME NEW q \in Request
    PROVE  PlannedKey(q) \in Key
<1>1. q.snap.at \in Time /\ Pending \in Time \cup {Pending}
  BY RequestFields DEF Snapshot
<1> QED
  BY <1>1, KeyParts, RequestFields DEF PlannedKey

LEMMA RepresentativeTyped ==
    ASSUME NEW c \in SUBSET Tweet
    PROVE  Representative(c) \in c \cup {None}
BY DEF Representative

LEMMA PlannedEstimateTyped ==
    ASSUME NEW q \in Request
    PROVE  /\ PlannedEstimate(q) \in Estimate
           /\ PlannedEstimate(q).key = PlannedKey(q)
           /\ PlannedEstimate(q).obs = q.snap.at
<1> DEFINE k == PlannedKey(q)
           own == IF k[1] = "tibo-reset" THEN k[2] ELSE None
           notice == IF own = q.notice THEN q.notice ELSE Representative(q.cluster)
           tweets == IF own = None THEN {} ELSE {own} \cup q.cluster
           primary == IF notice # None THEN notice ELSE own
           mon == k[1] = "usage-reset"
<1>1. k \in Key
  BY PlannedKeyTyped
<1>2. own \in Tweet \cup {None}
  BY <1>1, KeyParts
<1>3. q.cluster \in SUBSET Tweet /\ q.notice \in Tweet \cup {None} /\ q.snap.at \in Time
  BY RequestFields DEF Snapshot
<1>4. notice \in Tweet \cup {None}
  BY <1>3, RepresentativeTyped
<1> HIDE DEF k, own, notice
<1>5. tweets \in SUBSET Tweet /\ primary \in Tweet \cup {None} /\ mon \in BOOLEAN
  BY <1>2, <1>3, <1>4
<1> HIDE DEF tweets, primary, mon
<1>6. PlannedEstimate(q) = [key |-> k, obs |-> q.snap.at, tweets |-> tweets,
                            primary |-> primary, notice |-> notice, monitor |-> mon]
  BY DEF PlannedEstimate, k, own, notice, tweets, primary, mon
<1>7. PlannedEstimate(q) \in Estimate
  BY <1>1, <1>3, <1>4, <1>5, <1>6 DEF Estimate
<1> QED
  BY <1>6, <1>7 DEF k

\* What is merged into the estimates is one of them, under another one's key
\* and time or under its own.
LEMMA MergeShape ==
    ASSUME NEW e
    PROVE  \/ MergeEstimate(e) = estimates \cup {e}
              /\ \A o \in estimates : o.key # e.key /\ o.obs # e.obs
           \/ \E o \in estimates :
                /\ o.key = e.key \/ (o.obs = e.obs /\ \A x \in estimates : x.key # e.key)
                /\ MergeEstimate(e) = (estimates \ {o}) \cup
                     {[key |-> o.key, obs |-> o.obs,
                       tweets |-> o.tweets \cup e.tweets,
                       primary |-> IF e.primary # None THEN e.primary ELSE o.primary,
                       notice |-> IF e.notice # None THEN e.notice ELSE o.notice,
                       monitor |-> e.monitor]}
<1> DEFINE same == {o \in estimates : o.key = e.key}
           old == IF same # {} THEN same ELSE {o \in estimates : o.obs = e.obs}
<1>1. CASE old = {}
  BY <1>1 DEF MergeEstimate
<1>2. CASE old # {}
  <2> DEFINE o == CHOOSE o \in old : TRUE
  <2>1. o \in old
    BY <1>2
  <2>2. /\ o \in estimates
        /\ o.key = e.key \/ (o.obs = e.obs /\ \A x \in estimates : x.key # e.key)
    BY <2>1
  <2>3. MergeEstimate(e) = (estimates \ {o}) \cup
            {[key |-> o.key, obs |-> o.obs,
              tweets |-> o.tweets \cup e.tweets,
              primary |-> IF e.primary # None THEN e.primary ELSE o.primary,
              notice |-> IF e.notice # None THEN e.notice ELSE o.notice,
              monitor |-> e.monitor]}
    BY <1>2 DEF MergeEstimate
  <2> HIDE DEF o
  <2> QED
    BY <2>2, <2>3
<1> QED
  BY <1>1, <1>2

LEMMA MergeTyped ==
    ASSUME NEW e \in Estimate, estimates \subseteq Estimate
    PROVE  MergeEstimate(e) \subseteq Estimate
<1>1. ASSUME NEW o \in estimates
      PROVE  [key |-> o.key, obs |-> o.obs,
              tweets |-> o.tweets \cup e.tweets,
              primary |-> IF e.primary # None THEN e.primary ELSE o.primary,
              notice |-> IF e.notice # None THEN e.notice ELSE o.notice,
              monitor |-> e.monitor] \in Estimate
  <2>1. o \in Estimate
    OBVIOUS
  <2> QED
    BY <2>1 DEF Estimate
<1> QED
  BY <1>1, MergeShape

LEMMA ClaimTyped ==
    ASSUME TypeOK, NEW t, NEW k \in Key
    PROVE  ClaimOutcome(t, k) \in [Tweet -> Key \cup {None}]
BY DEF ClaimOutcome, TypeOK

LEMMA ApplyTyped ==
    ASSUME UsageInv, NEW r \in Slot, Apply(r)
    PROVE  TypeOK'
<1> DEFINE q == requests[r]
           s == q.snap
<1>1. /\ q # None /\ q \in Request /\ s \in Snapshot
      /\ state = q.seen /\ state' = s /\ applied' = Append(applied, s)
      /\ UNCHANGED <<queue, waiting, last, accepted>>
  BY ApplyFacts
<1>2. TypeOK /\ UNCHANGED <<ledger, faults>>
  BY DEF UsageInv, Apply
<1>3. ASSUME s.reason = "recovery_candidate" \/ Grant(state, s), state # None
      PROVE  state \in Snapshot /\ state.at \in Time /\ s.at \in Time
             /\ state.banked \in Nat /\ s.banked \in Nat /\ s.banked <= MaxGrants
  BY <1>1, <1>2, <1>3, SnapshotFields DEF TypeOK, Snapshot
<1>4. requests' \in [Slot -> Request \cup {None}]
  <2> DEFINE next == IF MakesEvent(q) /\ q.promote THEN "claim" ELSE "accepted"
  <2>1. requests' = [requests EXCEPT ![r] = [q EXCEPT !.pc = next]]
    BY <1>2 DEF Apply, Goto, TypeOK
  <2>2. next \in {"claim", "accepted"}
    OBVIOUS
  <2> HIDE DEF next
  <2>3. [q EXCEPT !.pc = next] \in Request
    BY <1>1, <2>2 DEF Request
  <2> QED
    BY <1>2, <2>1, <2>3 DEF TypeOK
<1>5. applied' \in Seq(Snapshot)
  BY <1>1, <1>2, AppendFacts DEF TypeOK
<1>6. signals' \in [Tweet -> SignalType]
  BY <1>2 DEF Apply, TypeOK, SignalType
<1>7. observations' \subseteq Observation
  <2>1. ASSUME Recovery(q.seen, s) PROVE PlannedObservation(q) \in Observation
    <3>1. state # None /\ s.reason = "recovery_candidate"
      BY <1>1, <2>1 DEF Recovery
    <3>2. q.seen.at \in Time /\ s.at \in Time
      BY <1>1, <1>3, <3>1
    <3>3. q.match \in Tweet \cup {None} /\ q.blind \in BOOLEAN /\ q.spent \in BOOLEAN
      BY <1>1 DEF Request
    <3> QED
      BY <3>2, <3>3 DEF PlannedObservation, Observation
  <2> QED
    BY <1>2, <2>1 DEF Apply, TypeOK
<1>8. estimates' \subseteq Estimate
  BY <1>1, <1>2, PlannedEstimateTyped, MergeTyped DEF Apply, TypeOK
<1>9. grants' \subseteq [from: Time, to: Time, count: 1..MaxGrants]
  <2>1. ASSUME Grant(q.seen, s)
        PROVE  PlannedGrant(q) \in [from: Time, to: Time, count: 1..MaxGrants]
    <3>1. state # None /\ s.banked > state.banked
      BY <1>1, <2>1 DEF Grant
    <3>2. /\ state.at \in Time /\ s.at \in Time /\ state.banked \in Nat
          /\ s.banked \in Nat /\ s.banked <= MaxGrants
      BY <1>1, <1>3, <2>1, <3>1
    <3>3. s.banked - state.banked \in 1..MaxGrants
      BY <3>1, <3>2, BoundsAssumption
    <3> QED
      BY <1>1, <3>2, <3>3 DEF PlannedGrant
  <2> QED
    BY <1>2, <2>1 DEF Apply, TypeOK
<1> QED
  BY <1>1, <1>2, <1>4, <1>5, <1>6, <1>7, <1>8, <1>9 DEF TypeOK

LEMMA FaultTyped == TypeOK /\ Fault => faults' \in 0..MaxFaults
BY BoundsAssumption DEF TypeOK, Fault

LEMMA LocalTyped ==
    ASSUME UsageInv, NEW r \in Slot, Local(r),
           UNCHANGED <<signals, estimates>>,
           ledger' \in [Tweet -> Key \cup {None}], faults' \in 0..MaxFaults
    PROVE  TypeOK'
<1>1. requests' \in [Slot -> Request \cup {None}]
  BY DEF Local, UsageInv, TypeOK
<1> QED
  BY <1>1 DEF Local, UsageInv, TypeOK, monitor

LEMMA UsageTyped ==
    ASSUME UsageInv, UsageNext
    PROVE  TypeOK'
<1> TypeOK
  BY DEF UsageInv
<1>1. CASE Enqueue
  <2>1. PICK s \in Readings : queue' = Append(queue, s) /\ last' = s
    BY <1>1 DEF Enqueue
  <2>2. s \in Snapshot
    BY ReadingsTyped
  <2>3. queue' \in Seq(Snapshot)
    BY <2>1, <2>2, AppendFacts DEF TypeOK
  <2> QED
    BY <1>1, <2>1, <2>2, <2>3 DEF Enqueue, TypeOK, tables
<1>2. CASE Heartbeat
  <2>1. PICK s \in Readings, r \in Slot :
          /\ requests' = [requests EXCEPT ![r] = NewRequest(s)]
          /\ waiting' = r /\ last' = s
    BY <1>2 DEF Heartbeat
  <2>2. s \in Snapshot /\ NewRequest(s) \in Request
    BY ReadingsTyped, NewRequestTyped
  <2> QED
    BY <1>2, <2>1, <2>2 DEF Heartbeat, TypeOK, tables
<1>3. CASE Send
  <2>1. PICK r \in Slot :
          /\ requests' = [requests EXCEPT ![r] = NewRequest(Head(queue))]
          /\ waiting' = r
    BY <1>3 DEF Send
  <2>2. Head(queue) \in Snapshot
    BY <1>3 DEF Send, TypeOK
  <2>3. NewRequest(Head(queue)) \in Request
    BY <2>2, NewRequestTyped
  <2> QED
    BY <1>3, <2>1, <2>3 DEF Send, TypeOK, tables
<1>4. CASE GiveUp
  BY <1>4, FaultTyped DEF GiveUp, TypeOK, tables
<1>5. ASSUME NEW r \in Slot, Serve(r) \/ Fails(r) PROVE TypeOK'
  <2>1. CASE \/ ReadState(r) \/ LookupNotice(r) \/ LookupMatch(r) \/ WriteStale(r)
             \/ LookupFails(r) \/ WriteFails(r) \/ ClaimFails(r)
    <3>1. Local(r)
      BY <2>1, ReadStateLocal, LookupLocal, WriteStaleLocal, ClaimLocal, WriteFailsLocal
    <3>2. UNCHANGED <<signals, estimates, ledger>>
      BY <2>1 DEF ReadState, LookupNotice, LookupMatch, WriteStale, LookupFails,
           WriteFails, ClaimFails, tables
    <3>3. faults' = faults \/ Fault
      BY <2>1 DEF ReadState, LookupNotice, LookupMatch, WriteStale, LookupFails,
           WriteFails, ClaimFails
    <3> QED
      BY <3>1, <3>2, <3>3, FaultTyped, LocalTyped DEF TypeOK
  <2>2. CASE Claim(r)
    <3>1. Local(r) /\ UNCHANGED <<signals, estimates, faults>>
      BY <2>2, ClaimLocal DEF Claim
    <3>2. requests[r] \in Request
      BY <2>2, RequestTyped DEF Claim
    <3>3. ledger' \in [Tweet -> Key \cup {None}]
      BY <2>2, <3>2, PlannedEstimateTyped, PlannedKeyTyped, ClaimTyped DEF Claim
    <3> QED
      BY <3>1, <3>3, LocalTyped DEF TypeOK
  <2>3. CASE Apply(r)
    BY <2>3, ApplyTyped
  <2>4. CASE Crash(r)
    BY <2>4, FaultTyped DEF Crash, TypeOK, tables
  <2>5. CASE Answer(r) /\ UNCHANGED <<queue, accepted>>
    BY <2>5 DEF Answer, TypeOK, tables
  <2>6. CASE Answer(r) /\ ~UNCHANGED <<queue, accepted>>
    <3>1. /\ queue' = Tail(queue) /\ accepted' = Append(accepted, requests[r].snap)
          /\ waiting = r /\ requests[r] # None /\ requests[r].snap.reason # "heartbeat"
      BY <2>6 DEF Answer
    <3>2. queue # <<>> /\ requests[r].snap \in Snapshot
      BY <3>1, RequestTyped, RequestFields, NoneIsNoValue
         DEF UsageInv, CoreOK, WaitingOK
    <3>3. queue' \in Seq(Snapshot) /\ accepted' \in Seq(Snapshot)
      BY <3>1, <3>2, TailFacts, AppendFacts DEF TypeOK
    <3> QED
      BY <2>6, <3>3 DEF Answer, TypeOK, tables
  <2> QED
    BY <1>5, <2>1, <2>2, <2>3, <2>4, <2>5, <2>6 DEF Serve, Fails
<1> QED
  BY <1>1, <1>2, <1>3, <1>4, <1>5 DEF UsageNext

LEMMA UsageInit == Init => UsageInv
<1> SUFFICES ASSUME Init PROVE UsageInv
  OBVIOUS
<1>1. TypeOK
  <2>1. <<>> \in Seq(Snapshot) /\ 0 \in 0..MaxFaults
    BY BoundsAssumption
  <2> QED
    BY <2>1 DEF Init, TypeOK, SignalType
<1>2. Len(queue) = 0 /\ Len(applied) = 0 /\ Known = {}
  BY DEF Init, Known
<1>3. CoreOK
  BY <1>2 DEF Init, CoreOK, ReadingsOK, QueueOK, WaitingOK, FirstOK, CountOK, LostOK, Latest
<1> QED
  BY <1>1, <1>3 DEF UsageInv

\* A post that is stored decides nothing here.
LEMMA PostCore ==
    ASSUME UsageInv, NEW t \in Tweet, NEW type \in SignalType, PostStored(t, type)
    PROVE  UsageInv'
<1>1. TypeOK'
  BY DEF UsageInv, TypeOK, PostStored, monitor
<1>2. CoreOK'
  BY DEF UsageInv, CoreOK, ReadingsOK, QueueOK, WaitingOK, FirstOK, CountOK, LostOK,
     Latest, Known, PostStored, monitor, RequestOK, LostOnlyToTwo, Observed, Queued,
     Ends, Working, Recovers, Precedes
<1> QED
  BY <1>1, <1>2 DEF UsageInv

LEMMA UsageStays == UsageInv /\ UNCHANGED vars => UsageInv'
BY DEF UsageInv, TypeOK, CoreOK, ReadingsOK, QueueOK, WaitingOK, FirstOK, CountOK, LostOK,
   Latest, Known, vars, tables, monitor, RequestOK, LostOnlyToTwo, Observed, Queued,
   Ends, Working, Recovers, Precedes

\* The outbox, the requests and the counted snapshots stand to each other as
\* UsageInv says, whatever posts are stored meanwhile.
THEOREM UsageInvariant == Spec => []UsageInv
<1>1. UsageInv /\ [Next]_vars => UsageInv'
  <2> SUFFICES ASSUME UsageInv, [Next]_vars PROVE UsageInv'
    OBVIOUS
  <2>1. CASE UsageNext
    BY <2>1, UsageTyped, UsageCore DEF UsageInv
  <2>2. CASE \E t \in Tweet, type \in SignalType : PostStored(t, type)
    BY <2>2, PostCore
  <2>3. CASE UNCHANGED vars
    BY <2>3, UsageStays
  <2> QED
    BY <2>1, <2>2, <2>3 DEF Next, UsageNext
<1> QED
  BY <1>1, UsageInit, PTL DEF Spec

\* The tables of the usage webhook, its requests and the monitor's outbox keep
\* their types.
THEOREM UsageTypeCorrect == Spec => []TypeOK
<1>1. UsageInv => TypeOK
  BY DEF UsageInv
<1> QED
  BY <1>1, UsageInvariant, PTL

\* A recovery that was accepted is out of the outbox, see LostOnlyToTwo.
LEMMA LostFollows == UsageInv => RecoveryLostOnlyToTwo
<1> SUFFICES ASSUME UsageInv, NEW r \in Slot, requests[r] # None,
                    requests[r].pc = "accepted",
                    requests[r].snap.reason = "recovery_candidate",
                    \A o \in observations : o.at # requests[r].snap.at
             PROVE  Len(applied) - requests[r].since >= 2
  BY DEF RecoveryLostOnlyToTwo
<1>1. requests[r] \in Request /\ LostOnlyToTwo(requests[r])
  BY RequestTyped
<1>2. requests[r].since + 2 <= Len(applied)
  BY <1>1 DEF LostOnlyToTwo, Recovers, Observed, Ends
<1>3. requests[r].since \in Nat /\ Len(applied) \in Nat
  BY <1>1, RequestFields DEF UsageInv, TypeOK
<1> QED
  BY <1>2, <1>3

\* A recovery goes unobserved only if two snapshots were counted while the
\* server worked on its request (WriteStale starts over after the first).
THEOREM LostOnlyToTwoOthers == Spec => []RecoveryLostOnlyToTwo
BY LostFollows, UsageInvariant, PTL

----------------------------------------------------------------------------
(* The webhook implements UsageLedger: Enqueue posts, Apply counts, the    *)
(* answer that takes a snapshot out of the outbox acknowledges, and all    *)
(* other steps leave the ledger as it is or end an attempt.                *)

Posted == [i \in 1..Len(accepted \o queue) |-> (accepted \o queue)[i].at]
Recoveries == {<<o.prev, o.at>> : o \in observations}
Increases == {<<g.from, g.to>> : g \in grants}
Meanwhile == IF waiting = None THEN 0 ELSE Len(applied) - requests[waiting].since

LEMMA PostedGrows ==
    ASSUME TypeOK, NEW s \in Snapshot, queue' = Append(queue, s), accepted' = accepted
    PROVE  Posted' = Append(Posted, s.at)
<1> DEFINE all == accepted \o queue
<1>1. accepted \in Seq(Snapshot) /\ queue \in Seq(Snapshot) /\ all \in Seq(Snapshot)
  BY DEF TypeOK
<1>2. all' = Append(all, s)
  BY <1>1
<1> HIDE DEF all
<1>3. /\ Len(all) \in Nat /\ Len(all') = Len(all) + 1 /\ all'[Len(all) + 1] = s
      /\ \A i \in 1..Len(all) : all'[i] = all[i]
  BY <1>1, <1>2, AppendFacts
<1>4. Posted = [i \in 1..Len(all) |-> all[i].at]
  BY DEF Posted, all
<1>5. Posted' = [i \in 1..Len(all') |-> all'[i].at]
  BY DEF Posted, all
<1>6. Append(Posted, s.at) = [i \in 1..(Len(all) + 1) |->
                                IF i = Len(all) + 1 THEN s.at ELSE all[i].at]
  <2>1. \A i \in 1..Len(all) : all[i].at \in Nat
    BY <1>1, SnapshotFields
  <2>2. s.at \in Nat
    BY SnapshotFields
  <2>3. Posted \in Seq(Nat) /\ Len(Posted) = Len(all)
    BY <1>3, <1>4, <2>1
  <2> QED
    BY <1>3, <1>4, <2>1, <2>2, <2>3
<1> QED
  BY <1>3, <1>5, <1>6

LEMMA PostedHead ==
    ASSUME TypeOK, queue # <<>>
    PROVE  /\ Len(accepted) < Len(Posted)
           /\ Posted[Len(accepted) + 1] = queue[1].at
BY DEF TypeOK, Posted

LEMMA PostedStays ==
    ASSUME TypeOK, queue # <<>>, queue' = Tail(queue),
           accepted' = Append(accepted, queue[1])
    PROVE  Posted' = Posted /\ Len(accepted') = Len(accepted) + 1
<1>1. accepted' \o queue' = accepted \o queue
  BY DEF TypeOK
<1> QED
  BY <1>1 DEF Posted, TypeOK

\* Steps that leave the snapshots counted and the outbox alone.
LedgerRests ==
    /\ UNCHANGED <<state, queue, accepted, grants>>
    /\ Recoveries' = Recoveries
    /\ Meanwhile' \in {0, Meanwhile}

LEMMA RestStutters ==
    ASSUME LedgerRests
    PROVE  [Ledger!Next]_Ledger!vars
<1>1. Posted' = Posted /\ Len(accepted') = Len(accepted) /\ Latest' = Latest
      /\ Increases' = Increases
  BY DEF LedgerRests, Posted, Latest, Increases
<1>2. CASE Meanwhile' = Meanwhile
  BY <1>1, <1>2 DEF LedgerRests, Ledger!vars, Posted, Latest, Increases, Recoveries, Meanwhile
<1>3. CASE Meanwhile' = 0
  <2>1. Ledger!EndAttempt
    BY <1>1, <1>3 DEF LedgerRests, Ledger!EndAttempt, Posted, Latest, Increases,
         Recoveries, Meanwhile
  <2> QED
    BY <2>1 DEF Ledger!Next
<1> QED
  BY <1>2, <1>3 DEF LedgerRests

LEMMA SteadyRests ==
    ASSUME UsageInv, Steady, UNCHANGED <<accepted, grants>>
    PROVE  LedgerRests
<1>1. Recoveries' = Recoveries
  BY DEF Steady, Recoveries
<1>2. Meanwhile' \in {0, Meanwhile}
  <2>1. CASE waiting' = None
    BY <2>1 DEF Meanwhile
  <2>2. CASE waiting' # None
    <3>1. waiting' = waiting /\ waiting \in Slot /\ requests'[waiting] # None
      BY <2>2 DEF Steady, UsageInv, TypeOK
    <3>2. requests'[waiting].since = requests[waiting].since
      BY <3>1 DEF Steady
    <3> QED
      BY <3>1, <3>2 DEF Steady, Meanwhile
  <2> QED
    BY <2>1, <2>2
<1> QED
  BY <1>1, <1>2 DEF LedgerRests, Steady

LEMMA BeginRests ==
    ASSUME UsageInv, Send \/ Heartbeat
    PROVE  LedgerRests
<1>1. PICK r \in Slot, s \in Snapshot :
        /\ requests[r] = None /\ waiting' = r
        /\ requests' = [requests EXCEPT ![r] = NewRequest(s)]
  <2>1. CASE Send
    <3>1. Head(queue) \in Snapshot
      BY <2>1 DEF Send, UsageInv, TypeOK
    <3> QED
      BY <2>1, <3>1 DEF Send, Free
  <2>2. CASE Heartbeat
    BY <2>2, ReadingsTyped DEF Heartbeat, Free
  <2> QED
    BY <2>1, <2>2
<1>2. UNCHANGED <<state, observations, grants, queue, accepted, applied>>
  BY DEF Send, Heartbeat, tables
<1>3. requests'[r].since = Len(applied) /\ r # None
  BY <1>1, NewRequestTyped, NoneIsNoValue DEF UsageInv, TypeOK
<1>4. Len(applied) \in Nat
  BY DEF UsageInv, TypeOK
<1>5. Meanwhile' = 0
  BY <1>1, <1>2, <1>3, <1>4 DEF Meanwhile
<1> QED
  BY <1>2, <1>5 DEF LedgerRests, Recoveries

LEMMA EnqueuePosts ==
    ASSUME UsageInv, Enqueue
    PROVE  Ledger!Next
<1>1. PICK s \in Readings :
        /\ queue' = Append(queue, s)
        /\ UNCHANGED <<tables, requests, waiting, applied, accepted>>
  BY DEF Enqueue
<1>2. s \in Snapshot /\ TypeOK
  BY ReadingsTyped DEF UsageInv
<1>3. Posted' = Append(Posted, s.at) /\ s.at \in Time
  BY <1>1, <1>2, PostedGrows DEF Snapshot
<1>4. Latest' = Latest /\ Increases' = Increases /\ Recoveries' = Recoveries
      /\ Meanwhile' = Meanwhile /\ Len(accepted') = Len(accepted)
  BY <1>1 DEF Latest, Increases, Recoveries, Meanwhile, tables
<1>5. Ledger!Post(s.at)
  BY <1>3, <1>4 DEF Ledger!Post, Posted, Latest, Increases, Recoveries, Meanwhile
<1> QED
  BY <1>3, <1>5 DEF Ledger!Next

LEMMA LedgerCount ==
    ASSUME NEW t, t > Latest, Latest' = t,
           Recoveries' \in {Recoveries, Recoveries \cup {<<Latest, t>>}},
           Increases' \in {Increases, Increases \cup {<<Latest, t>>}},
           Meanwhile' \in {0, Meanwhile + 1},
           Posted' = Posted, Len(accepted') = Len(accepted)
    PROVE  Ledger!Count(t)
BY DEF Ledger!Count, Posted, Latest, Increases, Recoveries, Meanwhile

LEMMA ApplyCounts ==
    ASSUME UsageInv, NEW r \in Slot, Apply(r)
    PROVE  Ledger!Next
<1> DEFINE q == requests[r]
           s == q.snap
<1>1. /\ q # None /\ q \in Request /\ s \in Snapshot
      /\ state = q.seen /\ state' = s /\ applied' = Append(applied, s)
      /\ Latest < s.at
      /\ UNCHANGED <<queue, waiting, last, accepted>>
  BY ApplyFacts
<1>2. s.at \in Time /\ s.at \in Nat /\ s # None /\ Latest \in Nat
  BY <1>1, SnapshotFields, NoneIsNoValue, LatestNat DEF Snapshot, UsageInv
<1>3. Latest' = s.at
  BY <1>1, <1>2 DEF Latest
<1>4. Recoveries' \in {Recoveries, Recoveries \cup {<<Latest, s.at>>}}
  <2>1. CASE Recovery(q.seen, s)
    <3>1. observations' = observations \cup {PlannedObservation(q)}
      BY <2>1 DEF Apply
    <3>2. PlannedObservation(q).prev = Latest /\ PlannedObservation(q).at = s.at
      BY <1>1, <2>1 DEF PlannedObservation, Latest, Recovery
    <3> QED
      BY <3>1, <3>2 DEF Recoveries
  <2>2. CASE ~Recovery(q.seen, s)
    BY <2>2 DEF Apply, Recoveries
  <2> QED
    BY <2>1, <2>2
<1>5. Increases' \in {Increases, Increases \cup {<<Latest, s.at>>}}
  <2>1. CASE Grant(q.seen, s)
    <3>1. grants' = grants \cup {PlannedGrant(q)}
      BY <2>1 DEF Apply
    <3>2. PlannedGrant(q).from = Latest /\ PlannedGrant(q).to = s.at
      BY <1>1, <2>1 DEF PlannedGrant, Latest, Grant
    <3> QED
      BY <3>1, <3>2 DEF Increases
  <2>2. CASE ~Grant(q.seen, s)
    BY <2>2 DEF Apply, Increases
  <2> QED
    BY <2>1, <2>2
<1>6. Meanwhile' \in {0, Meanwhile + 1}
  <2>1. CASE waiting = None
    BY <1>1, <2>1 DEF Meanwhile
  <2>2. CASE waiting # None
    <3>1. waiting \in Slot /\ requests[waiting] # None
      BY <2>2 DEF UsageInv, TypeOK, CoreOK, WaitingOK
    <3>2. requests[waiting] \in Request /\ requests[waiting].since \in Nat
      BY <3>1, RequestTyped, RequestFields
    <3>3. requests'[waiting].since = requests[waiting].since
      <4> DEFINE pc == IF MakesEvent(q) /\ q.promote THEN "claim" ELSE "accepted"
      <4>1. requests' = [requests EXCEPT ![r] = [q EXCEPT !.pc = pc]]
        BY DEF Apply, Goto, UsageInv, TypeOK
      <4> HIDE DEF pc
      <4>2. [q EXCEPT !.pc = pc].since = q.since
        BY <1>1 DEF Request
      <4> HIDE DEF q
      <4>3. CASE waiting = r
        BY <3>1, <4>1, <4>2, <4>3 DEF UsageInv, TypeOK, q
      <4>4. CASE waiting # r
        BY <3>1, <4>1, <4>4 DEF UsageInv, TypeOK
      <4> QED
        BY <4>3, <4>4
    <3>4. Len(applied) \in Nat /\ Len(applied') = Len(applied) + 1
      BY <1>1, AppendFacts DEF UsageInv, TypeOK
    <3>5. Meanwhile = Len(applied) - requests[waiting].since
      BY <2>2 DEF Meanwhile
    <3>6. Meanwhile' = Len(applied') - requests[waiting].since
      BY <1>1, <2>2, <3>3 DEF Meanwhile
    <3> HIDE DEF q
    <3> QED
      BY <3>2, <3>4, <3>5, <3>6
  <2> QED
    BY <2>1, <2>2
<1>7. Posted' = Posted /\ Len(accepted') = Len(accepted)
  BY <1>1 DEF Posted
<1>8. s.at > Latest
  BY <1>1, <1>2
<1> HIDE DEF q, s
<1>9. PICK t \in Time : t = s.at
  BY <1>2
<1>10. Ledger!Count(t)
  BY <1>3, <1>4, <1>5, <1>6, <1>7, <1>8, <1>9, LedgerCount
<1> QED
  BY <1>10 DEF Ledger!Next

LEMMA AnswerAcknowledges ==
    ASSUME UsageInv, NEW r \in Slot, Answer(r), queue' # queue
    PROVE  Ledger!Next
<1> DEFINE s == requests[r].snap
<1>1. /\ requests[r] # None /\ requests[r].pc = "accepted" /\ waiting = r
      /\ s.reason # "heartbeat" /\ waiting' = None
      /\ queue' = Tail(queue) /\ accepted' = Append(accepted, s)
      /\ UNCHANGED <<state, observations, grants>>
  BY DEF Answer, tables
<1>2. r # None /\ Ends(requests[r])
  BY <1>1, NoneIsNoValue DEF Ends
<1>3. queue # <<>> /\ queue[1] = s
  BY <1>1, <1>2 DEF UsageInv, CoreOK, WaitingOK
<1>4. /\ Len(accepted) < Len(Posted) /\ Posted[Len(accepted) + 1] = s.at
      /\ Posted' = Posted /\ Len(accepted') = Len(accepted) + 1
  BY <1>1, <1>3, PostedHead, PostedStays DEF UsageInv
<1>5. requests[r] \in Request /\ RequestOK(requests[r])
  BY <1>1, RequestTyped
<1>6. Latest >= s.at \/ Meanwhile >= 2
  <2>1. s.at \in Nat /\ Latest \in Nat /\ requests[r].since \in Nat /\ Len(applied) \in Nat
    BY <1>5, RequestFields, SnapshotFields, LatestNat DEF UsageInv, TypeOK
  <2>2. s.at <= Latest \/ requests[r].since + 2 <= Len(applied)
    BY <1>2, <1>5 DEF RequestOK
  <2> QED
    BY <1>1, <1>2, <2>1, <2>2 DEF Meanwhile
<1>7. Meanwhile' = 0 /\ Latest' = Latest /\ Recoveries' = Recoveries
      /\ Increases' = Increases
  BY <1>1 DEF Meanwhile, Latest, Recoveries, Increases
<1> HIDE DEF s
<1>8. Ledger!Acknowledge
  BY <1>4, <1>6, <1>7
     DEF Ledger!Acknowledge, Posted, Latest, Increases, Recoveries, Meanwhile
<1> QED
  BY <1>8 DEF Ledger!Next

LEMMA UsageImplements ==
    ASSUME UsageInv, UsageNext
    PROVE  [Ledger!Next]_Ledger!vars
<1>1. CASE Enqueue
  BY <1>1, EnqueuePosts
<1>2. CASE Heartbeat \/ Send
  BY <1>2, BeginRests, RestStutters
<1>3. CASE GiveUp
  BY <1>3, GiveUpSteady, SteadyRests, RestStutters DEF GiveUp, tables
<1>4. ASSUME NEW r \in Slot, Serve(r) \/ Fails(r)
      PROVE  [Ledger!Next]_Ledger!vars
  <2>1. CASE \/ ReadState(r) \/ LookupNotice(r) \/ LookupMatch(r) \/ WriteStale(r)
             \/ Claim(r) \/ LookupFails(r) \/ WriteFails(r) \/ ClaimFails(r)
    <3>1. Local(r)
      BY <2>1, ReadStateLocal, LookupLocal, WriteStaleLocal, ClaimLocal, WriteFailsLocal
    <3> QED
      BY <3>1, LocalSteady, SteadyRests, RestStutters DEF Local, monitor
  <2>2. CASE Apply(r)
    BY <2>2, ApplyCounts
  <2>3. CASE Crash(r) \/ (Answer(r) /\ queue' = queue)
    <3>1. UNCHANGED <<accepted, grants>>
      <4>1. CASE Crash(r)
        BY <4>1 DEF Crash, tables
      <4>2. CASE Answer(r) /\ queue' = queue
        <5>1. queue # <<>> => Tail(queue) # queue
          BY TailFacts DEF UsageInv, TypeOK
        <5>2. waiting = r /\ requests[r].snap.reason # "heartbeat" => queue # <<>>
          BY NoneIsNoValue DEF UsageInv, CoreOK, WaitingOK
        <5> QED
          BY <4>2, <5>1, <5>2 DEF Answer, tables
      <4> QED
        BY <2>3, <4>1, <4>2
    <3> QED
      BY <2>3, <3>1, EndSteady, SteadyRests, RestStutters
  <2>4. CASE Answer(r) /\ queue' # queue
    BY <2>4, AnswerAcknowledges
  <2> QED
    BY <1>4, <2>1, <2>2, <2>3, <2>4 DEF Serve, Fails
<1> QED
  BY <1>1, <1>2, <1>3, <1>4 DEF UsageNext

LEMMA InitImplements == Init => Ledger!Init
<1> SUFFICES ASSUME Init PROVE Ledger!Init
  OBVIOUS
<1>1. accepted \o queue = <<>> /\ Len(accepted) = 0
  BY DEF Init
<1>2. Posted = <<>>
  BY <1>1 DEF Posted
<1> QED
  BY <1>1, <1>2 DEF Init, Ledger!Init, Posted

\* Whatever requests do, the webhook keeps what UsageLedger promises.
THEOREM UsageImplementsLedger == Spec => ImplementsLedger
<1>1. UsageInv /\ [Next]_vars => [Ledger!Next]_Ledger!vars
  <2> SUFFICES ASSUME UsageInv, [Next]_vars PROVE [Ledger!Next]_Ledger!vars
    OBVIOUS
  <2>1. CASE UsageNext
    BY <2>1, UsageImplements
  <2>2. CASE \E t \in Tweet, type \in SignalType : PostStored(t, type)
    <3>1. LedgerRests
      BY <2>2 DEF PostStored, LedgerRests, Recoveries, Meanwhile, monitor
    <3> QED
      BY <3>1, RestStutters
  <2>3. CASE UNCHANGED vars
    <3>1. LedgerRests
      BY <2>3 DEF LedgerRests, Recoveries, Meanwhile, monitor, vars, tables
    <3> QED
      BY <3>1, RestStutters
  <2> QED
    BY <2>1, <2>2, <2>3 DEF Next, UsageNext
<1> QED
  BY <1>1, InitImplements, UsageInvariant, PTL DEF Spec, ImplementsLedger, Ledger!Spec

----------------------------------------------------------------------------
(* Each recovery is an event: the usage webhook by itself.                 *)

IsTibo(k) == k[1] = "tibo-reset"

\* The events there are: one for a time, none younger than the state; one that
\* is named after a notice has used it up.
EstimatesOK ==
    /\ \A e, f \in estimates : e.obs = f.obs => e = f
    /\ \A e \in estimates :
        /\ e.obs <= Latest
        /\ ~IsTibo(e.key) => e.key[2] <= Latest
        /\ IsTibo(e.key) => signals[e.key[2]] # "absent"
        /\ IsTibo(e.key) /\ signals[e.key[2]] = "official_notice" => e.notice = e.key[2]

\* What a request has found holds good; a notice that was found unused is so as
\* long as nothing was counted since.
EvidenceOK(q) ==
    /\ q.pc = "state" => q.notice = None
    /\ q.notice = None => ~q.spent
    /\ q.notice # None =>
        /\ signals[q.notice] = "official_notice"
        /\ state = q.seen => q.spent \/ ~Used(q.notice)
    /\ q.teaser # None => signals[q.teaser] = "teaser"
    /\ q.match # None => signals[q.match] \in {"deferred", "reset_executed"}

Accounted(o) ==
    \E e \in estimates :
        \/ e.obs = o.at
        \/ IsTibo(e.key) /\ signals[e.key[2]] # "official_notice"
        \/ o.spent /\ e.key = <<"usage-reset", Pending>>

EventInv ==
    /\ UsageInv
    /\ EstimatesOK
    /\ \A r \in Slot : requests[r] # None => EvidenceOK(requests[r])
    /\ \A o \in observations : Public(o) => Accounted(o)

LEMMA EvidenceFields ==
    ASSUME NEW q \in Request, NEW c \in {"accepted", "failed", "write", "claim", "notice"}
    PROVE  LET n == [q EXCEPT !.pc = c]
           IN  /\ n.pc = c /\ n.spent = q.spent /\ n.notice = q.notice
               /\ n.teaser = q.teaser /\ n.match = q.match /\ n.seen = q.seen
BY DEF Request

\* What a request found holds good, whatever the step of the request.
LEMMA LocalEvidence ==
    ASSUME EventInv, NEW r \in Slot,
           \/ ReadState(r) \/ LookupNotice(r) \/ LookupMatch(r) \/ WriteStale(r)
           \/ LookupFails(r) \/ WriteFails(r) \/ Claim(r) \/ ClaimFails(r)
    PROVE  EvidenceOK(requests'[r])
<1> DEFINE p == requests[r]
<1>1. p # None
  BY DEF ReadState, LookupNotice, LookupMatch, WriteStale, LookupFails, WriteFails,
     Claim, ClaimFails
<1>2. p \in Request /\ EvidenceOK(p) /\ requests \in [Slot -> Request \cup {None}]
  BY <1>1, RequestTyped DEF EventInv, UsageInv, TypeOK
<1>3. CASE ReadState(r)
  <2> DEFINE next == IF state # None /\ p.snap.at <= state.at THEN "accepted"
                     ELSE IF Recovery(state, p.snap) THEN "notice" ELSE "write"
  <2>1. requests'[r] = [p EXCEPT !.seen = state, !.pc = next]
    BY <1>2, <1>3 DEF ReadState
  <2>2. next # "state" /\ p.notice = None
    BY <1>2, <1>3 DEF ReadState, EvidenceOK
  <2> HIDE DEF next
  <2>3. LET n == [p EXCEPT !.seen = state, !.pc = next]
        IN  /\ n.pc = next /\ n.spent = p.spent /\ n.notice = p.notice
            /\ n.teaser = p.teaser /\ n.match = p.match
    BY <1>2 DEF Request
  <2> QED
    BY <1>2, <2>1, <2>2, <2>3 DEF EvidenceOK
<1>4. CASE LookupNotice(r)
  <2>1. PICK n \in {t \in Tweet : signals[t] = "official_notice"} \cup {None},
             z \in {t \in Tweet : signals[t] = "teaser"} \cup {None} :
          requests' = [requests EXCEPT
                ![r].notice = n, ![r].spent = n # None /\ Used(n),
                ![r].teaser = z,
                ![r].pc = IF p.snap.near THEN "write" ELSE "match"]
    BY <1>4 DEF LookupNotice
  <2> DEFINE u == n # None /\ Used(n)
             pc == IF p.snap.near THEN "write" ELSE "match"
             q == [p EXCEPT !.notice = n, !.spent = u, !.teaser = z, !.pc = pc]
  <2>2. (n = None => ~u) /\ pc # "state"
    BY <2>1
  <2>3. requests'[r] = q
    BY <1>2, <2>1
  <2> HIDE DEF u, pc
  <2>4. /\ q.spent = u /\ q.pc = pc /\ q.notice = n /\ q.teaser = z
        /\ q.match = p.match
    BY <1>2 DEF Request
  <2> HIDE DEF q
  <2>5. /\ n # None => signals[n] = "official_notice" /\ (u \/ ~Used(n))
        /\ z # None => signals[z] = "teaser"
    BY <2>1 DEF u
  <2> QED
    BY <1>2, <2>2, <2>3, <2>4, <2>5 DEF EvidenceOK
<1>5. CASE LookupMatch(r)
  <2>1. PICK t \in IF Formal = {} THEN {None} ELSE Formal :
          requests' = [requests EXCEPT
            ![r].match = t,
            ![r].promote = t # None /\ signals[t] = "deferred",
            ![r].cluster = IF t = None THEN {} ELSE Announcements,
            ![r].pc = "write"]
    BY <1>5 DEF LookupMatch
  <2> DEFINE u == t # None /\ signals[t] = "deferred"
             c == IF t = None THEN {} ELSE Announcements
             q == [p EXCEPT !.match = t, !.promote = u, !.cluster = c, !.pc = "write"]
  <2>2. requests'[r] = q
    BY <1>2, <2>1
  <2> HIDE DEF u, c
  <2>3. /\ q.spent = p.spent /\ q.pc = "write" /\ q.notice = p.notice
        /\ q.teaser = p.teaser /\ q.match = t /\ q.seen = p.seen
    BY <1>2 DEF Request
  <2> HIDE DEF q
  <2>4. t # None => signals[t] \in {"deferred", "reset_executed"}
    BY <2>1 DEF Formal
  <2> QED
    BY <1>2, <2>2, <2>3, <2>4 DEF EvidenceOK
<1>6. CASE WriteStale(r) /\ requests'[r] = [NewRequest(p.snap) EXCEPT !.retry = 1, !.since = p.since]
  <2> DEFINE n == NewRequest(p.snap)
  <2>1. /\ n \in Request /\ n.spent = FALSE /\ n.notice = None /\ n.teaser = None
        /\ n.match = None
    BY <1>2, NewRequestTyped, RequestFields DEF EventInv, NewRequest
  <2> HIDE DEF n
  <2>2. LET m == [n EXCEPT !.retry = 1, !.since = p.since]
        IN  /\ m.spent = FALSE /\ m.notice = None /\ m.teaser = None /\ m.match = None
    BY <2>1 DEF Request
  <2>3. requests'[r] = [n EXCEPT !.retry = 1, !.since = p.since]
    BY <1>6 DEF n
  <2> QED
    BY <2>2, <2>3 DEF EvidenceOK
<1>7. CASE LookupFails(r) /\ requests'[r] = [p EXCEPT !.blind = TRUE, !.pc = "write"]
  <2>1. LET m == [p EXCEPT !.blind = TRUE, !.pc = "write"]
        IN  /\ m.pc = "write" /\ m.spent = p.spent /\ m.notice = p.notice
            /\ m.teaser = p.teaser /\ m.match = p.match /\ m.seen = p.seen
    BY <1>2 DEF Request
  <2> QED
    BY <1>2, <1>7, <2>1 DEF EvidenceOK
<1>8. CASE \E c \in {"accepted", "failed"} : requests'[r] = [p EXCEPT !.pc = c]
  BY <1>2, <1>8, EvidenceFields DEF EvidenceOK
<1>9. WriteStale(r) => \/ requests'[r] = [NewRequest(p.snap) EXCEPT !.retry = 1, !.since = p.since]
                       \/ requests'[r] = [p EXCEPT !.pc = "accepted"]
  BY <1>2 DEF WriteStale
<1>10. LookupFails(r) => \/ requests'[r] = [p EXCEPT !.pc = "failed"]
                         \/ requests'[r] = [p EXCEPT !.blind = TRUE, !.pc = "write"]
  BY <1>2 DEF LookupFails, Goto
<1>11. /\ WriteFails(r) => requests'[r] = [p EXCEPT !.pc = "failed"]
       /\ Claim(r) \/ ClaimFails(r) => requests'[r] = [p EXCEPT !.pc = "accepted"]
  BY <1>2 DEF WriteFails, Claim, ClaimFails, Goto
<1> QED
  BY <1>3, <1>4, <1>5, <1>6, <1>7, <1>8, <1>9, <1>10, <1>11

\* The key of an event: of a report or a teaser, of an unused notice, of the
\* monitor's own, or the placeholder of a used notice.
LEMMA PlannedKeyCases ==
    ASSUME TypeOK, NEW r \in Slot, requests[r] \in Request, EvidenceOK(requests[r]),
           state = requests[r].seen
    PROVE  LET q == requests[r]
               k == PlannedKey(q)
           IN  \/ k = <<"usage-reset", q.snap.at>>
               \/ k = <<"usage-reset", Pending>> /\ q.spent
               \/ /\ IsTibo(k) /\ k[2] \in Tweet
                  /\ signals[k[2]] \in {"deferred", "reset_executed", "teaser"}
               \/ /\ IsTibo(k) /\ k[2] \in Tweet
                  /\ signals[k[2]] = "official_notice" /\ ~Used(k[2])
                  /\ PlannedEstimate(q).notice = k[2]
<1> DEFINE q == requests[r]
           k == PlannedKey(q)
<1>1. /\ q.notice \in Tweet \cup {None} /\ q.teaser \in Tweet \cup {None}
      /\ q.match \in Tweet \cup {None}
  BY RequestFields
<1>2. CASE q.match # None
  BY <1>1, <1>2 DEF PlannedKey, IsTibo, EvidenceOK
<1>3. CASE q.match = None /\ q.notice # None /\ ~q.spent
  <2>1. k = <<"tibo-reset", q.notice>>
    BY <1>3 DEF PlannedKey, EvidenceOK
  <2>2. PlannedEstimate(q).notice = q.notice
    BY <1>3, <2>1 DEF PlannedEstimate
  <2>3. k[1] = "tibo-reset" /\ k[2] = q.notice
    BY <2>1
  <2> QED
    BY <1>1, <1>3, <2>2, <2>3 DEF IsTibo, EvidenceOK
<1>4. CASE q.match = None /\ q.notice = None
  BY <1>1, <1>4 DEF PlannedKey, IsTibo, EvidenceOK
<1>5. CASE q.match = None /\ q.notice # None /\ q.spent
  BY <1>5 DEF PlannedKey
<1> QED
  BY <1>2, <1>3, <1>4, <1>5

LEMMA ApplySignals ==
    ASSUME TypeOK, NEW r \in Slot, Apply(r), NEW t \in Tweet
    PROVE  \/ signals'[t] = signals[t]
           \/ signals[t] = "deferred" /\ signals'[t] = "reset_executed"
BY DEF Apply, TypeOK

LEMMA ApplyEvents ==
    ASSUME EventInv, NEW r \in Slot, Apply(r)
    PROVE  /\ EstimatesOK'
           /\ \A o \in observations' : Public(o) => Accounted(o)'
<1> DEFINE q == requests[r]
           s == q.snap
           e == PlannedEstimate(q)
           k == PlannedKey(q)
           p == PlannedObservation(q)
<1>1. UsageInv /\ TypeOK /\ EstimatesOK
  BY DEF EventInv, UsageInv
<1>2. /\ q # None /\ q \in Request /\ s \in Snapshot /\ state = q.seen
      /\ state' = s /\ Latest < s.at
  BY <1>1, ApplyFacts
<1>3. EvidenceOK(q)
  BY <1>2 DEF EventInv
<1>4. /\ s.at \in Nat /\ Latest \in Nat /\ Latest' = s.at /\ Latest < Latest'
  BY <1>1, <1>2, SnapshotFields, NoneIsNoValue, LatestNat DEF Latest
<1>5. e \in Estimate /\ e.key = k /\ e.obs = s.at /\ k \in Key
  BY <1>2, PlannedEstimateTyped, PlannedKeyTyped
<1>6. \/ k = <<"usage-reset", s.at>>
      \/ k = <<"usage-reset", Pending>> /\ p.spent
      \/ /\ IsTibo(k) /\ k[2] \in Tweet
         /\ signals[k[2]] \in {"deferred", "reset_executed", "teaser"}
      \/ /\ IsTibo(k) /\ k[2] \in Tweet
         /\ signals[k[2]] = "official_notice" /\ ~Used(k[2]) /\ e.notice = k[2]
  BY <1>1, <1>2, <1>3, PlannedKeyCases DEF PlannedObservation
<1>7. \A t \in Tweet : \/ signals'[t] = signals[t]
                       \/ signals[t] = "deferred" /\ signals'[t] = "reset_executed"
  BY <1>1, ApplySignals
<1>8. ASSUME NEW x \in estimates
      PROVE  /\ x \in Estimate /\ x.obs \in Nat /\ x.obs <= Latest /\ x.obs < s.at
             /\ IsTibo(x.key) => /\ x.key[2] \in Tweet /\ signals'[x.key[2]] # "absent"
                                 /\ signals'[x.key[2]] = "official_notice" => x.notice = x.key[2]
             /\ ~IsTibo(x.key) => x.key[2] < s.at /\ x.key[2] <= Latest'
  <2>1. x \in Estimate /\ x.key \in Key /\ x.obs \in Nat
    BY <1>1, BoundsAssumption DEF TypeOK, Estimate, Time
  <2>2. x.obs <= Latest /\ x.obs < s.at
    BY <1>1, <1>2, <1>4, <2>1 DEF EstimatesOK
  <2>3. ASSUME IsTibo(x.key)
        PROVE  /\ x.key[2] \in Tweet /\ signals'[x.key[2]] # "absent"
               /\ signals'[x.key[2]] = "official_notice" => x.notice = x.key[2]
    <3>1. x.key[2] \in Tweet
      BY <2>1, <2>3, KeyParts DEF IsTibo
    <3> QED
      BY <1>1, <1>7, <2>3, <3>1 DEF EstimatesOK
  <2>4. ASSUME ~IsTibo(x.key)
        PROVE  x.key[2] < s.at /\ x.key[2] <= Latest'
    <3>1. x.key[2] \in Nat
      BY <2>1, <2>4, BoundsAssumption DEF Key, IsTibo, Time, Pending
    <3> QED
      BY <1>1, <1>2, <1>4, <2>4, <3>1 DEF EstimatesOK
  <2> QED
    BY <2>1, <2>2, <2>3, <2>4
<1>9. IsTibo(k) => k[2] \in Tweet /\ signals'[k[2]] # "absent"
  BY <1>6, <1>7 DEF IsTibo
<1>10. ~IsTibo(k) => \/ k[2] = s.at
                     \/ k[2] = 0 /\ k = <<"usage-reset", Pending>> /\ p.spent
  BY <1>6 DEF Pending
<1>11. 0 < s.at
  BY <1>4
<1>12. observations' = IF Recovery(q.seen, s) THEN observations \cup {p} ELSE observations
  BY DEF Apply
<1>13. estimates' = IF MakesEvent(q) THEN MergeEstimate(e) ELSE estimates
  BY DEF Apply
<1>14. \A o \in observations : Public(o) => Accounted(o)
  BY DEF EventInv
<1>15. Public(p) /\ p \in observations' => MakesEvent(q) \/ p \in observations
  BY <1>12 DEF Public, PlannedObservation, MakesEvent
<1>16. p.at = s.at
  BY DEF PlannedObservation
<1> HIDE DEF e, k, p, s
<1>17. \A o : Accounted(o)' <=> \E x \in estimates' :
            \/ x.obs = o.at
            \/ IsTibo(x.key) /\ signals'[x.key[2]] # "official_notice"
            \/ o.spent /\ x.key = <<"usage-reset", Pending>>
  BY DEF Accounted, IsTibo
<1>18. EstimatesOK' <=>
        /\ \A x, y \in estimates' : x.obs = y.obs => x = y
        /\ \A x \in estimates' :
            /\ x.obs <= Latest'
            /\ ~IsTibo(x.key) => x.key[2] <= Latest'
            /\ IsTibo(x.key) => signals'[x.key[2]] # "absent"
            /\ IsTibo(x.key) /\ signals'[x.key[2]] = "official_notice" => x.notice = x.key[2]
  BY DEF EstimatesOK, IsTibo
<1>19. \A x, y \in estimates : x.obs = y.obs => x = y
  BY <1>1 DEF EstimatesOK
<1>20. \A x \in estimates : /\ x.obs <= Latest' /\ x.obs # s.at
                            /\ IsTibo(x.key) /\ signals[x.key[2]] # "official_notice"
                                  => signals'[x.key[2]] # "official_notice"
  BY <1>4, <1>7, <1>8
<1>21. CASE ~MakesEvent(q)
  <2>1. estimates' = estimates
    BY <1>13, <1>21
  <2>2. EstimatesOK'
    BY <1>8, <1>18, <1>19, <1>20, <2>1
  <2>3. ASSUME NEW o \in observations', Public(o) PROVE Accounted(o)'
    <3>1. o \in observations
      BY <1>12, <1>15, <1>21, <2>3
    <3> QED
      BY <1>14, <1>17, <1>20, <2>1, <2>3, <3>1 DEF Accounted
  <2> QED
    BY <2>2, <2>3
<1>22. CASE MakesEvent(q) /\ estimates' = estimates \cup {e}
  <2>1. e.obs = s.at /\ e.key = k /\ s.at <= Latest'
    BY <1>4, <1>5
  <2>2. IsTibo(k) /\ signals'[k[2]] = "official_notice" => e.notice = k[2]
    BY <1>6, <1>7 DEF IsTibo
  <2>3. ~IsTibo(k) => k[2] <= Latest'
    BY <1>4, <1>10, <2>1
  <2> HIDE DEF s
  <2>4. ASSUME NEW x \in estimates' PROVE x \in estimates \/ x = e
    BY <1>22, <2>4
  <2>5. EstimatesOK'
    BY <1>8, <1>9, <1>18, <1>19, <1>20, <2>1, <2>2, <2>3, <2>4
  <2>6. ASSUME NEW o \in observations', Public(o) PROVE Accounted(o)'
    <3>1. CASE o \in observations
      BY <1>14, <1>17, <1>20, <1>22, <2>6, <3>1 DEF Accounted
    <3>2. CASE o = p
      BY <1>16, <1>17, <1>22, <2>1, <3>2
    <3> QED
      BY <1>12, <3>1, <3>2
  <2> QED
    BY <2>5, <2>6
<1>23. ASSUME MakesEvent(q), estimates' # estimates \cup {e}
       PROVE  /\ EstimatesOK'
              /\ \A o \in observations' : Public(o) => Accounted(o)'
  <2>1. PICK x \in estimates :
          /\ x.key = e.key \/ x.obs = e.obs
          /\ estimates' = (estimates \ {x}) \cup
               {[key |-> x.key, obs |-> x.obs,
                 tweets |-> x.tweets \cup e.tweets,
                 primary |-> IF e.primary # None THEN e.primary ELSE x.primary,
                 notice |-> IF e.notice # None THEN e.notice ELSE x.notice,
                 monitor |-> e.monitor]}
    BY <1>13, <1>23, MergeShape
  <2>2. PICK y : /\ y.key = x.key /\ y.obs = x.obs
                 /\ estimates' = (estimates \ {x}) \cup {y}
    BY <2>1
  <2>3. x.key = k
    BY <1>5, <1>20, <2>1
  <2>4. CASE ~IsTibo(k)
    <3>1. k = <<"usage-reset", Pending>> /\ p.spent
      BY <1>4, <1>8, <1>10, <2>3, <2>4
    <3>2. EstimatesOK'
      BY <1>8, <1>18, <1>19, <1>20, <2>2, <2>3, <2>4
    <3>3. ASSUME NEW o \in observations', Public(o) PROVE Accounted(o)'
      <4>1. CASE o \in observations
        BY <1>14, <1>17, <1>20, <2>2, <3>3, <4>1 DEF Accounted
      <4>2. CASE o = p
        BY <1>17, <2>2, <2>3, <3>1, <4>2
      <4> QED
        BY <1>12, <4>1, <4>2
    <3> QED
      BY <3>2, <3>3
  <2>5. CASE IsTibo(k)
    <3>1. signals'[k[2]] # "official_notice"
      <4>1. signals[k[2]] # "official_notice"
        <5>1. SUFFICES ASSUME signals[k[2]] = "official_notice" PROVE FALSE
          OBVIOUS
        <5>2. ~Used(k[2])
          BY <1>6, <2>5, <5>1 DEF IsTibo
        <5>3. x.notice = k[2]
          BY <1>1, <2>3, <2>5, <5>1 DEF EstimatesOK
        <5> QED
          BY <5>2, <5>3 DEF Used
      <4> QED
        BY <1>7, <1>9, <2>5, <4>1
    <3>2. EstimatesOK'
      BY <1>8, <1>9, <1>18, <1>19, <1>20, <2>2, <2>3, <2>5, <3>1
    <3>3. ASSUME NEW o \in observations', Public(o) PROVE Accounted(o)'
      BY <1>17, <2>2, <2>3, <2>5, <3>1
    <3> QED
      BY <3>2, <3>3
  <2> QED
    BY <2>4, <2>5
<1> QED
  BY <1>21, <1>22, <1>23

LEMMA AppliedEvidence ==
    ASSUME EventInv, NEW r \in Slot, Apply(r), NEW p \in Slot, requests[p] # None
    PROVE  EvidenceOK(requests[p])'
<1> DEFINE q == requests[r]
           s == q.snap
<1>1. UsageInv /\ TypeOK /\ EvidenceOK(requests[p])
  BY DEF EventInv, UsageInv
<1>2. /\ q # None /\ q \in Request /\ s \in Snapshot /\ state' = s /\ Latest < s.at
  BY <1>1, ApplyFacts
<1>3. requests[p] \in Request /\ RequestOK(requests[p])
  BY <1>1, RequestTyped
<1>4. state' # requests[p].seen
  <2>1. s # None /\ s.at \in Nat /\ Latest \in Nat
    BY <1>1, <1>2, SnapshotFields, NoneIsNoValue, LatestNat
  <2>2. requests[p].seen # None => requests[p].seen.at <= Latest
    BY <1>3 DEF RequestOK
  <2>3. requests[p].seen # None => requests[p].seen.at \in Nat
    BY <1>3, RequestFields, SnapshotFields
  <2> HIDE DEF s, q
  <2> QED
    BY <1>2, <2>1, <2>2, <2>3
<1>5. PICK c \in {"state", "claim", "accepted", "notice", "match", "write", "failed"} :
        /\ requests'[p] = [requests[p] EXCEPT !.pc = c]
        /\ c = "state" => requests[p].pc = "state"
  <2>1. CASE p = r
    <3>1. requests'[r] = [q EXCEPT !.pc = IF MakesEvent(q) /\ q.promote THEN "claim" ELSE "accepted"]
      BY <1>1 DEF Apply, Goto, TypeOK
    <3> QED
      BY <2>1, <3>1
  <2>2. CASE p # r
    <3>1. requests'[p] = requests[p]
      BY <1>1, <2>2 DEF Apply, Goto, TypeOK
    <3>2. requests[p] = [requests[p] EXCEPT !.pc = requests[p].pc]
      BY <1>3 DEF Request
    <3>3. requests[p].pc \in {"state", "claim", "accepted", "notice", "match", "write", "failed"}
      BY <1>3 DEF Request
    <3> QED
      BY <3>1, <3>2, <3>3
  <2> QED
    BY <2>1, <2>2
<1>6. LET n == requests'[p]
      IN  /\ n.pc = c /\ n.spent = requests[p].spent /\ n.notice = requests[p].notice
          /\ n.teaser = requests[p].teaser /\ n.match = requests[p].match
          /\ n.seen = requests[p].seen
  BY <1>3, <1>5 DEF Request
<1>7. \A t \in Tweet : \/ signals'[t] = signals[t]
                       \/ signals[t] = "deferred" /\ signals'[t] = "reset_executed"
  BY <1>1, ApplySignals
<1>8. /\ requests[p].notice \in Tweet \cup {None} /\ requests[p].teaser \in Tweet \cup {None}
      /\ requests[p].match \in Tweet \cup {None}
  BY <1>3, RequestFields
<1> QED
  BY <1>1, <1>4, <1>5, <1>6, <1>7, <1>8 DEF EvidenceOK

\* Nothing is counted: the events stay as they are.
LEMMA EventsRest ==
    ASSUME EventInv,
           UNCHANGED <<state, observations, estimates>>,
           \A t \in Tweet : signals[t] # "absent" => signals'[t] = signals[t],
           \A r \in Slot : requests'[r] # None =>
              \/ requests[r] # None /\ requests'[r] = requests[r]
              \/ EvidenceOK(requests'[r]) /\ UNCHANGED signals,
           UsageInv'
    PROVE  EventInv'
<1>1. TypeOK /\ EstimatesOK
  BY DEF EventInv, UsageInv
<1>2. \A e \in estimates : IsTibo(e.key) => e.key[2] \in Tweet
  BY <1>1, KeyParts DEF TypeOK, Estimate, IsTibo
<1>3. EstimatesOK'
  BY <1>1, <1>2 DEF EstimatesOK, Latest, IsTibo
<1>4. ASSUME NEW r \in Slot, requests'[r] # None PROVE EvidenceOK(requests[r])'
  <2>1. CASE requests[r] # None /\ requests'[r] = requests[r]
    <3>1. EvidenceOK(requests[r])
      BY <2>1 DEF EventInv
    <3>2. /\ requests[r].notice \in Tweet \cup {None}
          /\ requests[r].teaser \in Tweet \cup {None}
          /\ requests[r].match \in Tweet \cup {None}
      BY <1>1, <2>1, RequestFields DEF TypeOK
    <3> QED
      BY <2>1, <3>1, <3>2 DEF EvidenceOK, Used
  <2>2. CASE EvidenceOK(requests'[r]) /\ UNCHANGED signals
    BY <2>2 DEF EvidenceOK, Used
  <2> QED
    BY <1>4, <2>1, <2>2
<1>5. ASSUME NEW o \in observations, Public(o) PROVE Accounted(o)'
  <2>1. Accounted(o)
    BY <1>5 DEF EventInv
  <2> QED
    BY <1>1, <1>2, <2>1 DEF Accounted, EstimatesOK, IsTibo
<1> QED
  BY <1>3, <1>4, <1>5 DEF EventInv, Public

LEMMA EventStep ==
    ASSUME EventInv, [Next]_vars, UsageInv'
    PROVE  EventInv'
<1>1. UsageInv /\ TypeOK /\ requests \in [Slot -> Request \cup {None}]
  BY DEF EventInv, UsageInv, TypeOK
<1>2. CASE Enqueue \/ GiveUp \/ UNCHANGED vars
  BY <1>2, EventsRest DEF Enqueue, GiveUp, vars, tables
<1>3. CASE Send \/ Heartbeat
  <2>1. PICK r \in Slot, s \in Snapshot :
          requests' = [requests EXCEPT ![r] = NewRequest(s)]
    <3>1. Send => Head(queue) \in Snapshot
      BY <1>1 DEF Send, TypeOK
    <3> QED
      BY <1>3, <3>1, ReadingsTyped DEF Send, Heartbeat
  <2>2. EvidenceOK(NewRequest(s))
    BY DEF EvidenceOK, NewRequest
  <2>3. \A p \in Slot : requests'[p] # None =>
           \/ requests[p] # None /\ requests'[p] = requests[p]
           \/ EvidenceOK(requests'[p])
    BY <1>1, <2>1, <2>2
  <2> QED
    BY <1>3, <2>3, EventsRest DEF Send, Heartbeat, tables
<1>4. ASSUME NEW r \in Slot, Serve(r) \/ Fails(r) PROVE EventInv'
  <2>1. CASE \/ ReadState(r) \/ LookupNotice(r) \/ LookupMatch(r) \/ WriteStale(r)
             \/ Claim(r) \/ LookupFails(r) \/ WriteFails(r) \/ ClaimFails(r)
    <3>1. EvidenceOK(requests'[r])
      BY <2>1, LocalEvidence
    <3>2. Local(r)
      BY <1>1, <2>1, ReadStateLocal, LookupLocal, WriteStaleLocal, ClaimLocal, WriteFailsLocal
    <3>3. \A p \in Slot : p # r => requests'[p] = requests[p]
      BY <1>1, <3>2 DEF Local
    <3>4. UNCHANGED <<state, observations, estimates, signals>>
      BY <2>1 DEF ReadState, LookupNotice, LookupMatch, WriteStale, Claim, LookupFails,
           WriteFails, ClaimFails, tables
    <3> QED
      BY <3>1, <3>3, <3>4, EventsRest
  <2>2. CASE Apply(r)
    <3>1. ASSUME NEW p \in Slot, requests'[p] # None PROVE requests[p] # None
      BY <1>1, <2>2, <3>1, ApplyFacts DEF Apply, Goto
    <3> QED
      BY <2>2, <3>1, ApplyEvents, AppliedEvidence DEF EventInv, Public
  <2>3. CASE Crash(r) \/ Answer(r)
    <3>1. \A p \in Slot : requests'[p] # None =>
             requests[p] # None /\ requests'[p] = requests[p]
      BY <1>1, <2>3 DEF Crash, Answer
    <3> QED
      BY <2>3, <3>1, EventsRest DEF Crash, Answer, tables
  <2> QED
    BY <1>4, <2>1, <2>2, <2>3 DEF Serve, Fails
<1>5. ASSUME NEW t \in Tweet, NEW type \in SignalType, PostStored(t, type)
      PROVE  EventInv'
  <2>1. \A u \in Tweet : signals[u] # "absent" => signals'[u] = signals[u]
    BY <1>1, <1>5 DEF PostStored, TypeOK
  <2> QED
    BY <1>5, <2>1, EventsRest DEF PostStored
<1> QED
  BY <1>2, <1>3, <1>4, <1>5 DEF Next

\* However requests overlap and fail, each recovery for all becomes an event of its
\* own, or shares that of a teaser or a report, or that of the placeholder if the
\* notice it was found with was used up (PlannedKey, MergeEstimate).
THEOREM RecoveriesBecomeEvents == Spec => []EachRecoveryAnEvent
<1>1. Init => EventInv
  <2> SUFFICES ASSUME Init PROVE EventInv
    OBVIOUS
  <2> QED
    BY UsageInit DEF Init, EventInv, EstimatesOK
<1>2. EventInv /\ UsageInv' /\ [Next]_vars => EventInv'
  BY EventStep
<1>3. EventInv => EachRecoveryAnEvent
  <2> SUFFICES ASSUME EventInv, NEW o \in observations
               PROVE  /\ Cardinality({e \in estimates : e.obs = o.at}) <= 1
                      /\ Public(o) => Accounted(o)
    BY DEF EachRecoveryAnEvent, Accounted, IsTibo
  <2>1. Cardinality({e \in estimates : e.obs = o.at}) <= 1
    <3> DEFINE E == {e \in estimates : e.obs = o.at}
    <3>1. \A e, f \in E : e = f
      BY DEF EventInv, EstimatesOK
    <3>2. CASE E = {}
      BY <3>2, FS_EmptySet
    <3>3. CASE E # {}
      <4> HIDE DEF E
      <4>1. PICK e : E = {e}
        BY <3>1, <3>3
      <4>2. Cardinality({e}) = 1
        BY FS_Singleton
      <4>3. Cardinality(E) <= 1
        BY <4>1, <4>2
      <4> QED
        BY <4>3 DEF E
    <3> QED
      BY <3>2, <3>3
  <2> QED
    BY <2>1 DEF EventInv
<1> QED
  BY <1>1, <1>2, <1>3, UsageInvariant, PTL DEF Spec

----------------------------------------------------------------------------
(* The two webhooks together: types, and a post is announced once.         *)

\* A delivery that may announce a new adoption stands for the claim of its post
\* and is the only one; one that goes on to confirm has its event and recovery.
CallOK(c) ==
    /\ post[c.tweet].sends >= 1
    /\ c.pc \in {"nearest", "confirm", "merge", "write"} => c.key \in Key
    /\ c.pc \in {"confirm", "merge", "write"} =>
          c.obs \in Time /\ \E o \in observations : o.at = c.obs
    /\ c.claimed => /\ ledger[c.tweet] = Self(c.tweet)
                    /\ post[c.tweet].announced = 0

CallsOK ==
    /\ \A d \in Call : calls[d] # None => CallOK(calls[d])
    /\ \A d \in Call : \A e \in Call :
        /\ calls[d] # None /\ calls[e] # None
        /\ calls[d].claimed /\ calls[e].claimed
        /\ calls[d].tweet = calls[e].tweet
        => d = e

WebhookInv == UsageInv /\ WebhookTypeOK /\ CallsOK /\ AnnouncedOnce

LEMMA SelfKey == \A t \in Tweet : Self(t) \in Key /\ Self(t) # None
BY NoneIsNoValue DEF Self, Key

Post == [sends: 0..MaxSends, settled: BOOLEAN, created: 0..MaxAt,
         followed: SUBSET Time, announced: 0..MaxSends]

LEMMA DeliveryFields ==
    ASSUME NEW c \in Delivery
    PROVE  /\ c.tweet \in Tweet /\ c.verdict \in SignalType
           /\ c.obs \in Time \cup {None}
           /\ c.led \in [Tweet -> Key \cup {None}] \cup {None}
           /\ c.est \in (SUBSET Estimate) \cup {None}
           /\ c.key \in Key \cup {None} /\ c.target \in Key \cup {None}
           /\ c.cluster \subseteq Tweet /\ c.claimed \in BOOLEAN
BY DEF Delivery

LEMMA VerdictTyped == \A t \in Tweet : Verdict(t) \in SignalType
BY DEF Verdict, SignalType

LEMMA NewDeliveryTyped ==
    ASSUME TypeOK, NEW t \in Tweet
    PROVE  /\ NewDelivery(t) \in Delivery
           /\ NewDelivery(t).tweet = t /\ ~NewDelivery(t).claimed
           /\ NewDelivery(t).pc = "existing"
<1>1. Verdict(t) \in SignalType /\ "absent" \in SignalType
  BY VerdictTyped DEF SignalType
<1>2. (signals[t] # "absent") \in BOOLEAN
  OBVIOUS
<1> QED
  BY <1>1, <1>2 DEF NewDelivery, Delivery

\* What the answer of a delivery is about.
Over(c, pc) == [NewDelivery(c.tweet) EXCEPT
                  !.row = FALSE, !.pc = pc, !.claimed = c.claimed]

LEMMA OverTyped ==
    ASSUME TypeOK, NEW c \in Delivery, NEW pc \in {"done", "failed"}
    PROVE  /\ Over(c, pc) \in Delivery
           /\ Over(c, pc).tweet = c.tweet /\ Over(c, pc).claimed = c.claimed
           /\ Over(c, pc).pc = pc
<1> DEFINE n == NewDelivery(c.tweet)
<1>1. n \in Delivery /\ n.tweet = c.tweet
  BY DeliveryFields, NewDeliveryTyped
<1>2. c.claimed \in BOOLEAN
  BY DeliveryFields
<1>3. Over(c, pc) = [n EXCEPT !.row = FALSE, !.pc = pc, !.claimed = c.claimed]
  BY DEF Over
<1> HIDE DEF n
<1> QED
  BY <1>1, <1>2, <1>3 DEF Delivery

LEMMA CallTyped ==
    ASSUME WebhookInv, NEW d \in Call, calls[d] # None
    PROVE  /\ calls[d] \in Delivery /\ CallOK(calls[d]) /\ TypeOK
           /\ calls[d].tweet \in Tweet /\ post[calls[d].tweet] \in Post
BY DeliveryFields DEF WebhookInv, WebhookTypeOK, CallsOK, Post

LEMMA PostFields ==
    ASSUME NEW p \in Post
    PROVE  /\ p.sends \in Nat /\ p.sends <= MaxSends /\ p.announced \in Nat
           /\ p.created \in 0..MaxAt /\ p.followed \subseteq Time
           /\ p.settled \in BOOLEAN /\ p.announced <= MaxSends
BY WebhookAssumption DEF Post

\* A step of one delivery that claims nothing anew.
Continues(d, c) ==
    /\ calls[d] # None /\ c \in Delivery /\ c.tweet = calls[d].tweet
    /\ c.claimed => calls[d].claimed
    /\ c.pc \in {"nearest", "confirm", "merge", "write"} => c.key \in Key
    /\ c.pc \in {"confirm", "merge", "write"} =>
          c.obs \in Time /\ \E o \in observations : o.at = c.obs

LedgerStays ==
    \A t \in Tweet : ledger[t] # None => ledger'[t] = ledger[t]

ObservationsStay ==
    \A o \in observations : \E p \in observations' : p.at = o.at

LEMMA ContinuesCalls ==
    ASSUME WebhookInv, NEW d \in Call, NEW c, Continues(d, c),
           calls' = [calls EXCEPT ![d] = c],
           UNCHANGED post, LedgerStays, ObservationsStay
    PROVE  /\ calls' \in [Call -> Delivery \cup {None}]
           /\ CallsOK' /\ AnnouncedOnce'
<1>1. calls \in [Call -> Delivery \cup {None}]
  BY DEF WebhookInv, WebhookTypeOK
<1>2. calls' \in [Call -> Delivery \cup {None}]
  BY <1>1 DEF Continues
<1>3. \A t \in Tweet : ledger[t] = Self(t) => ledger'[t] = Self(t)
  BY SelfKey DEF LedgerStays
<1>4. ASSUME NEW e \in Call, calls'[e] # None
      PROVE  /\ calls[e] # None /\ CallOK(calls[e])'
             /\ calls'[e].tweet = calls[e].tweet
             /\ calls'[e].claimed => calls[e].claimed
  <2>1. calls[e] # None
    BY <1>1, <1>4 DEF Continues
  <2>2. calls[e].tweet \in Tweet /\ CallOK(calls[e])
    BY <2>1, CallTyped
  <2>3. CASE e = d
    <3>1. calls'[e] = c
      BY <1>1, <2>3
    <3> QED
      BY <1>3, <2>1, <2>2, <2>3, <3>1 DEF Continues, CallOK, ObservationsStay
  <2>4. CASE e # d
    <3>1. calls'[e] = calls[e]
      BY <1>1, <2>4
    <3> QED
      BY <1>3, <2>1, <2>2, <2>4, <3>1 DEF CallOK, ObservationsStay
  <2> QED
    BY <2>3, <2>4
<1>5. CallsOK'
  BY <1>4 DEF CallsOK, WebhookInv
<1>6. AnnouncedOnce'
  BY <1>3 DEF AnnouncedOnce, WebhookInv
<1> QED
  BY <1>2, <1>5, <1>6

LEMMA OverContinues ==
    ASSUME WebhookInv, NEW d \in Call, calls[d] # None, NEW pc \in {"done", "failed"}
    PROVE  Continues(d, Over(calls[d], pc))
<1>1. calls[d] \in Delivery /\ TypeOK
  BY CallTyped
<1>2. LET n == Over(calls[d], pc)
      IN  /\ n \in Delivery /\ n.tweet = calls[d].tweet
          /\ n.claimed = calls[d].claimed /\ n.pc = pc
  BY <1>1, OverTyped
<1> QED
  BY <1>2 DEF Continues

LEMMA FinishContinues ==
    ASSUME WebhookInv, NEW d \in Call, calls[d] # None, NEW pc \in {"done", "failed"},
           Finish(d, pc)
    PROVE  \E c : Continues(d, c) /\ calls' = [calls EXCEPT ![d] = c]
BY OverContinues DEF Finish, Step, Over

LEMMA FoundTyped == ASSUME TypeOK, NEW x PROVE Found(x) \subseteq Time \cup {None}
<1>1. \A o \in observations : o.at \in Time
  BY DEF TypeOK, Observation
<1> QED
  BY <1>1 DEF Found, Nearest, Unexpected

LEMMA ReadsContinue ==
    ASSUME WebhookInv, NEW d \in Call,
           \/ ReadExisting(d) \/ Preflight(d) \/ Lookup(d)
           \/ ReadLedger(d) \/ ReadEstimates(d)
    PROVE  \E c : Continues(d, c) /\ calls' = [calls EXCEPT ![d] = c]
<1> DEFINE c == calls[d]
<1>1. c # None
  BY DEF ReadExisting, Preflight, Lookup, ReadLedger, ReadEstimates, At
<1>2. c \in Delivery /\ TypeOK
  BY <1>1, CallTyped
<1>3. CASE ReadExisting(d)
  <2>1. CASE ~c.row /\ signals[c.tweet] # "absent"
    BY <1>1, <1>3, <2>1, FinishContinues DEF ReadExisting
  <2>2. CASE ~(~c.row /\ signals[c.tweet] # "absent")
    <3> DEFINE pc == IF c.tweet \in Completion THEN "preflight" ELSE "persist"
               n == [c EXCEPT !.seen = signals[c.tweet], !.pc = pc]
    <3>1. calls' = [calls EXCEPT ![d] = n]
      BY <1>3, <2>2 DEF ReadExisting, Step
    <3>2. pc \in {"preflight", "persist"} /\ signals[c.tweet] \in SignalType
      BY <1>2, DeliveryFields DEF TypeOK
    <3> HIDE DEF pc
    <3>3. /\ n \in Delivery /\ n.tweet = c.tweet /\ n.claimed = c.claimed /\ n.pc = pc
      BY <1>2, <3>2 DEF Delivery
    <3>4. Continues(d, n)
      BY <1>1, <3>2, <3>3 DEF Continues
    <3> QED
      BY <3>1, <3>4
  <2> QED
    BY <2>1, <2>2
<1>4. CASE Preflight(d)
  <2> DEFINE created == post[c.tweet].created
  <2>1. PICK fresh \in BOOLEAN, o \in Found(created) :
          calls' = [calls EXCEPT ![d] = [c EXCEPT
                        !.verdict = IF fresh /\ o = None THEN "deferred" ELSE @,
                        !.looked = fresh, !.obs = IF fresh THEN o ELSE None,
                        !.pc = "persist"]]
    BY <1>4 DEF Preflight, Step
  <2> DEFINE v == IF fresh /\ o = None THEN "deferred" ELSE c.verdict
             x == IF fresh THEN o ELSE None
             n == [c EXCEPT !.verdict = v, !.looked = fresh, !.obs = x, !.pc = "persist"]
  <2>2. calls' = [calls EXCEPT ![d] = n]
    BY <2>1
  <2>3. v \in SignalType /\ x \in Time \cup {None}
    BY <1>2, FoundTyped, DeliveryFields DEF SignalType
  <2> HIDE DEF v, x
  <2>4. n \in Delivery /\ n.tweet = c.tweet /\ n.claimed = c.claimed /\ n.pc = "persist"
    BY <1>2, <2>3 DEF Delivery
  <2>5. Continues(d, n)
    BY <1>1, <2>4 DEF Continues
  <2> QED
    BY <2>2, <2>5
<1>5. CASE Lookup(d)
  <2>1. PICK o \in Found(post[c.tweet].created) :
          calls' = [calls EXCEPT ![d] =
                      [c EXCEPT !.looked = TRUE, !.obs = o, !.pc = "evidence"]]
    BY <1>5 DEF Lookup, Step
  <2> DEFINE n == [c EXCEPT !.looked = TRUE, !.obs = o, !.pc = "evidence"]
  <2>2. o \in Time \cup {None}
    BY <1>2, FoundTyped
  <2>3. n \in Delivery /\ n.tweet = c.tweet /\ n.claimed = c.claimed /\ n.pc = "evidence"
    BY <1>2, <2>2 DEF Delivery
  <2>4. Continues(d, n)
    BY <1>1, <2>3 DEF Continues
  <2> QED
    BY <2>1, <2>4
<1>6. CASE ReadLedger(d)
  <2> DEFINE n == [c EXCEPT !.led = ledger]
  <2>1. n \in Delivery /\ n.tweet = c.tweet /\ n.claimed = c.claimed /\ n.pc = "evidence"
    BY <1>2, <1>6 DEF Delivery, TypeOK, ReadLedger, At
  <2>2. Continues(d, n)
    BY <1>1, <2>1 DEF Continues
  <2> QED
    BY <1>6, <2>2 DEF ReadLedger, Step
<1>7. CASE ReadEstimates(d)
  <2> DEFINE n == [c EXCEPT !.est = estimates]
  <2>1. n \in Delivery /\ n.tweet = c.tweet /\ n.claimed = c.claimed /\ n.pc = "evidence"
    BY <1>2, <1>7 DEF Delivery, TypeOK, ReadEstimates, At
  <2>2. Continues(d, n)
    BY <1>1, <2>1 DEF Continues
  <2> QED
    BY <1>7, <2>2 DEF ReadEstimates, Step
<1> QED
  BY <1>3, <1>4, <1>5, <1>6, <1>7

LEMMA WritesContinue ==
    ASSUME WebhookInv, NEW d \in Call,
           \/ Persist(d) \/ ReadNearest(d) \/ Confirm(d) \/ ReadEstimate(d)
           \/ WriteEstimate(d) \/ StepFails(d)
    PROVE  \E c : Continues(d, c) /\ calls' = [calls EXCEPT ![d] = c]
<1> DEFINE c == calls[d]
<1>1. c # None
  BY DEF Persist, ReadNearest, Confirm, ReadEstimate, WriteEstimate, StepFails, At
<1>2. c \in Delivery /\ TypeOK /\ CallOK(c)
  BY <1>1, CallTyped
<1>3. CASE \E pc \in {"done", "failed"} : Finish(d, pc)
  BY <1>1, <1>3, FinishContinues
<1>4. CASE Persist(d) /\ ~ \E pc \in {"done", "failed"} : Finish(d, pc)
  <2> DEFINE pc == IF c.looked THEN "evidence" ELSE "lookup"
             n == [c EXCEPT !.pc = pc]
  <2>1. calls' = [calls EXCEPT ![d] = n]
    BY <1>4 DEF Persist, Step
  <2>2. pc \in {"evidence", "lookup"}
    OBVIOUS
  <2> HIDE DEF pc
  <2>3. n \in Delivery /\ n.tweet = c.tweet /\ n.claimed = c.claimed /\ n.pc = pc
    BY <1>2, <2>2 DEF Delivery
  <2>4. Continues(d, n)
    BY <1>1, <2>2, <2>3 DEF Continues
  <2> QED
    BY <2>1, <2>4
<1>5. CASE ReadNearest(d) /\ ~ \E pc \in {"done", "failed"} : Finish(d, pc)
  <2>1. PICK o \in observations, pc \in {"confirm", "merge"} :
          calls' = [calls EXCEPT ![d] = [c EXCEPT !.obs = o.at, !.pc = pc]]
    BY <1>5 DEF ReadNearest, Step, Nearest, Unexpected
  <2> DEFINE n == [c EXCEPT !.obs = o.at, !.pc = pc]
  <2>2. o.at \in Time /\ c.pc = "nearest"
    BY <1>2, <1>5 DEF TypeOK, Observation, ReadNearest, At
  <2>3. /\ n \in Delivery /\ n.tweet = c.tweet /\ n.claimed = c.claimed /\ n.pc = pc
        /\ n.obs = o.at /\ n.key = c.key
    BY <1>2, <2>2 DEF Delivery
  <2>4. Continues(d, n)
    BY <1>1, <1>2, <2>2, <2>3 DEF Continues, CallOK
  <2> QED
    BY <2>1, <2>4
<1>6. CASE Confirm(d) /\ ~ \E pc \in {"done", "failed"} : Finish(d, pc)
  <2> DEFINE n == [c EXCEPT !.pc = "merge"]
  <2>1. calls' = [calls EXCEPT ![d] = n] /\ c.pc = "confirm"
    BY <1>6 DEF Confirm, Step, At
  <2>2. /\ n \in Delivery /\ n.tweet = c.tweet /\ n.claimed = c.claimed /\ n.pc = "merge"
        /\ n.obs = c.obs /\ n.key = c.key
    BY <1>2 DEF Delivery
  <2>3. Continues(d, n)
    BY <1>1, <1>2, <2>1, <2>2 DEF Continues, CallOK
  <2> QED
    BY <2>1, <2>3
<1>7. CASE ReadEstimate(d)
  <2>1. PICK e \in estimates \cup {None} :
          calls' = [calls EXCEPT ![d] =
            [c EXCEPT !.target = IF e = None THEN None ELSE e.key,
                      !.cluster = Announcements, !.pc = "write"]]
    BY <1>7 DEF ReadEstimate, Step
  <2> DEFINE k == IF e = None THEN None ELSE e.key
             n == [c EXCEPT !.target = k, !.cluster = Announcements, !.pc = "write"]
  <2>2. k \in Key \cup {None} /\ Announcements \subseteq Tweet /\ c.pc = "merge"
    BY <1>2, <1>7, <2>1 DEF TypeOK, Estimate, Announcements, ReadEstimate, At
  <2> HIDE DEF k
  <2>3. /\ n \in Delivery /\ n.tweet = c.tweet /\ n.claimed = c.claimed /\ n.pc = "write"
        /\ n.obs = c.obs /\ n.key = c.key
    BY <1>2, <2>2 DEF Delivery
  <2>4. Continues(d, n)
    BY <1>1, <1>2, <2>2, <2>3 DEF Continues, CallOK
  <2> QED
    BY <2>1, <2>4 DEF k
<1>8. CASE StepFails(d) /\ ~ \E pc \in {"done", "failed"} : Finish(d, pc)
  <2>1. \/ calls' = [calls EXCEPT ![d] = [c EXCEPT !.pc = "persist"]]
        \/ calls' = [calls EXCEPT ![d] = [c EXCEPT !.blind = TRUE, !.pc = "persist"]]
    BY <1>8 DEF StepFails, Step
  <2>2. ASSUME NEW n \in {[c EXCEPT !.pc = "persist"], [c EXCEPT !.blind = TRUE, !.pc = "persist"]}
        PROVE  n \in Delivery /\ n.tweet = c.tweet /\ n.claimed = c.claimed /\ n.pc = "persist"
    BY <1>2 DEF Delivery
  <2>3. /\ Continues(d, [c EXCEPT !.pc = "persist"])
        /\ Continues(d, [c EXCEPT !.blind = TRUE, !.pc = "persist"])
    BY <1>1, <2>2 DEF Continues
  <2> QED
    BY <2>1, <2>3
<1>9. WriteEstimate(d) => \E pc \in {"done", "failed"} : Finish(d, pc)
  BY DEF WriteEstimate
<1> QED
  BY <1>3, <1>4, <1>5, <1>6, <1>7, <1>8, <1>9

\* What the deliveries leave alone of the usage webhook.
LEMMA TiboFrame ==
    ASSUME TiboNext
    PROVE  UNCHANGED <<state, grants, requests, monitor, applied>>
<1>1. PICK d \in Call :
        \/ \E t \in Tweet : Deliver(d, t)
        \/ ReadExisting(d) \/ Preflight(d) \/ Persist(d) \/ Lookup(d)
        \/ ReadLedger(d) \/ ReadEstimates(d) \/ Claims(d) \/ ReadNearest(d)
        \/ Confirm(d) \/ ReadEstimate(d) \/ WriteEstimate(d)
        \/ StepFails(d) \/ Answered(d) \/ CallLost(d)
  BY DEF TiboNext
<1> QED
  BY <1>1 DEF Deliver, ReadExisting, Preflight, Persist, Lookup, ReadLedger,
     ReadEstimates, Claims, ReadNearest, Confirm, ReadEstimate, WriteEstimate, StepFails,
     Answered, CallLost, vars, tables

LEMMA TiboCore ==
    ASSUME UsageInv, TiboNext, TypeOK',
           {o.at : o \in observations'} = {o.at : o \in observations}
    PROVE  UsageInv'
<1>1. UNCHANGED <<state, grants, requests, monitor, applied>>
  BY TiboFrame
<1>2. /\ \A o \in observations : o.at \in {p.at : p \in observations'}
      /\ \A p \in observations' : p.at \in {o.at : o \in observations}
  OBVIOUS
<1>3. /\ \A o \in observations : \E p \in observations' : p.at = o.at
      /\ \A p \in observations' : \E o \in observations : o.at = p.at
  BY <1>2
<1>4. UNCHANGED <<Latest, Known>>
  BY <1>1 DEF Latest, Known, monitor
<1>5. ReadingsOK'
  BY <1>1, <1>4 DEF UsageInv, CoreOK, ReadingsOK, Precedes, Recovers, monitor
<1>6. QueueOK' /\ WaitingOK' /\ FirstOK'
  BY <1>1, <1>4 DEF UsageInv, CoreOK, QueueOK, WaitingOK, FirstOK, Ends, monitor
<1>7. CountOK'
  <2>1. ASSUME NEW r \in Slot, requests[r] # None PROVE RequestOK(requests[r])'
    <3>1. RequestOK(requests[r])
      BY <2>1 DEF UsageInv, CoreOK, CountOK
    <3> QED
      BY <1>1, <1>4, <3>1 DEF RequestOK, Working, Ends, Recovery
  <2> QED
    BY <1>1, <1>4, <2>1 DEF UsageInv, CoreOK, CountOK
<1>8. LostOK'
  <2>1. state # None /\ Recovers(state) => Observed(state)'
    BY <1>1, <1>3 DEF UsageInv, CoreOK, LostOK, Observed
  <2>2. ASSUME NEW r \in Slot, requests[r] # None PROVE LostOnlyToTwo(requests[r])'
    <3>1. LostOnlyToTwo(requests[r])
      BY <2>2 DEF UsageInv, CoreOK, LostOK
    <3> QED
      BY <1>1, <1>3, <3>1 DEF LostOnlyToTwo, Observed, Queued, Ends, Recovers, monitor
  <2> QED
    BY <1>1, <2>1, <2>2 DEF LostOK, Recovers
<1> QED
  BY <1>5, <1>6, <1>7, <1>8 DEF UsageInv, CoreOK

LEMMA ResolvedTyped ==
    ASSUME NEW c \in Delivery, c.led # None, c.est # None, NEW x
    PROVE  /\ Resolved(c, x) \subseteq Key
           /\ IsNew(c) => Resolved(c, x) \subseteq {Self(c.tweet)}
<1> DEFINE found == {e.key : e \in Matching(c)}
           keys == LedgerKeys(c) \cup found \cup DynamicKeys(c)
           canonical == {k \in {e.key : e \in {e \in Matching(c) : e.monitor}} :
                        /\ found = {k}
                        /\ keys \subseteq {k, Self(c.tweet)}
                        /\ \A t \in Tweet : c.led[t] = k => c.led[c.tweet] \in {None, k}}
           unclaimed == {e \in c.est : /\ e.monitor /\ e.obs <= x
                                       /\ \A t \in Tweet : c.led[t] # e.key}
<1>1. /\ c.tweet \in Tweet /\ c.est \subseteq Estimate
      /\ c.led \in [Tweet -> Key \cup {None}]
  BY DeliveryFields
<1>2. Self(c.tweet) \in Key
  BY <1>1, SelfKey
<1>3. LedgerKeys(c) \subseteq Key /\ DynamicKeys(c) \subseteq Key
  BY <1>1, <1>2 DEF LedgerKeys, DynamicKeys
<1>4. found \subseteq Key
  BY <1>1 DEF Matching, Estimate
<1>5. Resolved(c, x) = IF Cardinality(keys) = 1 THEN keys
                       ELSE IF keys # {} THEN canonical
                       ELSE IF unclaimed # {} THEN {} ELSE {Self(c.tweet)}
  BY DEF Resolved
<1>6. canonical \subseteq found
  OBVIOUS
<1>7. IsNew(c) => keys = {}
  BY DEF IsNew
<1> HIDE DEF found, canonical, unclaimed, keys
<1>8. keys \subseteq Key
  BY <1>3, <1>4 DEF keys
<1>9. Cardinality({}) = 0
  BY FS_EmptySet
<1> QED
  BY <1>2, <1>4, <1>5, <1>6, <1>7, <1>8, <1>9

\* What the claim of an event does: the ledger grows by at most the entry of the
\* post, and only a new adoption, of the post's own event, will be announced.
LEMMA ClaimsEffect ==
    ASSUME WebhookInv, NEW d \in Call, Claims(d)
    PROVE  /\ calls[d] # None /\ TypeOK /\ calls[d].tweet \in Tweet
           /\ \/ ledger' = ledger
              \/ /\ ledger[calls[d].tweet] = None
                 /\ \E k \in Key : ledger' = [ledger EXCEPT ![calls[d].tweet] = k]
           /\ \E c \in Delivery :
                /\ calls' = [calls EXCEPT ![d] = c]
                /\ c.tweet = calls[d].tweet
                /\ \/ c.pc \in {"done", "failed"} /\ c.claimed = calls[d].claimed
                   \/ /\ c.pc = "nearest" /\ c.key \in Key
                      /\ c.claimed =>
                            /\ ledger[c.tweet] = None
                            /\ ledger' = [ledger EXCEPT ![c.tweet] = Self(c.tweet)]
<1> DEFINE c == calls[d]
           t == c.tweet
           ks == Resolved(c, post[t].created)
           k == CHOOSE k \in ks : TRUE
           rows == {u \in Tweet : ledger[u] # None /\ (u = t \/ ledger[u] = k)}
           lost == ks = {} \/ RepresentativeOf(c, k) # t \/ ~(rows \subseteq {t})
           n == [NewDelivery(t) EXCEPT !.pc = "nearest", !.row = FALSE, !.key = k,
                                       !.claimed = ClaimedNew(c, rows)]
<1>1. /\ c # None /\ c.led # None /\ c.est # None
      /\ IF lost
         THEN /\ Finish(d, IF ks # {} /\ RepresentativeOf(c, k) # t
                           THEN "failed" ELSE "done")
              /\ UNCHANGED ledger
         ELSE /\ ledger' = IF rows = {} THEN [ledger EXCEPT ![t] = k] ELSE ledger
              /\ Step(d, n)
  BY DEF Claims, At
<1>2. c \in Delivery /\ TypeOK /\ t \in Tweet
  BY <1>1, CallTyped
<1>3. ks \subseteq Key /\ (IsNew(c) => ks \subseteq {Self(t)})
  BY <1>1, <1>2, ResolvedTyped
<1>4. ks # {} => k \in ks
  OBVIOUS
<1>5. rows = {} => ledger[t] = None
  BY <1>2
<1>6. ClaimedNew(c, rows) \in BOOLEAN /\ (ClaimedNew(c, rows) => IsNew(c) /\ rows = {})
  BY DEF ClaimedNew
<1> HIDE DEF ks, k, rows
<1>7. CASE lost
  <2>1. PICK pc \in {"done", "failed"} : Finish(d, pc)
    BY <1>1, <1>7
  <2>2. /\ Over(c, pc) \in Delivery /\ Over(c, pc).tweet = t
        /\ Over(c, pc).claimed = c.claimed /\ Over(c, pc).pc = pc
    BY <1>2, OverTyped
  <2>3. calls' = [calls EXCEPT ![d] = Over(c, pc)]
    BY <2>1 DEF Finish, Step, Over
  <2>4. ledger' = ledger
    BY <1>1, <1>7
  <2> HIDE DEF lost, n
  <2> QED
    BY <1>1, <1>2, <2>2, <2>3, <2>4
<1>8. CASE ~lost
  <2>1. ks # {} /\ k \in Key
    BY <1>3, <1>4, <1>8
  <2>2. /\ ledger' = IF rows = {} THEN [ledger EXCEPT ![t] = k] ELSE ledger
        /\ calls' = [calls EXCEPT ![d] = n]
    BY <1>1, <1>8 DEF Step
  <2> DEFINE new == ClaimedNew(c, rows)
             b == NewDelivery(t)
  <2>3. new \in BOOLEAN /\ (new => rows = {} /\ k = Self(t))
    BY <1>3, <1>4, <1>6, <2>1
  <2>4. b \in Delivery /\ b.tweet = t
    BY <1>2, NewDeliveryTyped
  <2> HIDE DEF new, b, lost
  <2>5. LET m == [b EXCEPT !.pc = "nearest", !.row = FALSE, !.key = k, !.claimed = new]
        IN  m \in Delivery /\ m.tweet = t /\ m.pc = "nearest" /\ m.key = k /\ m.claimed = new
    BY <2>1, <2>3, <2>4 DEF Delivery
  <2>6. n = [b EXCEPT !.pc = "nearest", !.row = FALSE, !.key = k, !.claimed = new]
    BY DEF b, new
  <2>7. n \in Delivery /\ n.tweet = t /\ n.pc = "nearest" /\ n.key = k /\ n.claimed = new
    BY <2>5, <2>6
  <2> HIDE DEF n
  <2>8. n.claimed => ledger[t] = None /\ ledger' = [ledger EXCEPT ![t] = Self(t)]
    BY <1>5, <2>2, <2>3, <2>7
  <2>9. \/ ledger' = ledger
        \/ ledger[t] = None /\ \E x \in Key : ledger' = [ledger EXCEPT ![t] = x]
    BY <1>5, <2>1, <2>2
  <2> QED
    BY <1>1, <1>2, <2>1, <2>2, <2>7, <2>8, <2>9
<1> QED
  BY <1>7, <1>8

\* What the steps that write do to the tables.
LEMMA ConfirmEffect ==
    ASSUME WebhookInv, NEW d \in Call, Confirm(d)
    PROVE  /\ observations' \subseteq Observation
           /\ \/ observations' = observations
              \/ \E o \in observations :
                    /\ o.at = calls[d].obs /\ o.status = "observed"
                    /\ observations' = (observations \ {o}) \cup
                            {[o EXCEPT !.status = "confirmed", !.tibo = calls[d].tweet]}
                    /\ [o EXCEPT !.status = "confirmed", !.tibo = calls[d].tweet].at = o.at
                    /\ [o EXCEPT !.status = "confirmed", !.tibo = calls[d].tweet].prev = o.prev
<1> DEFINE c == calls[d]
           o == CHOOSE o \in observations : o.at = c.obs
           p == [o EXCEPT !.status = "confirmed", !.tibo = c.tweet]
<1>1. c # None /\ c.pc = "confirm"
  BY DEF Confirm, At
<1>2. c.tweet \in Tweet /\ TypeOK /\ CallOK(c)
  BY <1>1, CallTyped
<1>3. o \in observations /\ o.at = c.obs
  BY <1>1, <1>2 DEF CallOK
<1>4. observations' = IF Confirmable(o) THEN (observations \ {o}) \cup {p} ELSE observations
  BY DEF Confirm
<1>5. o \in Observation
  BY <1>2, <1>3 DEF TypeOK
<1> HIDE DEF o
<1>6. p \in Observation /\ p.at = o.at /\ p.prev = o.prev
  BY <1>2, <1>5 DEF Observation
<1> QED
  BY <1>2, <1>3, <1>4, <1>6 DEF TypeOK, Confirmable

LEMMA MergedTyped ==
    ASSUME WebhookInv, NEW d \in Call, At(d, "write")
    PROVE  Merged(calls[d]) \in Estimate
<1> DEFINE c == calls[d]
<1>1. c # None /\ c.pc = "write"
  BY DEF At
<1>2. c \in Delivery /\ CallOK(c)
  BY <1>1, CallTyped
<1>3. /\ c.obs \in Time /\ c.key \in Key /\ c.target \in Key \cup {None}
      /\ c.cluster \subseteq Tweet /\ c.tweet \in Tweet
  BY <1>1, <1>2, DeliveryFields DEF CallOK
<1>4. Representative(c.cluster) \in Tweet \cup {None}
  BY <1>3 DEF Representative
<1> HIDE DEF c
<1> QED
  BY <1>3, <1>4 DEF Merged, Estimate, c

LEMMA TiboTables ==
    ASSUME WebhookInv, TiboNext
    PROVE  /\ TypeOK'
           /\ {o.at : o \in observations'} = {o.at : o \in observations}
           /\ LedgerStays
<1>1. PICK d \in Call :
        \/ \E t \in Tweet : Deliver(d, t)
        \/ ReadExisting(d) \/ Preflight(d) \/ Persist(d) \/ Lookup(d)
        \/ ReadLedger(d) \/ ReadEstimates(d) \/ Claims(d) \/ ReadNearest(d)
        \/ Confirm(d) \/ ReadEstimate(d) \/ WriteEstimate(d)
        \/ StepFails(d) \/ Answered(d) \/ CallLost(d)
  BY DEF TiboNext
<1>2. TypeOK
  BY DEF WebhookInv, WebhookTypeOK
<1>3. UNCHANGED <<state, grants, requests, monitor, applied>>
  BY TiboFrame
<1>4. SUFFICES /\ observations' \subseteq Observation /\ estimates' \subseteq Estimate
               /\ signals' \in [Tweet -> SignalType]
               /\ ledger' \in [Tweet -> Key \cup {None}]
               /\ faults' \in 0..MaxFaults
               /\ {o.at : o \in observations'} = {o.at : o \in observations}
               /\ LedgerStays
  BY <1>2, <1>3 DEF TypeOK, monitor
<1>5. CASE Persist(d)
  <2>1. calls[d] # None
    BY <1>5 DEF Persist, At
  <2>2. calls[d].verdict \in SignalType
    BY <2>1, CallTyped, DeliveryFields
  <2>3. UNCHANGED <<observations, estimates, ledger, faults>>
    BY <1>5 DEF Persist
  <2>4. signals' = signals \/ signals' = [signals EXCEPT ![calls[d].tweet] = calls[d].verdict]
    BY <1>5 DEF Persist
  <2>5. signals' \in [Tweet -> SignalType]
    BY <1>2, <2>2, <2>4 DEF TypeOK
  <2> QED
    BY <1>2, <2>3, <2>5 DEF TypeOK, LedgerStays
<1>6. CASE Claims(d)
  <2>1. UNCHANGED <<observations, estimates, signals, faults>>
    BY <1>6 DEF Claims
  <2>2. ledger \in [Tweet -> Key \cup {None}]
    BY <1>2 DEF TypeOK
  <2>3. \/ ledger' = ledger
        \/ \E t \in Tweet, k \in Key :
              ledger[t] = None /\ ledger' = [ledger EXCEPT ![t] = k]
    BY <1>6, ClaimsEffect
  <2>4. LedgerStays /\ ledger' \in [Tweet -> Key \cup {None}]
    <3>1. ASSUME NEW t \in Tweet, NEW k \in Key, ledger[t] = None,
                 ledger' = [ledger EXCEPT ![t] = k]
          PROVE  LedgerStays /\ ledger' \in [Tweet -> Key \cup {None}]
      BY <2>2, <3>1 DEF LedgerStays
    <3> QED
      BY <2>2, <2>3, <3>1 DEF LedgerStays
  <2> QED
    BY <1>2, <2>1, <2>4 DEF TypeOK
<1>7. CASE Confirm(d)
  <2>1. UNCHANGED <<estimates, signals, ledger, faults>>
    BY <1>7 DEF Confirm
  <2>2. /\ observations' \subseteq Observation
        /\ {o.at : o \in observations'} = {o.at : o \in observations}
    <3>1. CASE observations' = observations
      BY <1>2, <3>1 DEF TypeOK
    <3>2. CASE observations' # observations
      <4> DEFINE p(o) == [o EXCEPT !.status = "confirmed", !.tibo = calls[d].tweet]
      <4>1. PICK o \in observations :
              /\ observations' = (observations \ {o}) \cup {p(o)} /\ p(o).at = o.at
        BY <1>7, <3>2, ConfirmEffect
      <4> HIDE DEF p
      <4>2. {x.at : x \in observations'} = {x.at : x \in observations}
        BY <4>1
      <4> QED
        BY <1>7, <4>2, ConfirmEffect
    <3> QED
      BY <3>1, <3>2
  <2> QED
    BY <1>2, <2>1, <2>2 DEF TypeOK, LedgerStays
<1>8. CASE WriteEstimate(d)
  <2>1. UNCHANGED <<observations, signals, ledger, faults>>
    BY <1>8 DEF WriteEstimate
  <2>2. Merged(calls[d]) \in Estimate
    BY <1>8, MergedTyped DEF WriteEstimate
  <2>3. estimates' \subseteq estimates \cup {Merged(calls[d])}
    BY <1>8 DEF WriteEstimate
  <2> QED
    BY <1>2, <2>1, <2>2, <2>3 DEF TypeOK, LedgerStays
<1>9. CASE StepFails(d) \/ CallLost(d)
  <2>1. UNCHANGED <<observations, estimates, signals, ledger>> /\ Fault
    BY <1>9 DEF StepFails, CallLost, tables
  <2> QED
    BY <1>2, <2>1, FaultTyped DEF TypeOK, LedgerStays
<1>10. CASE \/ \E t \in Tweet : Deliver(d, t)
            \/ ReadExisting(d) \/ Preflight(d) \/ Lookup(d) \/ ReadLedger(d)
            \/ ReadEstimates(d) \/ ReadNearest(d) \/ ReadEstimate(d) \/ Answered(d)
  <2>1. UNCHANGED vars
    BY <1>10 DEF Deliver, ReadExisting, Preflight, Lookup, ReadLedger, ReadEstimates,
       ReadNearest, ReadEstimate, Answered
  <2> QED
    BY <1>2, <2>1 DEF vars, tables, TypeOK, LedgerStays
<1> QED
  BY <1>1, <1>5, <1>6, <1>7, <1>8, <1>9, <1>10

LEMMA UsageTables ==
    ASSUME UsageInv, UsageNext
    PROVE  LedgerStays /\ ObservationsStay
<1>1. TypeOK
  BY DEF UsageInv
<1>2. CASE Enqueue \/ Heartbeat \/ Send \/ GiveUp
  BY <1>2 DEF Enqueue, Heartbeat, Send, GiveUp, tables, LedgerStays, ObservationsStay
<1>3. ASSUME NEW r \in Slot, Serve(r) \/ Fails(r)
      PROVE  LedgerStays /\ ObservationsStay
  <2>1. CASE Apply(r)
    <3>1. ledger' = ledger /\ observations \subseteq observations'
      BY <2>1 DEF Apply
    <3> QED
      BY <3>1 DEF LedgerStays, ObservationsStay
  <2>2. CASE Claim(r)
    <3> DEFINE e == PlannedEstimate(requests[r])
    <3>1. observations' = observations /\ ledger' = ClaimOutcome(e.primary, e.key)
      BY <2>2 DEF Claim
    <3> HIDE DEF e
    <3>2. LedgerStays
      BY <1>1, <3>1 DEF LedgerStays, ClaimOutcome, TypeOK
    <3> QED
      BY <3>1, <3>2 DEF ObservationsStay
  <2>3. CASE \/ ReadState(r) \/ LookupNotice(r) \/ LookupMatch(r) \/ WriteStale(r)
             \/ Answer(r) \/ Fails(r)
    BY <2>3 DEF ReadState, LookupNotice, LookupMatch, WriteStale, Answer, Fails,
       LookupFails, WriteFails, ClaimFails, Crash, tables, LedgerStays, ObservationsStay
  <2> QED
    BY <1>3, <2>1, <2>2, <2>3 DEF Serve
<1> QED
  BY <1>2, <1>3 DEF UsageNext

\* The deliveries and the announcements, as far as a step leaves them alone.
LEMMA CallsRest ==
    ASSUME WebhookInv, UNCHANGED webhook, LedgerStays, ObservationsStay
    PROVE  CallsOK' /\ AnnouncedOnce'
<1>1. \A t \in Tweet : ledger[t] = Self(t) => ledger'[t] = Self(t)
  BY SelfKey DEF LedgerStays
<1>2. ASSUME NEW d \in Call, calls[d] # None PROVE CallOK(calls[d])'
  <2>1. calls[d].tweet \in Tweet /\ CallOK(calls[d])
    BY <1>2, CallTyped
  <2> QED
    BY <1>1, <2>1 DEF CallOK, webhook, ObservationsStay
<1> QED
  BY <1>1, <1>2 DEF CallsOK, AnnouncedOnce, webhook, WebhookInv

LEMMA DeliverCalls ==
    ASSUME WebhookInv, NEW d \in Call, NEW t \in Tweet, Deliver(d, t)
    PROVE  /\ calls' \in [Call -> Delivery \cup {None}] /\ post' \in [Tweet -> Post]
           /\ CallsOK' /\ AnnouncedOnce'
<1> DEFINE n == NewDelivery(t)
<1>1. TypeOK /\ calls \in [Call -> Delivery \cup {None}] /\ post \in [Tweet -> Post]
  BY DEF WebhookInv, WebhookTypeOK, Post
<1>2. n \in Delivery /\ n.tweet = t /\ ~n.claimed /\ n.pc = "existing"
  BY <1>1, NewDeliveryTyped
<1>3. calls' = [calls EXCEPT ![d] = n] /\ post[t].sends < MaxSends /\ UNCHANGED vars
  BY DEF Deliver
<1>4. PICK c \in IF post[t].sends = 0 THEN 0..LastRead ELSE {post[t].created} :
        post' = [post EXCEPT
            ![t].sends = @ + 1, ![t].created = c,
            ![t].followed = IF post[t].sends > 0 THEN @
                            ELSE {o.at : o \in {o \in observations :
                                                  Public(o) /\ o.at <= c}}]
  BY DEF Deliver
<1>5. c \in 0..MaxAt
  <2>1. LastRead \in Nat /\ LastRead <= MaxAt
    BY <1>1, SnapshotFields, BoundsAssumption DEF LastRead, TypeOK
  <2>2. post[t].created \in 0..MaxAt
    BY <1>1, PostFields
  <2> QED
    BY <2>1, <2>2, BoundsAssumption
<1> DEFINE f == IF post[t].sends > 0 THEN post[t].followed
                ELSE {o.at : o \in {o \in observations : Public(o) /\ o.at <= c}}
           p == [post[t] EXCEPT !.sends = @ + 1, !.created = c, !.followed = f]
<1>6. f \subseteq Time
  BY <1>1, PostFields DEF TypeOK, Observation
<1>7. post' = [post EXCEPT ![t] = p]
  BY <1>1, <1>4
<1> HIDE DEF f, n
<1>8. /\ p \in Post /\ p.announced = post[t].announced /\ p.sends >= 1
  <2> DEFINE x == post[t]
             s == x.sends + 1
  <2>1. x \in Post
    BY <1>1
  <2>2. s \in 0..MaxSends /\ s >= 1
    BY <1>3, <2>1, PostFields, WebhookAssumption
  <2>3. p = [x EXCEPT !.sends = s, !.created = c, !.followed = f]
    OBVIOUS
  <2> HIDE DEF x, s, p
  <2>4. LET y == [x EXCEPT !.sends = s, !.created = c, !.followed = f]
        IN  y \in Post /\ y.announced = x.announced /\ y.sends = s
    BY <1>5, <1>6, <2>1, <2>2 DEF Post
  <2> QED
    BY <2>2, <2>3, <2>4 DEF x
<1> HIDE DEF p
<1>9. \A u \in Tweet : post'[u].announced = post[u].announced
  BY <1>1, <1>7, <1>8
<1>10. \A u \in Tweet : post[u].sends >= 1 => post'[u].sends >= 1
  BY <1>1, <1>7, <1>8
<1>11. ASSUME NEW e \in Call, calls'[e] # None
       PROVE  /\ CallOK(calls[e])'
              /\ calls'[e].claimed => calls[e] # None /\ calls'[e] = calls[e]
  <2>1. CASE e = d
    <3>1. calls'[e] = n
      BY <1>1, <1>3, <2>1
    <3> QED
      BY <1>1, <1>2, <1>7, <1>8, <3>1 DEF CallOK
  <2>2. CASE e # d
    <3>1. calls'[e] = calls[e]
      BY <1>1, <1>3, <2>2
    <3>2. calls[e].tweet \in Tweet /\ CallOK(calls[e])
      BY <1>11, <3>1, CallTyped
    <3> QED
      BY <1>3, <1>9, <1>10, <1>11, <3>1, <3>2 DEF CallOK, vars, tables
  <2> QED
    BY <2>1, <2>2
<1>12. CallsOK'
  BY <1>11 DEF CallsOK, WebhookInv
<1>13. AnnouncedOnce'
  BY <1>3, <1>9 DEF AnnouncedOnce, WebhookInv, vars, tables
<1> QED
  BY <1>1, <1>2, <1>3, <1>7, <1>8, <1>12, <1>13

LEMMA ClaimsCalls ==
    ASSUME WebhookInv, NEW d \in Call, Claims(d), LedgerStays
    PROVE  /\ calls' \in [Call -> Delivery \cup {None}]
           /\ CallsOK' /\ AnnouncedOnce'
<1>1. calls \in [Call -> Delivery \cup {None}] /\ ledger \in [Tweet -> Key \cup {None}]
  BY DEF WebhookInv, WebhookTypeOK, TypeOK
<1>2. UNCHANGED <<observations, post>>
  BY DEF Claims
<1>3. PICK c \in Delivery :
         /\ calls[d] # None
         /\ calls' = [calls EXCEPT ![d] = c]
         /\ c.tweet = calls[d].tweet
         /\ \/ c.pc \in {"done", "failed"} /\ c.claimed = calls[d].claimed
            \/ /\ c.pc = "nearest" /\ c.key \in Key
               /\ c.claimed => /\ ledger[c.tweet] = None
                               /\ ledger' = [ledger EXCEPT ![c.tweet] = Self(c.tweet)]
  BY ClaimsEffect
<1>4. CASE c.pc = "nearest" /\ c.key \in Key /\ c.claimed /\ ledger[c.tweet] = None
           /\ ledger' = [ledger EXCEPT ![c.tweet] = Self(c.tweet)]
  <2>1. c.tweet \in Tweet /\ CallOK(calls[d])
    BY <1>3, CallTyped
  <2>2. ledger'[c.tweet] = Self(c.tweet) /\ ledger[c.tweet] # Self(c.tweet)
    BY <1>1, <1>4, <2>1, SelfKey
  <2>3. post[c.tweet].announced = 0
    <3>1. post[c.tweet] \in Post
      BY <2>1 DEF WebhookInv, WebhookTypeOK, Post
    <3> QED
      BY <2>1, <2>2, <3>1, PostFields DEF WebhookInv, AnnouncedOnce
  <2>4. \A t \in Tweet : ledger[t] = Self(t) => ledger'[t] = Self(t)
    BY SelfKey DEF LedgerStays
  <2>5. ASSUME NEW e \in Call, calls'[e] # None, e # d
        PROVE  /\ calls[e] # None /\ calls'[e] = calls[e] /\ CallOK(calls[e])'
               /\ calls[e].claimed => calls[e].tweet # c.tweet
    <3>1. calls'[e] = calls[e]
      BY <1>1, <1>3, <2>5
    <3>2. calls[e].tweet \in Tweet /\ CallOK(calls[e])
      BY <2>5, <3>1, CallTyped
    <3> QED
      BY <1>2, <2>2, <2>4, <2>5, <3>1, <3>2 DEF CallOK
  <2>6. calls'[d] = c
    BY <1>1, <1>3
  <2>7. CallOK(calls[d])'
    BY <1>2, <1>3, <1>4, <2>1, <2>2, <2>3, <2>6 DEF CallOK
  <2>8. CallsOK'
    BY <2>5, <2>6, <2>7 DEF CallsOK, WebhookInv
  <2>9. AnnouncedOnce'
    BY <1>2, <2>4 DEF AnnouncedOnce, WebhookInv
  <2> QED
    BY <1>1, <1>3, <2>8, <2>9
<1>5. CASE Continues(d, c)
  BY <1>2, <1>3, <1>5, ContinuesCalls DEF ObservationsStay
<1>6. c.pc \in {"done", "failed"} /\ c.claimed = calls[d].claimed => Continues(d, c)
  BY <1>3 DEF Continues
<1>7. c.pc = "nearest" /\ c.key \in Key /\ ~c.claimed => Continues(d, c)
  BY <1>3 DEF Continues
<1> QED
  BY <1>3, <1>4, <1>5, <1>6, <1>7

LEMMA EndCalls ==
    ASSUME WebhookInv, NEW d \in Call, Answered(d) \/ CallLost(d)
    PROVE  /\ calls' \in [Call -> Delivery \cup {None}] /\ post' \in [Tweet -> Post]
           /\ CallsOK' /\ AnnouncedOnce'
<1> DEFINE c == calls[d]
           p == [post[c.tweet] EXCEPT !.settled = TRUE,
                    !.announced = @ + (IF c.claimed THEN 1 ELSE 0)]
<1>1. calls \in [Call -> Delivery \cup {None}] /\ post \in [Tweet -> Post]
  BY DEF WebhookInv, WebhookTypeOK, Post
<1>2. /\ c # None /\ calls' = [calls EXCEPT ![d] = None]
      /\ UNCHANGED <<observations, ledger>>
  BY DEF Answered, CallLost, vars, tables
<1>3. post' = post \/ post' = [post EXCEPT ![c.tweet] = p]
  BY <1>1 DEF Answered, CallLost
<1>4. /\ c.tweet \in Tweet /\ c \in Delivery /\ CallOK(c) /\ post[c.tweet] \in Post
      /\ post[c.tweet].announced <= 1 /\ c.claimed \in BOOLEAN
  BY <1>2, CallTyped, DeliveryFields DEF WebhookInv, AnnouncedOnce
<1>5. /\ p \in Post /\ p.sends = post[c.tweet].sends
      /\ p.announced = IF c.claimed THEN 1 ELSE post[c.tweet].announced
  <2>1. c.claimed => post[c.tweet].announced = 0
    BY <1>4 DEF CallOK
  <2>2. post[c.tweet].sends >= 1 /\ post[c.tweet].sends <= MaxSends
    BY <1>4, PostFields DEF CallOK
  <2>3. MaxSends >= 1
    BY <1>4, <2>2, PostFields, WebhookAssumption
  <2>4. post[c.tweet].announced \in 0..MaxSends
    BY <1>4 DEF Post
  <2> DEFINE x == post[c.tweet]
             a == x.announced + (IF c.claimed THEN 1 ELSE 0)
  <2>5. /\ a \in 0..MaxSends
        /\ a = IF c.claimed THEN 1 ELSE x.announced
    BY <2>1, <2>3, <2>4, WebhookAssumption
  <2>6. p = [x EXCEPT !.settled = TRUE, !.announced = a] /\ x \in Post
    BY <1>4
  <2> HIDE DEF x, a, p
  <2>7. LET y == [x EXCEPT !.settled = TRUE, !.announced = a]
        IN  y \in Post /\ y.announced = a /\ y.sends = x.sends
    BY <2>5, <2>6 DEF Post
  <2> QED
    BY <2>5, <2>6, <2>7 DEF x
<1> HIDE DEF p
<1>6. ASSUME NEW e \in Call, calls'[e] # None
      PROVE  /\ e # d /\ calls'[e] = calls[e]
             /\ calls[e] # None /\ CallOK(calls[e])'
  <2>1. e # d /\ calls'[e] = calls[e]
    BY <1>1, <1>2, <1>6
  <2>2. calls[e].tweet \in Tweet /\ CallOK(calls[e])
    BY <1>6, <2>1, CallTyped
  <2>3. calls[e].claimed /\ c.claimed => calls[e].tweet # c.tweet
    BY <1>2, <1>6, <2>1 DEF WebhookInv, CallsOK
  <2>4. post'[calls[e].tweet].sends = post[calls[e].tweet].sends
    BY <1>1, <1>3, <1>4, <1>5, <2>2
  <2>5. calls[e].claimed => post'[calls[e].tweet].announced = 0
    <3>1. CASE c.claimed
      BY <1>1, <1>3, <1>4, <2>2, <2>3, <3>1 DEF CallOK
    <3>2. CASE ~c.claimed
      BY <1>1, <1>3, <1>4, <1>5, <2>2, <3>2 DEF CallOK
    <3> QED
      BY <3>1, <3>2
  <2> HIDE DEF c
  <2> QED
    BY <1>2, <1>6, <2>1, <2>2, <2>4, <2>5 DEF CallOK
<1>7. CallsOK'
  BY <1>6 DEF CallsOK, WebhookInv
<1>8. AnnouncedOnce'
  <2> SUFFICES ASSUME NEW t \in Tweet
               PROVE  /\ post'[t].announced <= 1
                      /\ post'[t].announced = 1 => ledger'[t] = Self(t)
    BY DEF AnnouncedOnce
  <2>1. /\ post[t].announced <= 1
        /\ post[t].announced = 1 => ledger[t] = Self(t)
    BY DEF WebhookInv, AnnouncedOnce
  <2>2. CASE post' = [post EXCEPT ![c.tweet] = p] /\ t = c.tweet
    <3>1. post'[t] = p
      BY <1>1, <2>2
    <3>2. c.claimed => ledger[t] = Self(t)
      BY <1>4, <2>2 DEF CallOK
    <3> QED
      BY <1>2, <1>5, <2>1, <2>2, <3>1, <3>2
  <2>3. CASE ~(post' = [post EXCEPT ![c.tweet] = p] /\ t = c.tweet)
    <3>1. post'[t] = post[t]
      BY <1>1, <1>3, <2>3
    <3> QED
      BY <1>2, <2>1, <3>1
  <2> QED
    BY <2>2, <2>3
<1> QED
  BY <1>1, <1>2, <1>3, <1>4, <1>5, <1>7, <1>8

LEMMA TiboStep ==
    ASSUME WebhookInv, TiboNext
    PROVE  WebhookInv'
<1>1. PICK d \in Call :
        \/ \E t \in Tweet : Deliver(d, t)
        \/ ReadExisting(d) \/ Preflight(d) \/ Persist(d) \/ Lookup(d)
        \/ ReadLedger(d) \/ ReadEstimates(d) \/ Claims(d) \/ ReadNearest(d)
        \/ Confirm(d) \/ ReadEstimate(d) \/ WriteEstimate(d)
        \/ StepFails(d) \/ Answered(d) \/ CallLost(d)
  BY DEF TiboNext
<1>2. /\ TypeOK' /\ LedgerStays
      /\ {o.at : o \in observations'} = {o.at : o \in observations}
  BY TiboTables
<1>3. UsageInv'
  BY <1>2, TiboCore DEF WebhookInv
<1>4. ObservationsStay
  <2>1. \A o \in observations : o.at \in {p.at : p \in observations'}
    BY <1>2
  <2> QED
    BY <2>1 DEF ObservationsStay
<1>5. post \in [Tweet -> Post]
  BY DEF WebhookInv, WebhookTypeOK, Post
<1>6. /\ calls' \in [Call -> Delivery \cup {None}] /\ post' \in [Tweet -> Post]
      /\ CallsOK' /\ AnnouncedOnce'
  <2>1. CASE \E t \in Tweet : Deliver(d, t)
    BY <2>1, DeliverCalls
  <2>2. CASE Claims(d)
    <3>1. post' = post
      BY <2>2 DEF Claims
    <3> QED
      BY <1>2, <1>5, <2>2, <3>1, ClaimsCalls
  <2>3. CASE Answered(d) \/ CallLost(d)
    BY <2>3, EndCalls
  <2>4. CASE \/ ReadExisting(d) \/ Preflight(d) \/ Persist(d) \/ Lookup(d)
             \/ ReadLedger(d) \/ ReadEstimates(d) \/ ReadNearest(d) \/ Confirm(d)
             \/ ReadEstimate(d) \/ WriteEstimate(d) \/ StepFails(d)
    <3>1. post' = post
      BY <2>4 DEF ReadExisting, Preflight, Persist, Lookup, ReadLedger, ReadEstimates,
         ReadNearest, Confirm, ReadEstimate, WriteEstimate, StepFails
    <3>2. PICK c : Continues(d, c) /\ calls' = [calls EXCEPT ![d] = c]
      BY <2>4, ReadsContinue, WritesContinue
    <3> QED
      BY <1>2, <1>4, <1>5, <3>1, <3>2, ContinuesCalls
  <2> QED
    BY <1>1, <2>1, <2>2, <2>3, <2>4
<1> QED
  BY <1>2, <1>3, <1>6 DEF WebhookInv, WebhookTypeOK, Post

LEMMA WebhookStep ==
    ASSUME WebhookInv, [WebhookNext]_allvars
    PROVE  WebhookInv'
<1>1. CASE UsageNext /\ UNCHANGED webhook
  <2>1. UsageInv'
    BY <1>1, UsageTyped, UsageCore DEF WebhookInv, UsageInv
  <2>2. CallsOK' /\ AnnouncedOnce'
    BY <1>1, UsageTables, CallsRest DEF WebhookInv
  <2> QED
    BY <1>1, <2>1, <2>2 DEF WebhookInv, WebhookTypeOK, UsageInv, webhook
<1>2. CASE TiboNext
  BY <1>2, TiboStep
<1>3. CASE UNCHANGED allvars
  <2>1. UsageInv' /\ UNCHANGED webhook
    BY <1>3, UsageStays DEF WebhookInv, allvars
  <2>2. LedgerStays /\ ObservationsStay
    BY <1>3 DEF allvars, vars, tables, LedgerStays, ObservationsStay
  <2> QED
    BY <2>1, <2>2, CallsRest DEF WebhookInv, WebhookTypeOK, UsageInv, webhook
<1> QED
  BY <1>1, <1>2, <1>3 DEF WebhookNext

LEMMA WebhookStart == WebhookInit => WebhookInv
<1> SUFFICES ASSUME WebhookInit PROVE WebhookInv
  OBVIOUS
<1>1. UsageInv
  BY UsageInit DEF WebhookInit
<1>2. WebhookTypeOK
  BY <1>1, BoundsAssumption, WebhookAssumption DEF WebhookInit, WebhookTypeOK, UsageInv
<1> QED
  BY <1>1, <1>2 DEF WebhookInit, WebhookInv, CallsOK, AnnouncedOnce

\* With the deliveries beside it, the usage webhook's invariant stands, and no two
\* deliveries may announce the same post.
THEOREM WebhookInvariant == WebhookSpec => []WebhookInv
BY WebhookStart, WebhookStep, PTL DEF WebhookSpec

\* Both webhooks keep the types of their tables, requests and deliveries, for any
\* posts, any number of deliveries at once, and any faults.
THEOREM WebhookTypeCorrect == WebhookSpec => []WebhookTypeOK
<1>1. WebhookInv => WebhookTypeOK
  BY DEF WebhookInv
<1> QED
  BY <1>1, WebhookInvariant, PTL

\* claim_tibo_formal_adoption answers claimed_new once for a post, whatever
\* deliveries of it overlap or are repeated, and only for the post's own event.
THEOREM AnnouncedOnlyOnce == WebhookSpec => []AnnouncedOnce
<1>1. WebhookInv => AnnouncedOnce
  BY DEF WebhookInv
<1> QED
  BY <1>1, WebhookInvariant, PTL

\* A confirmed recovery keeps the readings it lies between.
LEMMA TiboRecoveries ==
    ASSUME WebhookInv, TiboNext
    PROVE  Recoveries' = Recoveries
<1>1. PICK d \in Call :
        \/ \E t \in Tweet : Deliver(d, t)
        \/ ReadExisting(d) \/ Preflight(d) \/ Persist(d) \/ Lookup(d)
        \/ ReadLedger(d) \/ ReadEstimates(d) \/ Claims(d) \/ ReadNearest(d)
        \/ Confirm(d) \/ ReadEstimate(d) \/ WriteEstimate(d)
        \/ StepFails(d) \/ Answered(d) \/ CallLost(d)
  BY DEF TiboNext
<1>2. CASE UNCHANGED observations
  BY <1>2 DEF Recoveries
<1>3. CASE Confirm(d) /\ observations' # observations
  <2> DEFINE p(o) == [o EXCEPT !.status = "confirmed", !.tibo = calls[d].tweet]
  <2>1. PICK o \in observations :
          /\ observations' = (observations \ {o}) \cup {p(o)}
          /\ p(o).at = o.at /\ p(o).prev = o.prev
    BY <1>3, ConfirmEffect
  <2> HIDE DEF p
  <2> QED
    BY <2>1 DEF Recoveries
<1>4. ~Confirm(d) => UNCHANGED observations
  BY <1>1 DEF Deliver, ReadExisting, Preflight, Persist, Lookup, ReadLedger,
     ReadEstimates, Claims, ReadNearest, ReadEstimate, WriteEstimate, StepFails,
     Answered, CallLost, vars, tables
<1> QED
  BY <1>2, <1>3, <1>4

\* Beside the posts' webhook, which writes to its tables, the monitor's webhook
\* keeps what UsageLedger promises.
THEOREM TogetherImplementLedger == WebhookSpec => ImplementsLedger
<1>1. ASSUME WebhookInv, [WebhookNext]_allvars PROVE [Ledger!Next]_Ledger!vars
  <2>1. CASE UsageNext
    BY <1>1, <2>1, UsageImplements DEF WebhookInv
  <2>2. CASE TiboNext
    <3>1. UNCHANGED <<state, grants, requests, monitor, applied>>
      BY <2>2, TiboFrame
    <3>2. Recoveries' = Recoveries
      BY <1>1, <2>2, TiboRecoveries
    <3>3. LedgerRests
      BY <3>1, <3>2 DEF LedgerRests, Meanwhile, monitor
    <3> QED
      BY <3>3, RestStutters
  <2>3. CASE UNCHANGED allvars
    <3>1. LedgerRests
      BY <2>3 DEF allvars, LedgerRests, Recoveries, Meanwhile, monitor, vars, tables
    <3> QED
      BY <3>1, RestStutters
  <2> QED
    BY <1>1, <2>1, <2>2, <2>3 DEF WebhookNext
<1>2. WebhookInit => Ledger!Init
  BY InitImplements DEF WebhookInit
<1> QED
  BY <1>1, <1>2, WebhookInvariant, PTL DEF WebhookSpec, ImplementsLedger, Ledger!Spec

\* The posts' webhook costs the monitor no recovery: beside it too, one leaves
\* the outbox unobserved only after two other requests wrote meanwhile.
THEOREM TogetherLoseNoRecovery == WebhookSpec => []RecoveryLostOnlyToTwo
<1>1. WebhookInv => RecoveryLostOnlyToTwo
  BY LostFollows DEF WebhookInv
<1> QED
  BY <1>1, WebhookInvariant, PTL

----------------------------------------------------------------------------
(* What is confirmed stays confirmed.                                      *)

\* No step of either webhook takes a confirmed recovery from its post: the
\* usage webhook only adds recoveries, and Confirm replaces only one that is
\* still to be confirmed.
LEMMA ConfirmedStays ==
    ASSUME WebhookNext, NEW o \in observations, o.status = "confirmed"
    PROVE  o \in observations'
<1>1. CASE UsageNext /\ UNCHANGED webhook
  <2>1. CASE \E r \in Slot : Apply(r)
    BY <2>1 DEF Apply
  <2>2. CASE \E r \in Slot : (Serve(r) \/ Fails(r)) /\ ~Apply(r)
    BY <2>2 DEF Serve, Fails, ReadState, LookupNotice, LookupMatch, WriteStale,
         Claim, Answer, LookupFails, WriteFails, ClaimFails, Crash, tables, monitor
  <2>3. CASE Enqueue \/ Heartbeat \/ Send \/ GiveUp
    BY <2>3 DEF Enqueue, Heartbeat, Send, GiveUp, tables
  <2> QED
    BY <1>1, <2>1, <2>2, <2>3 DEF UsageNext
<1>2. CASE TiboNext
  <2>1. PICK d \in Call :
          \/ \E t \in Tweet : Deliver(d, t)
          \/ ReadExisting(d) \/ Preflight(d) \/ Persist(d) \/ Lookup(d)
          \/ ReadLedger(d) \/ ReadEstimates(d) \/ Claims(d) \/ ReadNearest(d)
          \/ Confirm(d) \/ ReadEstimate(d) \/ WriteEstimate(d)
          \/ StepFails(d) \/ Answered(d) \/ CallLost(d)
    BY <1>2 DEF TiboNext
  <2>2. CASE Confirm(d)
    BY <2>2 DEF Confirm, Confirmable
  <2>3. CASE ~Confirm(d)
    BY <2>1, <2>3 DEF Deliver, ReadExisting, Preflight, Persist, Lookup, ReadLedger,
         ReadEstimates, Claims, ReadNearest, ReadEstimate, WriteEstimate, StepFails,
         Answered, CallLost, vars, tables
  <2> QED
    BY <2>2, <2>3
<1> QED
  BY <1>1, <1>2 DEF WebhookNext

\* The recoveries and the posts that confirmed them stay together.
THEOREM ConfirmedForGood == WebhookSpec => ConfirmationStands
<1>1. [WebhookNext]_allvars =>
        [\A o \in observations : o.status = "confirmed" => o \in observations']_allvars
  BY ConfirmedStays
<1> QED
  BY <1>1, PTL DEF WebhookSpec, ConfirmationStands

----------------------------------------------------------------------------
(* No event bears the name of a post that was not sent yet.                *)

\* What a delivery has read and what it is about to write.
Unnamed(c, t) ==
    /\ c.key # Self(t) /\ c.target # Self(t)
    /\ c.led # None => \A u \in Tweet : c.led[u] # Self(t)
    /\ c.est # None => \A f \in c.est : f.key # Self(t)

Unfound(q, t) == q.notice # t /\ q.teaser # t /\ q.match # t

NamesOK ==
    \A t \in Tweet : post[t].sends = 0 =>
        /\ signals[t] = "absent"
        /\ \A e \in estimates : e.key # Self(t)
        /\ \A u \in Tweet : ledger[u] # Self(t)
        /\ \A r \in Slot : requests[r] # None => Unfound(requests[r], t)
        /\ \A d \in Call : calls[d] # None => Unnamed(calls[d], t)

NamesInv == WebhookInv /\ NamesOK

\* What a delivery is that has begun, or has come to an end.
LEMMA NewFields ==
    ASSUME TypeOK, NEW t \in Tweet
    PROVE  LET n == NewDelivery(t)
           IN  /\ n.verdict = Verdict(t) /\ n.led = None /\ n.est = None
               /\ ~n.looked /\ n.pc = "existing" /\ n.tweet = t
               /\ n.key = None /\ n.target = None
BY DEF NewDelivery

LEMMA OverFields ==
    ASSUME TypeOK, NEW c \in Delivery, NEW pc \in {"done", "failed"}
    PROVE  LET n == Over(c, pc)
           IN  /\ n.verdict = Verdict(c.tweet) /\ n.led = None /\ n.est = None
               /\ ~n.looked /\ n.pc = pc /\ n.tweet = c.tweet
               /\ n.key = None /\ n.target = None
<1> DEFINE n == NewDelivery(c.tweet)
<1>1. n \in Delivery /\ c.claimed \in BOOLEAN /\ c.tweet \in Tweet
  BY DeliveryFields, NewDeliveryTyped
<1>2. /\ n.verdict = Verdict(c.tweet) /\ n.led = None /\ n.est = None
      /\ ~n.looked /\ n.tweet = c.tweet /\ n.key = None /\ n.target = None
  BY <1>1, NewFields
<1>3. Over(c, pc) = [n EXCEPT !.row = FALSE, !.pc = pc, !.claimed = c.claimed]
  BY DEF Over
<1> HIDE DEF n
<1> QED
  BY <1>1, <1>2, <1>3 DEF Delivery

LEMMA ResolvedUnnamed ==
    ASSUME NEW c, NEW t \in Tweet, Unnamed(c, t), c.led # None, c.est # None,
           c.tweet \in Tweet, c.tweet # t, NEW x
    PROVE  Self(t) \notin Resolved(c, x)
<1> DEFINE found == {e.key : e \in Matching(c)}
           keys == LedgerKeys(c) \cup found \cup DynamicKeys(c)
<1>1. Self(c.tweet) # Self(t)
  BY DEF Self
<1>2. Self(t) \notin found
  BY DEF Matching, Unnamed
<1>3. Self(t) \notin LedgerKeys(c) /\ Self(t) \notin DynamicKeys(c)
  BY <1>1 DEF LedgerKeys, DynamicKeys, Unnamed
<1>4. Self(t) \notin keys
  BY <1>2, <1>3
<1>5. \A k \in Resolved(c, x) : k \in keys \/ k \in found \/ k = Self(c.tweet)
  BY DEF Resolved
<1> HIDE DEF keys, found
<1> QED
  BY <1>1, <1>2, <1>4, <1>5

\* A step of the posts' webhook gives a name only to the event of a post it was
\* sent.
LEMMA NamesOfCalls ==
    ASSUME NamesInv, TiboNext, NEW t \in Tweet, post'[t].sends = 0
    PROVE  /\ post[t].sends = 0
           /\ \A d \in Call : calls'[d] # None => Unnamed(calls'[d], t)
           /\ \A u \in Tweet : ledger'[u] # Self(t)
           /\ \A e \in estimates' : e.key # Self(t)
           /\ signals'[t] = "absent"
<1>1. PICK d \in Call :
        \/ \E u \in Tweet : Deliver(d, u)
        \/ ReadExisting(d) \/ Preflight(d) \/ Persist(d) \/ Lookup(d)
        \/ ReadLedger(d) \/ ReadEstimates(d) \/ Claims(d) \/ ReadNearest(d)
        \/ Confirm(d) \/ ReadEstimate(d) \/ WriteEstimate(d)
        \/ StepFails(d) \/ Answered(d) \/ CallLost(d)
  BY DEF TiboNext
<1> DEFINE c == calls[d]
<1>2. /\ TypeOK /\ calls \in [Call -> Delivery \cup {None}] /\ post \in [Tweet -> Post]
      /\ ledger \in [Tweet -> Key \cup {None}] /\ signals \in [Tweet -> SignalType]
  BY DEF NamesInv, WebhookInv, WebhookTypeOK, Post, UsageInv, TypeOK
<1>3. c # None => /\ c \in Delivery /\ c.tweet \in Tweet /\ post[c.tweet].sends \in Nat
                  /\ post[c.tweet].sends >= 1
  BY CallTyped, PostFields DEF NamesInv, CallOK
<1>4. post[t].sends = 0
  <2>1. CASE \E u \in Tweet : Deliver(d, u)
    <3>1. PICK u \in Tweet : Deliver(d, u)
      BY <2>1
    <3>2. post'[t].sends = IF u = t THEN post[t].sends + 1 ELSE post[t].sends
      BY <1>2, <3>1 DEF Deliver, Post
    <3>3. post[t].sends \in Nat
      BY <1>2, PostFields
    <3> QED
      BY <3>2, <3>3
  <2>2. CASE Answered(d)
    <3>1. post'[t].sends = post[t].sends
      BY <1>2, <2>2 DEF Answered, Post
    <3> QED
      BY <3>1
  <2>3. CASE ~(\E u \in Tweet : Deliver(d, u)) /\ ~Answered(d)
    BY <1>1, <2>3 DEF ReadExisting, Preflight, Persist, Lookup, ReadLedger, ReadEstimates,
       ReadNearest, Confirm, ReadEstimate, WriteEstimate, StepFails, CallLost, Claims
  <2> QED
    BY <2>1, <2>2, <2>3
<1>5. /\ signals[t] = "absent" /\ \A e \in estimates : e.key # Self(t)
      /\ \A u \in Tweet : ledger[u] # Self(t)
      /\ c # None => Unnamed(c, t) /\ c.tweet # t
      /\ \A e \in Call : calls[e] # None => Unnamed(calls[e], t)
  BY <1>3, <1>4 DEF NamesInv, NamesOK
<1>6. Self(t) # None /\ \A u \in Tweet : u # t => Self(u) # Self(t)
  BY SelfKey DEF Self
<1>7. ASSUME NEW n, calls' = [calls EXCEPT ![d] = n], n = None \/ Unnamed(n, t)
      PROVE  \A e \in Call : calls'[e] # None => Unnamed(calls'[e], t)
  BY <1>2, <1>5, <1>7
<1>8. ASSUME NEW n, n.key = None, n.target = None, n.led = None, n.est = None
      PROVE  Unnamed(n, t)
  BY <1>6, <1>8 DEF Unnamed
<1>9. ASSUME c # None, NEW pc \in {"done", "failed"}, Finish(d, pc)
      PROVE  \E n : calls' = [calls EXCEPT ![d] = n] /\ Unnamed(n, t)
  <2>1. calls' = [calls EXCEPT ![d] = Over(c, pc)]
    BY <1>9 DEF Finish, Step, Over
  <2> QED
    BY <1>2, <1>3, <1>8, <1>9, <2>1, OverFields
<1> DEFINE Named == \E n : calls' = [calls EXCEPT ![d] = n] /\ (n = None \/ Unnamed(n, t))
<1>10. ASSUME c # None, NEW n, calls' = [calls EXCEPT ![d] = n],
              n.key = c.key, n.target = c.target,
              n.led = c.led \/ n.led = ledger, n.est = c.est \/ n.est = estimates
       PROVE  Named
  <2>1. Unnamed(n, t)
    BY <1>5, <1>10 DEF Unnamed
  <2> QED
    BY <1>10, <2>1
<1>11. Named
  <2>1. CASE \E u \in Tweet : Deliver(d, u)
    <3>1. PICK u \in Tweet : calls' = [calls EXCEPT ![d] = NewDelivery(u)]
      BY <2>1 DEF Deliver
    <3> QED
      BY <1>2, <1>8, <3>1, NewFields
  <2>2. CASE Answered(d) \/ CallLost(d)
    BY <2>2 DEF Answered, CallLost
  <2>3. CASE ReadExisting(d)
    <3>1. c # None
      BY <2>3 DEF ReadExisting, At
    <3>2. CASE Finish(d, "failed")
      BY <1>9, <3>1, <3>2
    <3>3. CASE ~Finish(d, "failed")
      <4>1. PICK pc : calls' = [calls EXCEPT ![d] =
                                  [c EXCEPT !.seen = signals[c.tweet], !.pc = pc]]
        BY <2>3, <3>3 DEF ReadExisting, Step
      <4> DEFINE n == [c EXCEPT !.seen = signals[c.tweet], !.pc = pc]
      <4>2. calls' = [calls EXCEPT ![d] = n]
        BY <4>1
      <4>3. n.key = c.key /\ n.target = c.target /\ n.led = c.led /\ n.est = c.est
        BY <1>3, <3>1 DEF Delivery
      <4> HIDE DEF n, c
      <4> QED
        BY <1>10, <3>1, <4>2, <4>3
    <3> QED
      BY <3>2, <3>3
  <2>4. CASE Preflight(d)
    <3>1. c # None
      BY <2>4 DEF Preflight, At
    <3>2. PICK fresh \in BOOLEAN, o \in Found(post[c.tweet].created) :
            calls' = [calls EXCEPT ![d] = [c EXCEPT
                        !.verdict = IF fresh /\ o = None THEN "deferred" ELSE @,
                        !.looked = fresh, !.obs = IF fresh THEN o ELSE None,
                        !.pc = "persist"]]
      BY <2>4 DEF Preflight, Step
    <3> DEFINE n == [c EXCEPT !.verdict = IF fresh /\ o = None THEN "deferred" ELSE @,
                              !.looked = fresh, !.obs = IF fresh THEN o ELSE None,
                              !.pc = "persist"]
    <3>3. calls' = [calls EXCEPT ![d] = n]
      BY <3>2
    <3>4. n.key = c.key /\ n.target = c.target /\ n.led = c.led /\ n.est = c.est
      BY <1>3, <3>1 DEF Delivery
    <3> HIDE DEF n, c
    <3> QED
      BY <1>10, <3>1, <3>3, <3>4
  <2>5. CASE Lookup(d) \/ ReadNearest(d)
    <3>1. c # None
      BY <2>5 DEF Lookup, ReadNearest, At
    <3>2. CASE Finish(d, "done")
      BY <1>9, <3>1, <3>2
    <3>3. CASE ~Finish(d, "done")
      <4>1. PICK o, pc, x : calls' = [calls EXCEPT ![d] =
                                        [c EXCEPT !.looked = x, !.obs = o, !.pc = pc]]
        <5>1. CASE Lookup(d)
          BY <5>1 DEF Lookup, Step
        <5>2. CASE ReadNearest(d)
          <6>1. PICK o, pc : calls' = [calls EXCEPT ![d] = [c EXCEPT !.obs = o, !.pc = pc]]
            BY <3>3, <5>2 DEF ReadNearest, Step
          <6>2. [c EXCEPT !.obs = o, !.pc = pc]
                  = [c EXCEPT !.looked = c.looked, !.obs = o, !.pc = pc]
            BY <1>3, <3>1 DEF Delivery
          <6> QED
            BY <6>1, <6>2
        <5> QED
          BY <2>5, <5>1, <5>2
      <4> DEFINE n == [c EXCEPT !.looked = x, !.obs = o, !.pc = pc]
      <4>2. calls' = [calls EXCEPT ![d] = n]
        BY <4>1
      <4>3. n.key = c.key /\ n.target = c.target /\ n.led = c.led /\ n.est = c.est
        BY <1>3, <3>1 DEF Delivery
      <4> HIDE DEF n, c
      <4> QED
        BY <1>10, <3>1, <4>2, <4>3
    <3> QED
      BY <3>2, <3>3
  <2>6. CASE ReadLedger(d) \/ ReadEstimates(d) \/ Persist(d) \/ StepFails(d) \/ Confirm(d)
    <3>1. c # None
      BY <2>6 DEF ReadLedger, ReadEstimates, Persist, StepFails, Confirm, At
    <3>2. \/ \E pc \in {"done", "failed"} : Finish(d, pc)
          \/ calls' = [calls EXCEPT ![d] = [c EXCEPT !.led = ledger]]
          \/ calls' = [calls EXCEPT ![d] = [c EXCEPT !.est = estimates]]
          \/ \E pc : calls' = [calls EXCEPT ![d] = [c EXCEPT !.pc = pc]]
          \/ \E pc : calls' = [calls EXCEPT ![d] = [c EXCEPT !.blind = TRUE, !.pc = pc]]
      <4>1. CASE ReadLedger(d) \/ ReadEstimates(d)
        BY <4>1 DEF ReadLedger, ReadEstimates, Step
      <4>2. CASE Persist(d)
        BY <4>2 DEF Persist, Step
      <4>3. CASE StepFails(d) \/ Confirm(d)
        BY <4>3 DEF StepFails, Confirm, Step
      <4> QED
        BY <2>6, <4>1, <4>2, <4>3
    <3> DEFINE n1 == [c EXCEPT !.led = ledger]
               n2 == [c EXCEPT !.est = estimates]
               n3(pc) == [c EXCEPT !.pc = pc]
               n4(pc) == [c EXCEPT !.blind = TRUE, !.pc = pc]
    <3>3. \/ \E pc \in {"done", "failed"} : Finish(d, pc)
          \/ calls' = [calls EXCEPT ![d] = n1]
          \/ calls' = [calls EXCEPT ![d] = n2]
          \/ \E pc : calls' = [calls EXCEPT ![d] = n3(pc)]
          \/ \E pc : calls' = [calls EXCEPT ![d] = n4(pc)]
      BY <3>2
    <3>4. /\ n1.key = c.key /\ n1.target = c.target /\ n1.led = ledger /\ n1.est = c.est
          /\ n2.key = c.key /\ n2.target = c.target /\ n2.led = c.led /\ n2.est = estimates
      BY <1>3, <3>1 DEF Delivery
    <3>5. ASSUME NEW pc, NEW n, n = n3(pc) \/ n = n4(pc)
          PROVE  n.key = c.key /\ n.target = c.target /\ n.led = c.led /\ n.est = c.est
      BY <1>3, <3>1, <3>5 DEF Delivery
    <3> HIDE DEF n1, n2, n3, n4, c
    <3>6. CASE \E pc \in {"done", "failed"} : Finish(d, pc)
      BY <1>9, <3>1, <3>6
    <3>7. CASE calls' = [calls EXCEPT ![d] = n1] \/ calls' = [calls EXCEPT ![d] = n2]
      BY <1>10, <3>1, <3>4, <3>7
    <3>8. CASE \E pc : calls' = [calls EXCEPT ![d] = n3(pc)] \/ calls' = [calls EXCEPT ![d] = n4(pc)]
      BY <1>10, <3>1, <3>5, <3>8
    <3> QED
      BY <3>3, <3>6, <3>7, <3>8
  <2>7. CASE ReadEstimate(d)
    <3>1. c # None
      BY <2>7 DEF ReadEstimate, At
    <3>2. PICK e \in estimates \cup {None} :
            calls' = [calls EXCEPT ![d] =
              [c EXCEPT !.target = IF e = None THEN None ELSE e.key,
                        !.cluster = Announcements, !.pc = "write"]]
      BY <2>7 DEF ReadEstimate, Step
    <3> DEFINE k == IF e = None THEN None ELSE e.key
               n == [c EXCEPT !.target = k, !.cluster = Announcements, !.pc = "write"]
    <3>3. k # Self(t) /\ calls' = [calls EXCEPT ![d] = n]
      BY <1>5, <1>6, <3>2
    <3> HIDE DEF k
    <3>4. n.key = c.key /\ n.target = k /\ n.led = c.led /\ n.est = c.est
      BY <1>3, <3>1 DEF Delivery
    <3> HIDE DEF n
    <3>5. Unnamed(n, t)
      BY <1>5, <3>1, <3>3, <3>4 DEF Unnamed
    <3> QED
      BY <3>3, <3>5
  <2>8. CASE WriteEstimate(d)
    <3>1. c # None /\ \E pc \in {"done", "failed"} : Finish(d, pc)
      BY <2>8 DEF WriteEstimate, At
    <3> QED
      BY <1>9, <3>1
  <2>9. CASE Claims(d)
    <3> DEFINE ks == Resolved(c, post[c.tweet].created)
               k == CHOOSE k \in ks : TRUE
    <3>1. c # None /\ c.led # None /\ c.est # None
      BY <2>9 DEF Claims, At
    <3>2. \/ \E pc \in {"done", "failed"} : Finish(d, pc)
          \/ /\ ks # {}
             /\ \E b : calls' = [calls EXCEPT ![d] =
                  [NewDelivery(c.tweet) EXCEPT !.pc = "nearest", !.row = FALSE,
                                               !.key = k, !.claimed = b]]
      BY <2>9 DEF Claims, Step
    <3>3. ks # {} => k # Self(t)
      BY <1>3, <1>5, <3>1, ResolvedUnnamed
    <3> HIDE DEF ks, k
    <3>4. CASE ks # {} /\ \E b : calls' = [calls EXCEPT ![d] =
                  [NewDelivery(c.tweet) EXCEPT !.pc = "nearest", !.row = FALSE,
                                               !.key = k, !.claimed = b]]
      <4>1. PICK b : calls' = [calls EXCEPT ![d] =
                  [NewDelivery(c.tweet) EXCEPT !.pc = "nearest", !.row = FALSE,
                                               !.key = k, !.claimed = b]]
        BY <3>4
      <4> DEFINE x == NewDelivery(c.tweet)
                 n == [x EXCEPT !.pc = "nearest", !.row = FALSE, !.key = k, !.claimed = b]
      <4>2. calls' = [calls EXCEPT ![d] = n]
        BY <4>1
      <4>3. x \in Delivery /\ x.target = None /\ x.led = None /\ x.est = None
        BY <1>2, <1>3, <3>1, NewFields, NewDeliveryTyped
      <4> HIDE DEF x
      <4>4. n.key = k /\ n.target = None /\ n.led = None /\ n.est = None
        BY <4>3 DEF Delivery
      <4> HIDE DEF n
      <4>5. Unnamed(n, t)
        BY <1>6, <3>3, <3>4, <4>4 DEF Unnamed
      <4> QED
        BY <4>2, <4>5
    <3> QED
      BY <1>9, <3>1, <3>2, <3>4
  <2> QED
    BY <1>1, <2>1, <2>2, <2>3, <2>4, <2>5, <2>6, <2>7, <2>8, <2>9
<1>12. \A u \in Tweet : ledger'[u] # Self(t)
  <2>1. CASE Claims(d)
    <3> DEFINE ks == Resolved(c, post[c.tweet].created)
               k == CHOOSE k \in ks : TRUE
    <3>1. c # None /\ c.led # None /\ c.est # None
      BY <2>1 DEF Claims, At
    <3>2. ledger' = ledger \/ (ks # {} /\ ledger' = [ledger EXCEPT ![c.tweet] = k])
      BY <2>1 DEF Claims
    <3>3. ks # {} => k # Self(t)
      BY <1>3, <1>5, <3>1, ResolvedUnnamed
    <3> HIDE DEF ks, k
    <3> QED
      BY <1>2, <1>5, <3>2, <3>3
  <2>2. CASE ~Claims(d)
    <3>1. ledger' = ledger
      BY <1>1, <2>2 DEF Deliver, ReadExisting, Preflight, Persist, Lookup, ReadLedger,
         ReadEstimates, ReadNearest, Confirm, ReadEstimate, WriteEstimate, StepFails,
         Answered, CallLost, vars, tables
    <3> QED
      BY <1>5, <3>1
  <2> QED
    BY <2>1, <2>2
<1>13. \A e \in estimates' : e.key # Self(t)
  <2>1. CASE WriteEstimate(d)
    <3>1. estimates' = estimates \/ estimates' = (estimates \ Overwritten(c)) \cup {Merged(c)}
      BY <2>1 DEF WriteEstimate
    <3>2. Merged(c).key \in {c.key, c.target} /\ c # None
      BY <2>1 DEF Merged, WriteEstimate, At
    <3>3. Merged(c).key # Self(t)
      BY <1>5, <3>2 DEF Unnamed
    <3> QED
      BY <1>5, <3>1, <3>3
  <2>2. CASE ~WriteEstimate(d)
    <3>1. estimates' = estimates
      BY <1>1, <2>2 DEF Deliver, ReadExisting, Preflight, Persist, Lookup, ReadLedger,
         ReadEstimates, ReadNearest, Confirm, ReadEstimate, Claims, StepFails,
         Answered, CallLost, vars, tables
    <3> QED
      BY <1>5, <3>1
  <2> QED
    BY <2>1, <2>2
<1>14. signals'[t] = "absent"
  <2>1. CASE Persist(d)
    <3>1. c # None /\ (signals' = signals \/ signals' = [signals EXCEPT ![c.tweet] = c.verdict])
      BY <2>1 DEF Persist, At
    <3> QED
      BY <1>2, <1>3, <1>5, <3>1
  <2>2. CASE ~Persist(d)
    <3>1. signals' = signals
      BY <1>1, <2>2 DEF Deliver, ReadExisting, Preflight, Claims, Lookup, ReadLedger,
         ReadEstimates, ReadNearest, Confirm, ReadEstimate, WriteEstimate, StepFails,
         Answered, CallLost, vars, tables
    <3> QED
      BY <1>5, <3>1
  <2> QED
    BY <2>1, <2>2
<1> QED
  BY <1>4, <1>7, <1>11, <1>12, <1>13, <1>14

\* A request finds only posts that are stored, and names its event after one.
LEMMA NewUnfound ==
    ASSUME NEW s \in Snapshot, NEW t \in Tweet, NEW x
    PROVE  /\ Unfound(NewRequest(s), t)
           /\ Unfound([NewRequest(s) EXCEPT !.retry = 1, !.since = x], t)
BY NoneIsNoValue DEF NewRequest, Unfound

LEMMA PlannedUnnamed ==
    ASSUME NEW q, NEW t \in Tweet, Unfound(q, t)
    PROVE  PlannedKey(q) # Self(t) /\ PlannedEstimate(q).key = PlannedKey(q)
<1>1. PlannedKey(q) # Self(t)
  BY DEF PlannedKey, Self, Unfound
<1> QED
  BY <1>1 DEF PlannedEstimate

LEMMA MergedKeys ==
    ASSUME NEW e, NEW f \in MergeEstimate(e)
    PROVE  f.key = e.key \/ \E o \in estimates : f.key = o.key
<1> DEFINE same == {o \in estimates : o.key = e.key}
           old == IF same # {} THEN same ELSE {o \in estimates : o.obs = e.obs}
           o == CHOOSE o \in old : TRUE
           m == [key |-> o.key, obs |-> o.obs, tweets |-> o.tweets \cup e.tweets,
                 primary |-> IF e.primary # None THEN e.primary ELSE o.primary,
                 notice |-> IF e.notice # None THEN e.notice ELSE o.notice,
                 monitor |-> e.monitor]
<1>1. f \in (IF old = {} THEN estimates \cup {e} ELSE (estimates \ {o}) \cup {m})
  BY DEF MergeEstimate
<1>2. old # {} => o \in estimates
  OBVIOUS
<1>3. m.key = o.key
  OBVIOUS
<1> HIDE DEF old, o, m
<1> QED
  BY <1>1, <1>2, <1>3

LEMMA NamesOfRequests ==
    ASSUME NamesInv, UsageNext, UNCHANGED webhook, NEW t \in Tweet, post[t].sends = 0
    PROVE  /\ \A r \in Slot : requests'[r] # None => Unfound(requests'[r], t)
           /\ \A u \in Tweet : ledger'[u] # Self(t)
           /\ \A e \in estimates' : e.key # Self(t)
           /\ signals'[t] = "absent"
<1>1. /\ UsageInv /\ requests \in [Slot -> Request \cup {None}]
      /\ ledger \in [Tweet -> Key \cup {None}] /\ signals \in [Tweet -> SignalType]
      /\ queue \in Seq(Snapshot)
  BY DEF NamesInv, WebhookInv, UsageInv, TypeOK
<1>2. /\ signals[t] = "absent" /\ \A e \in estimates : e.key # Self(t)
      /\ \A u \in Tweet : ledger[u] # Self(t)
      /\ \A r \in Slot : requests[r] # None => Unfound(requests[r], t)
  BY DEF NamesInv, NamesOK
<1>3. t # None
  BY NoneIsNoValue
<1>4. ASSUME NEW r \in Slot, NEW q, requests' = [requests EXCEPT ![r] = q],
             q = None \/ Unfound(q, t)
      PROVE  \A p \in Slot : requests'[p] # None => Unfound(requests'[p], t)
  BY <1>1, <1>2, <1>4
<1>5. CASE Enqueue \/ GiveUp
  BY <1>2, <1>5 DEF Enqueue, GiveUp, tables
<1>6. CASE Heartbeat \/ Send
  <2>1. PICK r \in Slot, s \in Snapshot : requests' = [requests EXCEPT ![r] = NewRequest(s)]
    <3>1. CASE Heartbeat
      <4>1. PICK s \in Readings, r \in Slot : requests' = [requests EXCEPT ![r] = NewRequest(s)]
        BY <3>1 DEF Heartbeat
      <4>2. s \in Snapshot
        BY <1>1, <3>1, ReadingsTyped DEF UsageInv
      <4> QED
        BY <4>1, <4>2
    <3>2. CASE Send
      <4>1. queue # <<>> /\ queue \in Seq(Snapshot)
        BY <1>1, <3>2 DEF Send
      <4>2. Head(queue) \in Snapshot
        BY <4>1
      <4> QED
        BY <3>2, <4>2 DEF Send
    <3> QED
      BY <1>6, <3>1, <3>2
  <2>2. UNCHANGED tables
    BY <1>6 DEF Heartbeat, Send
  <2>3. Unfound(NewRequest(s), t)
    BY NewUnfound
  <2> QED
    BY <1>2, <1>4, <2>1, <2>2, <2>3 DEF tables
<1>7. ASSUME NEW r \in Slot, Serve(r) \/ Fails(r)
      PROVE  /\ \A p \in Slot : requests'[p] # None => Unfound(requests'[p], t)
             /\ \A u \in Tweet : ledger'[u] # Self(t)
             /\ \A e \in estimates' : e.key # Self(t)
             /\ signals'[t] = "absent"
  <2> DEFINE q == requests[r]
  <2>1. q # None => q \in Request /\ Unfound(q, t)
    BY <1>1, <1>2
  <2>2. ASSUME q # None, NEW pc, requests' = [requests EXCEPT ![r].pc = pc]
        PROVE  \A p \in Slot : requests'[p] # None => Unfound(requests'[p], t)
    <3> DEFINE n == [q EXCEPT !.pc = pc]
    <3>1. requests' = [requests EXCEPT ![r] = n]
      BY <1>1, <2>2
    <3>2. Unfound(n, t)
      BY <2>1, <2>2 DEF Unfound, Request
    <3> HIDE DEF n
    <3> QED
      BY <1>4, <3>1, <3>2
  <2>3. CASE LookupNotice(r)
    <3>1. PICK n \in Tweet \cup {None}, z \in Tweet \cup {None} :
            /\ n # t /\ z # t
            /\ requests' = [requests EXCEPT
                ![r].notice = n, ![r].spent = n # None /\ Used(n),
                ![r].teaser = z,
                ![r].pc = IF requests[r].snap.near THEN "write" ELSE "match"]
      <4>1. PICK n \in {u \in Tweet : signals[u] = "official_notice"} \cup {None},
                 z \in {u \in Tweet : signals[u] = "teaser"} \cup {None} :
              requests' = [requests EXCEPT
                ![r].notice = n, ![r].spent = n # None /\ Used(n),
                ![r].teaser = z,
                ![r].pc = IF requests[r].snap.near THEN "write" ELSE "match"]
        BY <2>3 DEF LookupNotice
      <4>2. n \in Tweet \cup {None} /\ z \in Tweet \cup {None} /\ n # t /\ z # t
        BY <1>2, <1>3, <4>1
      <4> QED
        BY <4>1, <4>2
    <3> DEFINE pc == IF q.snap.near THEN "write" ELSE "match"
               sp == n # None /\ Used(n)
               m == [q EXCEPT !.notice = n, !.spent = sp, !.teaser = z, !.pc = pc]
    <3>2. requests' = [requests EXCEPT ![r] = m]
      BY <1>1, <3>1
    <3> HIDE DEF pc, sp
    <3>3. Unfound(m, t)
      BY <2>1, <2>3, <3>1 DEF LookupNotice, Unfound, Request
    <3> HIDE DEF m
    <3> QED
      BY <1>2, <1>4, <2>3, <3>2, <3>3 DEF LookupNotice, tables
  <2>4. CASE LookupMatch(r)
    <3>1. PICK u \in IF Formal = {} THEN {None} ELSE Formal :
            requests' = [requests EXCEPT
                ![r].match = u,
                ![r].promote = u # None /\ signals[u] = "deferred",
                ![r].cluster = IF u = None THEN {} ELSE Announcements,
                ![r].pc = "write"]
      BY <2>4 DEF LookupMatch
    <3> DEFINE pr == u # None /\ signals[u] = "deferred"
               cl == IF u = None THEN {} ELSE Announcements
               m == [q EXCEPT !.match = u, !.promote = pr, !.cluster = cl, !.pc = "write"]
    <3>2. requests' = [requests EXCEPT ![r] = m]
      BY <1>1, <3>1
    <3>3. u # t
      BY <1>2, <1>3, <3>1 DEF Formal
    <3> HIDE DEF pr, cl
    <3>4. Unfound(m, t)
      BY <2>1, <2>4, <3>3 DEF LookupMatch, Unfound, Request
    <3> HIDE DEF m
    <3> QED
      BY <1>2, <1>4, <2>4, <3>2, <3>4 DEF LookupMatch, tables
  <2>5. CASE ReadState(r)
    <3>1. PICK pc : requests' = [requests EXCEPT ![r].seen = state, ![r].pc = pc]
      BY <2>5 DEF ReadState
    <3> DEFINE m == [q EXCEPT !.seen = state, !.pc = pc]
    <3>2. requests' = [requests EXCEPT ![r] = m]
      BY <1>1, <3>1
    <3>3. Unfound(m, t)
      BY <2>1, <2>5 DEF ReadState, Unfound, Request
    <3> HIDE DEF m
    <3> QED
      BY <1>2, <1>4, <2>5, <3>2, <3>3 DEF ReadState, tables
  <2>6. CASE LookupFails(r)
    <3>1. q # None /\ UNCHANGED tables
      BY <2>6 DEF LookupFails
    <3>2. CASE Goto(r, "failed")
      BY <1>2, <2>2, <3>1, <3>2 DEF Goto, tables
    <3>3. CASE ~Goto(r, "failed")
      <4> DEFINE m == [q EXCEPT !.blind = TRUE, !.pc = "write"]
      <4>1. requests' = [requests EXCEPT ![r] = m]
        BY <1>1, <2>6, <3>3 DEF LookupFails
      <4>2. Unfound(m, t)
        BY <2>1, <3>1 DEF Unfound, Request
      <4> HIDE DEF m
      <4> QED
        BY <1>2, <1>4, <3>1, <4>1, <4>2 DEF tables
    <3> QED
      BY <3>2, <3>3
  <2>7. CASE WriteStale(r)
    <3> DEFINE m == [NewRequest(q.snap) EXCEPT !.retry = 1, !.since = q.since]
               n == [q EXCEPT !.pc = "accepted"]
    <3>1. q # None /\ UNCHANGED tables
      BY <2>7 DEF WriteStale
    <3>2. requests' = [requests EXCEPT ![r] = m] \/ requests' = [requests EXCEPT ![r] = n]
      BY <1>1, <2>7 DEF WriteStale
    <3>3. Unfound(m, t)
      BY <2>1, <3>1, NewUnfound, RequestFields
    <3>4. Unfound(n, t)
      BY <2>1, <3>1 DEF Unfound, Request
    <3> HIDE DEF m, n
    <3> QED
      BY <1>2, <1>4, <3>1, <3>2, <3>3, <3>4 DEF tables
  <2>8. CASE WriteFails(r) \/ ClaimFails(r)
    <3>1. q # None /\ UNCHANGED tables /\ \E pc : requests' = [requests EXCEPT ![r].pc = pc]
      BY <2>8 DEF WriteFails, ClaimFails, Goto
    <3> QED
      BY <1>2, <2>2, <3>1 DEF tables
  <2>9. CASE Answer(r) \/ Crash(r)
    <3>1. requests' = [requests EXCEPT ![r] = None] /\ UNCHANGED tables
      BY <2>9 DEF Answer, Crash
    <3> QED
      BY <1>2, <1>4, <3>1 DEF tables
  <2>10. CASE Claim(r)
    <3> DEFINE e == PlannedEstimate(q)
    <3>1. /\ q # None /\ ledger' = ClaimOutcome(e.primary, e.key)
          /\ requests' = [requests EXCEPT ![r].pc = "accepted"]
          /\ UNCHANGED <<estimates, signals>>
      BY <2>10 DEF Claim, Goto
    <3>2. e.key # Self(t)
      BY <2>1, <3>1, PlannedUnnamed
    <3> HIDE DEF e
    <3>3. \A u \in Tweet : ledger'[u] # Self(t)
      BY <1>1, <1>2, <3>1, <3>2 DEF ClaimOutcome
    <3> QED
      BY <1>2, <2>2, <3>1, <3>3
  <2>11. CASE Apply(r)
    <3>1. /\ q # None /\ ledger' = ledger
          /\ estimates' = IF MakesEvent(q)
                          THEN MergeEstimate(PlannedEstimate(q)) ELSE estimates
          /\ signals' = IF q.promote /\ signals[q.match] = "deferred"
                        THEN [signals EXCEPT ![q.match] = "reset_executed"] ELSE signals
          /\ \E pc : requests' = [requests EXCEPT ![r].pc = pc]
      BY <2>11 DEF Apply, Goto
    <3>2. PlannedEstimate(q).key # Self(t)
      BY <2>1, <3>1, PlannedUnnamed
    <3>3. ASSUME NEW f \in estimates' PROVE f.key # Self(t)
      <4>1. CASE estimates' = estimates
        BY <1>2, <3>3, <4>1
      <4>2. CASE estimates' = MergeEstimate(PlannedEstimate(q))
        <5>1. PICK e : e = PlannedEstimate(q)
          OBVIOUS
        <5> QED
          BY <1>2, <3>2, <3>3, <4>2, <5>1, MergedKeys
      <4> QED
        BY <3>1, <4>1, <4>2
    <3>4. signals'[t] = "absent"
      BY <1>1, <1>2, <2>1, <3>1 DEF Unfound
    <3> QED
      BY <1>2, <2>2, <3>1, <3>3, <3>4
  <2> QED
    BY <1>7, <2>3, <2>4, <2>5, <2>6, <2>7, <2>8, <2>9, <2>10, <2>11 DEF Serve, Fails
<1> QED
  BY <1>5, <1>6, <1>7 DEF UsageNext

LEMMA NamesStep ==
    ASSUME NamesInv, [WebhookNext]_allvars
    PROVE  NamesInv'
<1>1. WebhookInv'
  BY WebhookStep DEF NamesInv
<1>2. CASE UNCHANGED allvars
  <2>1. UNCHANGED <<signals, estimates, ledger, requests, calls, post>>
    BY <1>2 DEF allvars, webhook, vars, tables
  <2> QED
    BY <1>1, <2>1 DEF NamesInv, NamesOK, Unnamed, Unfound
<1>3. CASE UsageNext /\ UNCHANGED webhook
  <2>1. UNCHANGED <<calls, post>>
    BY <1>3 DEF webhook
  <2>2. ASSUME NEW t \in Tweet, post[t].sends = 0, NEW d \in Call, calls[d] # None
        PROVE  Unnamed(calls[d], t)
    BY <2>2 DEF NamesInv, NamesOK
  <2>3. NamesOK'
    BY <1>3, <2>1, <2>2, NamesOfRequests DEF NamesOK, Unnamed, Unfound
  <2> QED
    BY <1>1, <2>3 DEF NamesInv
<1>4. CASE TiboNext
  <2>1. requests' = requests
    BY <1>4 DEF TiboNext, Deliver, ReadExisting, Preflight, Persist, Lookup, ReadLedger,
       ReadEstimates, Claims, ReadNearest, Confirm, ReadEstimate, WriteEstimate, StepFails,
       Answered, CallLost, vars
  <2>2. ASSUME NEW t \in Tweet, post[t].sends = 0, NEW r \in Slot, requests[r] # None
        PROVE  Unfound(requests[r], t)
    BY <2>2 DEF NamesInv, NamesOK
  <2>3. NamesOK'
    BY <1>4, <2>1, <2>2, NamesOfCalls DEF NamesOK, Unnamed, Unfound
  <2> QED
    BY <1>1, <2>3 DEF NamesInv
<1> QED
  BY <1>2, <1>3, <1>4 DEF WebhookNext

LEMMA NamesStart == WebhookInit => NamesInv
<1> SUFFICES ASSUME WebhookInit PROVE NamesInv
  OBVIOUS
<1>1. WebhookInv
  BY WebhookStart
<1>2. NamesOK
  BY SelfKey DEF WebhookInit, Init, NamesOK
<1> QED
  BY <1>1, <1>2 DEF NamesInv

----------------------------------------------------------------------------
(* A completion joins the event of the recovery it follows, as long as all *)
(* posts that were sent are completions and the quota recovered once.      *)

Sent(t) == post[t].sends >= 1
OnlyCompletions == \A t \in Tweet : Sent(t) => t \in Completion
OneRecovery == last # None => last.cycle <= 1

\* A notice in the event keeps completions out of it; a later recovery may be
\* matched to the post of an earlier one, which then makes an event of its own.
Undisturbed == OnlyCompletions /\ OneRecovery

Follows(t) == post[t].followed # {}
PublicRecovery == \E o \in observations : Public(o)

\* The event has a post already, or another post holds it.
Joined(t) ==
    \E e \in estimates :
        \/ e.tweets # {}
        \/ \E u \in Tweet \ {t} :
              ledger[u] = e.key \/ \E o \in observations : o.tibo = u

\* What a post did it did after its first delivery; an event has one owner.
PostsOK ==
    \A t \in Tweet :
        /\ signals[t] \in {"absent", "deferred", "reset_executed"}
        /\ signals[t] # "absent" \/ ledger[t] # None \/ Follows(t) => post[t].sends >= 1
        /\ \A u \in Tweet : ledger[t] # None /\ ledger[t] = ledger[u] => t = u

\* There is nothing but completions to be found; what a request claims is the
\* event it made.
FoundOK(q) ==
    /\ q.notice = None /\ q.teaser = None /\ q.cluster = {} /\ ~q.spent
    /\ q.match # None => signals[q.match] # "absent"
    /\ q.promote => q.match # None
    /\ q.pc = "claim" =>
          PublicRecovery /\ q.match # None /\ \E e \in estimates : e.key = Self(q.match)

RecoveryOK ==
    \A o \in observations :
        /\ \A p \in observations : p = o
        /\ state # None /\ state.cycle >= 1
        /\ o.status = "observed" => o.tibo = None
        /\ o.status = "confirmed" => o.tibo \in Tweet

\* The event of the recovery, made with it if it is for all.
EventsOK ==
    /\ PublicRecovery => estimates # {}
    /\ \A e \in estimates :
        /\ \A f \in estimates : f = e
        /\ \E o \in observations : e.obs = o.at
        /\ e.monitor <=> e.tweets = {}

\* A post that follows the recovery is not the one the event is named after, and
\* claims that event or none.
FollowersOK ==
    \A t \in Tweet :
        /\ \A x \in post[t].followed : \E o \in observations : o.at = x /\ Public(o)
        /\ Follows(t) =>
              /\ \A e \in estimates : e.key # Self(t) /\ ledger[t] \in {None, e.key}
              /\ post[t].settled => Joined(t)

\* A delivery of such a post finds the recovery and its event.
Finds(c, e) ==
    /\ c.est # None => \A f \in c.est : /\ f.obs = e.obs /\ f.key = e.key
                                        /\ f.monitor \/ e.tweets # {}
    /\ c.led # None => c.led[c.tweet] \in {None, e.key}
    /\ c.pc \in {"nearest", "confirm", "merge", "write"} => c.key = e.key

FollowerOK(c) ==
    /\ c.verdict = "reset_executed"
    /\ c.pc = "evidence" => c.looked
    /\ c.est # None => c.est # {}
    /\ c.pc = "done" => Joined(c.tweet)
    /\ c.looked => \A o \in observations : c.obs = o.at
    /\ \A e \in estimates : Finds(c, e)

DeliveryOK(c) ==
    /\ c.verdict \in {"deferred", "reset_executed"}
    /\ c.pc = "write" /\ PublicRecovery => c.target # None
    /\ Follows(c.tweet) => FollowerOK(c)

JoinInv ==
    /\ WebhookInv
    /\ PostsOK /\ RecoveryOK /\ EventsOK /\ FollowersOK
    /\ \A r \in Slot : requests[r] # None => FoundOK(requests[r])
    /\ \A d \in Call : calls[d] # None => DeliveryOK(calls[d])

\* What every step but the report of a recovery keeps.
RecoveriesKept ==
    /\ \A o \in observations : \E p \in observations' :
          /\ p.at = o.at /\ (Public(p) <=> Public(o))
          /\ o.tibo \in Tweet => p.tibo = o.tibo
    /\ \A p \in observations' : \E o \in observations :
          p.at = o.at /\ (Public(p) <=> Public(o))

EventsKept ==
    PublicRecovery =>
        /\ \A e \in estimates : \E f \in estimates' :
              f.key = e.key /\ f.obs = e.obs /\ (e.tweets # {} => f.tweets # {})
        /\ \A f \in estimates' : \E e \in estimates :
              f.key = e.key /\ f.obs = e.obs /\ (e.tweets # {} => f.tweets # {})

Keeps ==
    /\ RecoveriesKept /\ EventsKept /\ LedgerStays
    /\ \A t \in Tweet : /\ signals[t] # "absent" => signals'[t] # "absent"
                        /\ post'[t].followed = post[t].followed

LEMMA PublicKept == Keeps => (PublicRecovery' <=> PublicRecovery)
BY DEF Keeps, RecoveriesKept, PublicRecovery, Public

LEMMA FollowsPublic ==
    ASSUME FollowersOK, NEW t \in Tweet, Follows(t)
    PROVE  PublicRecovery
BY DEF FollowersOK, Follows, PublicRecovery

LEMMA EstimateFields ==
    ASSUME NEW e \in Estimate
    PROVE  e.key \in Key /\ e.obs \in Time /\ e.tweets \subseteq Tweet /\ e.key # None
BY NoneIsNoValue DEF Estimate

LEMMA JoinedKept ==
    ASSUME TypeOK, Keeps, NEW t \in Tweet, Joined(t), PublicRecovery
    PROVE  Joined(t)'
<1>1. PICK e \in estimates :
        \/ e.tweets # {}
        \/ \E u \in Tweet \ {t} :
              ledger[u] = e.key \/ \E o \in observations : o.tibo = u
  BY DEF Joined
<1>2. PICK f \in estimates' : f.key = e.key /\ (e.tweets # {} => f.tweets # {})
  BY DEF Keeps, EventsKept
<1>3. e.key # None
  BY EstimateFields DEF TypeOK
<1>4. ASSUME NEW u \in Tweet \ {t},
             ledger[u] = e.key \/ \E o \in observations : o.tibo = u
      PROVE  ledger'[u] = f.key \/ \E o \in observations' : o.tibo = u
  BY <1>2, <1>3, <1>4 DEF Keeps, LedgerStays, RecoveriesKept
<1> QED
  BY <1>1, <1>2, <1>4 DEF Joined

LEMMA FollowerKept ==
    ASSUME TypeOK, Keeps, NEW c, c.tweet \in Tweet, FollowerOK(c), PublicRecovery
    PROVE  FollowerOK(c)'
<1>1. c.pc = "done" => Joined(c.tweet)'
  BY JoinedKept DEF FollowerOK
<1>2. c.looked => \A o \in observations' : c.obs = o.at
  BY DEF Keeps, RecoveriesKept, FollowerOK
<1>3. ASSUME NEW f \in estimates' PROVE Finds(c, f)
  <2>1. PICK e \in estimates :
          f.key = e.key /\ f.obs = e.obs /\ (e.tweets # {} => f.tweets # {})
    BY DEF Keeps, EventsKept
  <2> QED
    BY <2>1 DEF FollowerOK, Finds
<1> QED
  BY <1>1, <1>2, <1>3 DEF FollowerOK

LEMMA DeliveryKept ==
    ASSUME TypeOK, FollowersOK, Keeps, NEW c, c.tweet \in Tweet, DeliveryOK(c)
    PROVE  DeliveryOK(c)'
<1>1. Follows(c.tweet)' <=> Follows(c.tweet)
  BY DEF Keeps, Follows
<1>2. PublicRecovery' <=> PublicRecovery
  BY PublicKept
<1>3. Follows(c.tweet) => FollowerOK(c)'
  BY FollowsPublic, FollowerKept DEF DeliveryOK
<1> QED
  BY <1>1, <1>2, <1>3 DEF DeliveryOK

LEMMA FoundKept ==
    ASSUME Keeps, NEW q, q.match \in Tweet \cup {None}, FoundOK(q)
    PROVE  FoundOK(q)'
<1>1. PublicRecovery' <=> PublicRecovery
  BY PublicKept
<1>2. q.pc = "claim" => \E e \in estimates' : e.key = Self(q.match)
  BY DEF Keeps, EventsKept, FoundOK
<1>3. q.match # None => signals'[q.match] # "absent"
  BY DEF Keeps, FoundOK
<1> QED
  BY <1>1, <1>2, <1>3 DEF FoundOK

LEMMA FollowersKept ==
    ASSUME TypeOK, FollowersOK, Keeps,
           \A t \in Tweet, e \in estimates : Follows(t) => ledger'[t] \in {None, e.key},
           \A t \in Tweet : Follows(t) /\ post'[t].settled => post[t].settled \/ Joined(t)
    PROVE  FollowersOK'
<1> SUFFICES ASSUME NEW t \in Tweet
             PROVE  /\ \A x \in post'[t].followed :
                          \E o \in observations' : o.at = x /\ Public(o)
                    /\ Follows(t)' =>
                          /\ \A e \in estimates' :
                                e.key # Self(t) /\ ledger'[t] \in {None, e.key}
                          /\ post'[t].settled => Joined(t)'
  BY DEF FollowersOK, Public
<1>1. post'[t].followed = post[t].followed /\ (Follows(t)' <=> Follows(t))
  BY DEF Keeps, Follows
<1>2. \A x \in post[t].followed : \E o \in observations' : o.at = x /\ Public(o)
  BY DEF Keeps, RecoveriesKept, FollowersOK
<1>3. ASSUME Follows(t), NEW f \in estimates'
      PROVE  f.key # Self(t) /\ ledger'[t] \in {None, f.key}
  <2>1. PublicRecovery
    BY <1>3, FollowsPublic
  <2>2. PICK e \in estimates : f.key = e.key
    BY <2>1 DEF Keeps, EventsKept
  <2> QED
    BY <1>3, <2>2 DEF FollowersOK
<1>4. ASSUME Follows(t), post'[t].settled PROVE Joined(t)'
  BY <1>4, FollowsPublic, JoinedKept DEF FollowersOK
<1> QED
  BY <1>1, <1>2, <1>3, <1>4

----------------------------------------------------------------------------
(* The deliveries, step by step.                                           *)

LEMMA AllComplete ==
    ASSUME OnlyCompletions, NEW t \in Tweet, Sent(t)
    PROVE  t \in Completion /\ Verdict(t) = "reset_executed"
BY DEF Verdict, OnlyCompletions

LEMMA CallComplete ==
    ASSUME JoinInv, OnlyCompletions, NEW d \in Call, calls[d] # None
    PROVE  /\ calls[d].tweet \in Tweet /\ calls[d].tweet \in Completion
           /\ Verdict(calls[d].tweet) = "reset_executed"
<1>1. calls[d].tweet \in Tweet /\ Sent(calls[d].tweet)
  BY CallTyped DEF JoinInv, CallOK, Sent
<1> QED
  BY <1>1, AllComplete

LEMMA FreshOK ==
    ASSUME TypeOK, NEW n, n.tweet \in Tweet,
           n.verdict = Verdict(n.tweet), Verdict(n.tweet) = "reset_executed", n.led = None, n.est = None, ~n.looked,
           n.pc \in {"existing", "failed", "done", "nearest"},
           n.pc = "done" /\ Follows(n.tweet) => Joined(n.tweet),
           n.pc = "nearest" /\ Follows(n.tweet) => \A e \in estimates : n.key = e.key
    PROVE  DeliveryOK(n)
<1>1. n.verdict = "reset_executed"
  OBVIOUS
<1>2. Follows(n.tweet) => \A e \in estimates : Finds(n, e)
  BY DEF Finds
<1> QED
  BY <1>1, <1>2 DEF DeliveryOK, FollowerOK

LEMMA FinishOK ==
    ASSUME JoinInv, OnlyCompletions, NEW d \in Call, calls[d] # None,
           NEW pc \in {"done", "failed"}, Finish(d, pc),
           pc = "done" /\ Follows(calls[d].tweet) => Joined(calls[d].tweet)
    PROVE  \E n : calls' = [calls EXCEPT ![d] = n] /\ n.tweet = calls[d].tweet /\ DeliveryOK(n)
<1>1. calls[d] \in Delivery /\ TypeOK /\ calls[d].tweet \in Tweet
  BY CallTyped DEF JoinInv
<1>2. calls' = [calls EXCEPT ![d] = Over(calls[d], pc)]
  BY DEF Finish, Step, Over
<1>3. DeliveryOK(Over(calls[d], pc))
  BY <1>1, OverFields, FreshOK, CallComplete
<1> QED
  BY <1>1, <1>2, <1>3, OverFields

\* A post that follows the recovery finds it, and finds its event.
LEMMA FollowerFinds ==
    ASSUME JoinInv, NEW t \in Tweet, Follows(t)
    PROVE  \E o \in observations, e \in estimates :
              /\ observations = {o} /\ estimates = {e} /\ e.obs = o.at /\ Public(o)
              /\ o.at \in Time /\ e.key \in Key /\ e.key # None
              /\ e.key # Self(t) /\ ledger[t] \in {None, e.key}
              /\ o.hint = "unexpected" /\ o.status \in {"observed", "confirmed"}
              /\ o.status = "confirmed" => o.tibo \in Tweet
              /\ e.monitor <=> e.tweets = {}
<1>1. TypeOK
  BY DEF JoinInv, WebhookInv, UsageInv
<1>2. PICK o \in observations : Public(o)
  BY FollowsPublic DEF JoinInv, PublicRecovery
<1>3. observations = {o} /\ (o.status = "confirmed" => o.tibo \in Tweet)
  BY DEF JoinInv, RecoveryOK
<1>4. PICK e \in estimates : TRUE
  BY FollowsPublic DEF JoinInv, EventsOK
<1>5. estimates = {e} /\ e.obs = o.at /\ (e.monitor <=> e.tweets = {})
  BY <1>3 DEF JoinInv, EventsOK
<1>6. o.at \in Time /\ o.status \in {"observed", "confirmed", "rejected"}
  BY <1>1 DEF TypeOK, Observation
<1>7. e.key \in Key /\ e.key # None
  BY <1>1, EstimateFields DEF TypeOK
<1>8. e.key # Self(t) /\ ledger[t] \in {None, e.key}
  BY DEF JoinInv, FollowersOK
<1> QED
  BY <1>2, <1>3, <1>5, <1>6, <1>7, <1>8 DEF Public

LEMMA TimeNone == \A x \in Time : x # None
BY NoneAssumption

LEMMA FoundOne ==
    ASSUME NEW o, observations = {o}, o.at \in Time, o.hint = "unexpected",
           o.status \in {"observed", "confirmed"}, NEW x
    PROVE  Found(x) = {o.at}
<1>1. Unexpected({"observed", "confirmed"}) = {o}
  BY DEF Unexpected
<1>2. Nearest({o}, x) = {o}
  <2>1. ASSUME NEW p \in {o} PROVE ~(o.at < p.at /\ p.at <= x) /\ ~(x < p.at /\ p.at < o.at)
    BY BoundsAssumption DEF Time
  <2> QED
    BY <2>1 DEF Nearest
<1> QED
  BY <1>1, <1>2 DEF Found

\* The steps of a delivery that only read.
LEMMA EarlyReads ==
    ASSUME JoinInv, OnlyCompletions, NEW d \in Call,
           ReadExisting(d) \/ Preflight(d) \/ Lookup(d)
    PROVE  \E n : calls' = [calls EXCEPT ![d] = n] /\ n.tweet = calls[d].tweet /\ DeliveryOK(n)
<1> DEFINE c == calls[d]
           t == c.tweet
<1>1. c # None
  BY DEF ReadExisting, Preflight, Lookup, At
<1>2. c \in Delivery /\ TypeOK /\ t \in Tweet /\ DeliveryOK(c)
  BY <1>1, CallTyped DEF JoinInv
<1>3. CASE ReadExisting(d)
  <2>1. CASE ~c.row /\ signals[t] # "absent"
    BY <1>1, <1>3, <2>1, FinishOK DEF ReadExisting
  <2>2. CASE ~(~c.row /\ signals[t] # "absent")
    <3> DEFINE pc == IF t \in Completion THEN "preflight" ELSE "persist"
               n == [c EXCEPT !.seen = signals[t], !.pc = pc]
    <3>1. calls' = [calls EXCEPT ![d] = n]
      BY <1>3, <2>2 DEF ReadExisting, Step
    <3>2. pc = "preflight" /\ c.pc = "existing"
      BY <1>1, <1>2, <1>3, CallComplete DEF ReadExisting, At
    <3> HIDE DEF pc
    <3>3. /\ n.tweet = t /\ n.verdict = c.verdict /\ n.pc = pc /\ n.looked = c.looked
          /\ n.obs = c.obs /\ n.est = c.est /\ n.led = c.led
      BY <1>2 DEF Delivery
    <3> HIDE DEF n
    <3>4. DeliveryOK(n)
      BY <1>2, <3>2, <3>3 DEF DeliveryOK, FollowerOK, Finds
    <3> QED
      BY <3>1, <3>3, <3>4
  <2> QED
    BY <2>1, <2>2
<1>4. CASE Preflight(d)
  <2>1. PICK fresh \in BOOLEAN, o \in Found(post[t].created) :
          calls' = [calls EXCEPT ![d] = [c EXCEPT
                        !.verdict = IF fresh /\ o = None THEN "deferred" ELSE @,
                        !.looked = fresh, !.obs = IF fresh THEN o ELSE None,
                        !.pc = "persist"]]
    BY <1>4 DEF Preflight, Step
  <2> DEFINE v == IF fresh /\ o = None THEN "deferred" ELSE c.verdict
             x == IF fresh THEN o ELSE None
             n == [c EXCEPT !.verdict = v, !.looked = fresh, !.obs = x, !.pc = "persist"]
  <2>2. calls' = [calls EXCEPT ![d] = n]
    BY <2>1
  <2>3. ASSUME Follows(t) PROVE v = c.verdict /\ (fresh => \A p \in observations : x = p.at)
    <3>1. PICK p \in observations :
            /\ observations = {p} /\ p.at \in Time
            /\ p.hint = "unexpected" /\ p.status \in {"observed", "confirmed"}
      BY <1>2, <2>3, FollowerFinds
    <3>2. o = p.at /\ p.at # None
      BY <3>1, FoundOne, TimeNone
    <3> QED
      BY <3>1, <3>2
  <2>4. v \in {"deferred", "reset_executed"}
    BY <1>2 DEF DeliveryOK
  <2> HIDE DEF v, x, t
  <2>5. /\ n.tweet = c.tweet /\ n.verdict = v /\ n.pc = "persist" /\ n.looked = fresh
        /\ n.obs = x /\ n.est = c.est /\ n.led = c.led
    BY <1>2 DEF Delivery
  <2> HIDE DEF n
  <2>6. DeliveryOK(n)
    BY <1>2, <2>3, <2>4, <2>5 DEF DeliveryOK, FollowerOK, Finds, t
  <2> QED
    BY <2>2, <2>5, <2>6
<1>5. CASE Lookup(d)
  <2>1. PICK o \in Found(post[t].created) :
          calls' = [calls EXCEPT ![d] =
                      [c EXCEPT !.looked = TRUE, !.obs = o, !.pc = "evidence"]]
    BY <1>5 DEF Lookup, Step
  <2> DEFINE n == [c EXCEPT !.looked = TRUE, !.obs = o, !.pc = "evidence"]
  <2>2. ASSUME Follows(t) PROVE \A p \in observations : o = p.at
    <3>1. PICK p \in observations :
            /\ observations = {p} /\ p.at \in Time
            /\ p.hint = "unexpected" /\ p.status \in {"observed", "confirmed"}
      BY <1>2, <2>2, FollowerFinds
    <3> QED
      BY <2>1, <3>1, FoundOne
  <2>3. /\ n.tweet = c.tweet /\ n.verdict = c.verdict /\ n.pc = "evidence" /\ n.looked
        /\ n.obs = o /\ n.est = c.est /\ n.led = c.led
    BY <1>2 DEF Delivery
  <2>4. calls' = [calls EXCEPT ![d] = n]
    BY <2>1
  <2> HIDE DEF n
  <2>5. DeliveryOK(n)
    BY <1>2, <2>2, <2>3 DEF DeliveryOK, FollowerOK, Finds
  <2> QED
    BY <2>3, <2>4, <2>5
<1> QED
  BY <1>3, <1>4, <1>5

LEMMA EvidenceReads ==
    ASSUME JoinInv, NEW d \in Call, ReadLedger(d) \/ ReadEstimates(d)
    PROVE  \E n : calls' = [calls EXCEPT ![d] = n] /\ n.tweet = calls[d].tweet /\ DeliveryOK(n)
<1> DEFINE c == calls[d]
           t == c.tweet
<1>1. c # None /\ c.pc = "evidence"
  BY DEF ReadLedger, ReadEstimates, At
<1>2. c \in Delivery /\ TypeOK /\ t \in Tweet /\ DeliveryOK(c)
  BY <1>1, CallTyped DEF JoinInv
<1>3. CASE ReadLedger(d)
  <2> DEFINE n == [c EXCEPT !.led = ledger]
  <2>1. calls' = [calls EXCEPT ![d] = n]
    BY <1>3 DEF ReadLedger, Step
  <2>2. /\ n.tweet = t /\ n.verdict = c.verdict /\ n.pc = c.pc /\ n.looked = c.looked
        /\ n.obs = c.obs /\ n.est = c.est /\ n.led = ledger
    BY <1>2 DEF Delivery
  <2> HIDE DEF n
  <2>3. Follows(t) => \A e \in estimates : Finds(n, e)
    BY <1>1, <1>2, <2>2 DEF DeliveryOK, FollowerOK, Finds, JoinInv, FollowersOK
  <2>4. DeliveryOK(n)
    BY <1>1, <1>2, <2>2, <2>3 DEF DeliveryOK, FollowerOK
  <2> QED
    BY <2>1, <2>2, <2>4
<1>4. CASE ReadEstimates(d)
  <2> DEFINE n == [c EXCEPT !.est = estimates]
  <2>1. calls' = [calls EXCEPT ![d] = n]
    BY <1>4 DEF ReadEstimates, Step
  <2>2. /\ n.tweet = t /\ n.verdict = c.verdict /\ n.pc = c.pc /\ n.looked = c.looked
        /\ n.obs = c.obs /\ n.est = estimates /\ n.led = c.led
    BY <1>2 DEF Delivery
  <2> HIDE DEF n
  <2>3. ASSUME Follows(t) PROVE estimates # {} /\ \A e \in estimates : Finds(n, e)
    <3>1. PICK e \in estimates : estimates = {e} /\ (e.monitor <=> e.tweets = {})
      BY <1>2, <2>3, FollowerFinds
    <3>2. Finds(c, e)
      BY <1>2, <2>3, <3>1 DEF DeliveryOK, FollowerOK
    <3>3. Finds(n, e)
      BY <1>1, <2>2, <3>1, <3>2 DEF Finds
    <3> QED
      BY <3>1, <3>3
  <2>4. DeliveryOK(n)
    BY <1>1, <1>2, <2>2, <2>3 DEF DeliveryOK, FollowerOK
  <2> QED
    BY <2>1, <2>2, <2>4
<1> QED
  BY <1>3, <1>4

LEMMA NearestReads ==
    ASSUME JoinInv, OnlyCompletions, NEW d \in Call, ReadNearest(d)
    PROVE  \E n : calls' = [calls EXCEPT ![d] = n] /\ n.tweet = calls[d].tweet /\ DeliveryOK(n)
<1> DEFINE c == calls[d]
           t == c.tweet
           open == Nearest(Unexpected({"observed"}), post[t].created)
           mine == Nearest({o \in Unexpected({"confirmed"}) : o.tibo = t}, post[t].created)
<1>1. c # None /\ c.pc = "nearest"
  BY DEF ReadNearest, At
<1>2. c \in Delivery /\ TypeOK /\ t \in Tweet /\ DeliveryOK(c)
  BY <1>1, CallTyped DEF JoinInv
<1>3. open \subseteq observations /\ mine \subseteq observations
  BY DEF Nearest, Unexpected
<1>4. ASSUME Follows(t), open = {}, mine = {} PROVE Joined(t)
  <2>1. PICK o \in observations, e \in estimates :
          /\ observations = {o} /\ o.at \in Time /\ o.hint = "unexpected"
          /\ o.status \in {"observed", "confirmed"}
          /\ o.status = "confirmed" => o.tibo \in Tweet
    BY <1>2, <1>4, FollowerFinds
  <2>2. \A x : Nearest({o}, x) = {o}
    <3>1. ~(o.at < o.at)
      BY <2>1, BoundsAssumption DEF Time
    <3> QED
      BY <3>1 DEF Nearest
  <2>3. o.status # "observed"
    BY <1>4, <2>1, <2>2 DEF Unexpected
  <2>4. o.status = "confirmed" /\ (o.tibo = t => {p \in Unexpected({"confirmed"}) : p.tibo = t} = {o})
    BY <2>1, <2>3 DEF Unexpected
  <2>5. o.tibo # t
    BY <1>4, <2>2, <2>4
  <2> QED
    BY <2>1, <2>4, <2>5 DEF Joined
<1>5. CASE open = {} /\ mine = {}
  <2>1. Finish(d, "done")
    BY <1>5 DEF ReadNearest
  <2> QED
    BY <1>1, <1>4, <1>5, <2>1, FinishOK
<1>6. CASE ~(open = {} /\ mine = {})
  <2>1. PICK o \in observations, pc \in {"confirm", "merge"} :
          calls' = [calls EXCEPT ![d] = [c EXCEPT !.obs = o.at, !.pc = pc]]
    BY <1>3, <1>6 DEF ReadNearest, Step
  <2> DEFINE n == [c EXCEPT !.obs = o.at, !.pc = pc]
  <2>2. /\ n.tweet = t /\ n.verdict = c.verdict /\ n.pc = pc /\ n.looked = c.looked
        /\ n.obs = o.at /\ n.est = c.est /\ n.led = c.led /\ n.key = c.key
    BY <1>2 DEF Delivery
  <2>3. calls' = [calls EXCEPT ![d] = n]
    BY <2>1
  <2> HIDE DEF n
  <2>4. \A p \in observations : n.obs = p.at
    BY <2>2 DEF JoinInv, RecoveryOK
  <2>5. Follows(t) => \A e \in estimates : Finds(n, e)
    BY <1>1, <1>2, <2>2 DEF DeliveryOK, FollowerOK, Finds
  <2>6. DeliveryOK(n)
    BY <1>1, <1>2, <2>2, <2>4, <2>5 DEF DeliveryOK, FollowerOK
  <2> QED
    BY <2>2, <2>3, <2>6
<1> QED
  BY <1>5, <1>6

LEMMA EstimateReads ==
    ASSUME JoinInv, NEW d \in Call, ReadEstimate(d)
    PROVE  \E n : calls' = [calls EXCEPT ![d] = n] /\ n.tweet = calls[d].tweet /\ DeliveryOK(n)
<1> DEFINE c == calls[d]
           t == c.tweet
           byKey == {e \in estimates : e.key = c.key}
           byObs == {e \in estimates : e.obs = c.obs}
           byTweet == {e \in estimates : c.tweet \in e.tweets}
<1>1. c # None /\ c.pc = "merge"
  BY DEF ReadEstimate, At
<1>2. c \in Delivery /\ TypeOK /\ t \in Tweet /\ DeliveryOK(c) /\ CallOK(c)
  BY <1>1, CallTyped DEF JoinInv
<1>3. PICK e \in IF byKey # {} THEN byKey ELSE IF byObs # {} THEN byObs
                 ELSE IF byTweet # {} THEN byTweet ELSE {None} :
          calls' = [calls EXCEPT ![d] =
            [c EXCEPT !.target = IF e = None THEN None ELSE e.key,
                      !.cluster = Announcements, !.pc = "write"]]
  BY DEF ReadEstimate, Step
<1> DEFINE k == IF e = None THEN None ELSE e.key
           n == [c EXCEPT !.target = k, !.cluster = Announcements, !.pc = "write"]
<1>4. PublicRecovery => k # None
  <2> SUFFICES ASSUME PublicRecovery PROVE k # None
    OBVIOUS
  <2>1. PICK o \in observations : o.at = c.obs
    BY <1>1, <1>2 DEF CallOK
  <2>2. PICK f \in estimates : f.obs = c.obs
    BY <2>1 DEF JoinInv, EventsOK, RecoveryOK
  <2>3. e \in estimates
    BY <1>3, <2>2
  <2>4. e # None /\ e.key # None
    BY <1>2, <2>3, EstimateFields, NoneAssumption DEF TypeOK
  <2> QED
    BY <2>4
<1>5. calls' = [calls EXCEPT ![d] = n]
  BY <1>3
<1> HIDE DEF k
<1>6. /\ n.tweet = t /\ n.verdict = c.verdict /\ n.pc = "write" /\ n.looked = c.looked
      /\ n.obs = c.obs /\ n.est = c.est /\ n.led = c.led /\ n.key = c.key /\ n.target = k
  BY <1>2 DEF Delivery
<1> HIDE DEF n
<1>7. Follows(t) => \A f \in estimates : Finds(n, f)
  BY <1>1, <1>2, <1>6 DEF DeliveryOK, FollowerOK, Finds
<1>8. DeliveryOK(n)
  BY <1>1, <1>2, <1>4, <1>6, <1>7 DEF DeliveryOK, FollowerOK
<1> QED
  BY <1>5, <1>6, <1>8

LEMMA Moves ==
    ASSUME JoinInv, NEW c \in Delivery, c.tweet \in Tweet, DeliveryOK(c),
           NEW b \in BOOLEAN, NEW pc \in {"persist", "evidence", "lookup", "merge"},
           pc = "evidence" => c.looked, pc = "merge" => c.pc = "confirm"
    PROVE  LET n == [c EXCEPT !.blind = b, !.pc = pc]
           IN  n.tweet = c.tweet /\ DeliveryOK(n)
<1> DEFINE n == [c EXCEPT !.blind = b, !.pc = pc]
<1>1. /\ n.tweet = c.tweet /\ n.verdict = c.verdict /\ n.pc = pc /\ n.looked = c.looked
      /\ n.obs = c.obs /\ n.est = c.est /\ n.led = c.led /\ n.key = c.key
  BY DEF Delivery
<1> HIDE DEF n
<1>2. Follows(c.tweet) => \A f \in estimates : Finds(n, f)
  BY <1>1 DEF DeliveryOK, FollowerOK, Finds
<1>3. DeliveryOK(n)
  BY <1>1, <1>2 DEF DeliveryOK, FollowerOK
<1> QED
  BY <1>1, <1>3 DEF n

LEMMA FailedOK ==
    ASSUME JoinInv, OnlyCompletions, NEW d \in Call, StepFails(d)
    PROVE  \E n : calls' = [calls EXCEPT ![d] = n] /\ n.tweet = calls[d].tweet /\ DeliveryOK(n)
<1> DEFINE c == calls[d]
<1>1. c # None
  BY DEF StepFails
<1>2. c \in Delivery /\ TypeOK /\ c.tweet \in Tweet /\ DeliveryOK(c)
  BY <1>1, CallTyped DEF JoinInv
<1>3. \/ Finish(d, "failed")
      \/ calls' = [calls EXCEPT ![d] = [c EXCEPT !.pc = "persist"]]
      \/ calls' = [calls EXCEPT ![d] = [c EXCEPT !.blind = TRUE, !.pc = "persist"]]
  BY DEF StepFails, Step
<1>4. c.blind \in BOOLEAN /\ [c EXCEPT !.pc = "persist"] = [c EXCEPT !.blind = c.blind, !.pc = "persist"]
  BY <1>2 DEF Delivery
<1>5. ASSUME NEW b \in BOOLEAN, calls' = [calls EXCEPT ![d] = [c EXCEPT !.blind = b, !.pc = "persist"]]
      PROVE  \E n : calls' = [calls EXCEPT ![d] = n] /\ n.tweet = c.tweet /\ DeliveryOK(n)
  BY <1>2, <1>5, Moves
<1> QED
  BY <1>1, <1>3, <1>4, <1>5, FinishOK

LEMMA PersistOK ==
    ASSUME JoinInv, OnlyCompletions, NEW d \in Call, Persist(d)
    PROVE  /\ \E n : calls' = [calls EXCEPT ![d] = n] /\ n.tweet = calls[d].tweet /\ DeliveryOK(n)
           /\ \/ signals' = signals
              \/ \E v \in {"deferred", "reset_executed"} :
                    signals' = [signals EXCEPT ![calls[d].tweet] = v]
<1> DEFINE c == calls[d]
<1>1. c # None
  BY DEF Persist, At
<1>2. c \in Delivery /\ TypeOK /\ c.tweet \in Tweet /\ DeliveryOK(c)
  BY <1>1, CallTyped DEF JoinInv
<1>3. CASE ~c.row /\ signals[c.tweet] # "absent"
  <2>1. Finish(d, "failed") /\ UNCHANGED signals
    BY <1>3 DEF Persist
  <2> QED
    BY <1>1, <2>1, FinishOK
<1>4. CASE ~(~c.row /\ signals[c.tweet] # "absent")
  <2>1. /\ signals' = [signals EXCEPT ![c.tweet] = c.verdict]
        /\ IF c.verdict # "reset_executed" THEN Finish(d, "done")
           ELSE IF c.blind THEN Finish(d, "failed")
           ELSE Step(d, [c EXCEPT !.pc = IF c.looked THEN "evidence" ELSE "lookup"])
    BY <1>4 DEF Persist
  <2>2. c.verdict \in {"deferred", "reset_executed"}
    BY <1>2 DEF DeliveryOK
  <2>3. CASE c.verdict # "reset_executed"
    <3>1. Finish(d, "done") /\ ~Follows(c.tweet)
      BY <1>2, <2>1, <2>3 DEF DeliveryOK, FollowerOK
    <3> QED
      BY <1>1, <2>1, <2>2, <3>1, FinishOK
  <2>4. CASE c.verdict = "reset_executed" /\ c.blind
    <3>1. Finish(d, "failed")
      BY <2>1, <2>4
    <3> QED
      BY <1>1, <2>1, <2>2, <3>1, FinishOK
  <2>5. CASE c.verdict = "reset_executed" /\ ~c.blind
    <3> DEFINE pc == IF c.looked THEN "evidence" ELSE "lookup"
    <3>1. calls' = [calls EXCEPT ![d] = [c EXCEPT !.pc = pc]]
      BY <2>1, <2>5 DEF Step
    <3>2. pc \in {"evidence", "lookup"} /\ (pc = "evidence" => c.looked)
      OBVIOUS
    <3> HIDE DEF pc
    <3>3. c.blind \in BOOLEAN /\ [c EXCEPT !.pc = pc] = [c EXCEPT !.blind = c.blind, !.pc = pc]
      BY <1>2 DEF Delivery
    <3>4. pc \in {"persist", "evidence", "lookup", "merge"} /\ pc # "merge"
      BY <3>2
    <3> HIDE DEF c
    <3>5. LET n == [c EXCEPT !.blind = c.blind, !.pc = pc]
          IN  n.tweet = c.tweet /\ DeliveryOK(n)
      BY <1>2, <3>2, <3>3, <3>4, Moves
    <3>6. [c EXCEPT !.pc = pc].tweet = c.tweet /\ DeliveryOK([c EXCEPT !.pc = pc])
      BY <3>3, <3>5
    <3> QED
      BY <2>1, <2>2, <3>1, <3>6 DEF c
  <2> QED
    BY <2>3, <2>4, <2>5
<1> QED
  BY <1>3, <1>4

\* What the claim of a follower comes to: its event, or that it is joined.
LEMMA FollowerResolves ==
    ASSUME JoinInv, NEW d \in Call, calls[d] # None, calls[d].led # None,
           calls[d].est # None, calls[d].pc = "evidence", Follows(calls[d].tweet),
           NEW e \in estimates, NEW x
    PROVE  /\ Resolved(calls[d], x) \subseteq {e.key}
           /\ Resolved(calls[d], x) = {} => e.tweets # {}
<1> DEFINE c == calls[d]
           t == c.tweet
           found == {f.key : f \in Matching(c)}
           keys == LedgerKeys(c) \cup found \cup DynamicKeys(c)
           canonical == {k \in {f.key : f \in {f \in Matching(c) : f.monitor}} :
                        /\ found = {k}
                        /\ keys \subseteq {k, Self(t)}
                        /\ \A u \in Tweet : c.led[u] = k => c.led[t] \in {None, k}}
           unclaimed == {f \in c.est : /\ f.monitor /\ f.obs <= x
                                       /\ \A u \in Tweet : c.led[u] # f.key}
<1>1. c \in Delivery /\ TypeOK /\ t \in Tweet /\ DeliveryOK(c)
  BY CallTyped DEF JoinInv
<1>2. FollowerOK(c) /\ Finds(c, e)
  BY <1>1 DEF DeliveryOK, FollowerOK
<1>3. PICK o \in observations :
        /\ observations = {o} /\ estimates = {e} /\ e.obs = o.at /\ e.key # Self(t)
  BY <1>1, FollowerFinds
<1>4. c.obs = o.at
  BY <1>2, <1>3 DEF FollowerOK
<1>5. Matching(c) = c.est /\ c.est # {}
  BY <1>2, <1>3, <1>4 DEF Matching, Finds, FollowerOK
<1>6. found = {e.key}
  <2>1. \A f \in c.est : f.key = e.key
    BY <1>2 DEF Finds
  <2> QED
    BY <1>5, <2>1
<1>7. LedgerKeys(c) \subseteq {e.key} /\ DynamicKeys(c) \subseteq {Self(t)}
  BY <1>2 DEF LedgerKeys, DynamicKeys, Finds
<1>8. c.led[t] \in {None, e.key}
  BY <1>2 DEF Finds
<1>9. Resolved(c, x) = IF Cardinality(keys) = 1 THEN keys
                       ELSE IF keys # {} THEN canonical
                       ELSE IF unclaimed # {} THEN {} ELSE {Self(t)}
  BY DEF Resolved
<1>10. keys = {e.key} \/ keys = {e.key, Self(t)}
  BY <1>6, <1>7
<1>11. Cardinality({e.key, Self(t)}) = 2
  <2>1. e.key # Self(t) /\ e.key \in {e.key} /\ Self(t) \notin {e.key}
    BY <1>3
  <2>2. Cardinality({e.key}) = 1 /\ IsFiniteSet({e.key})
    BY FS_Singleton
  <2>3. Cardinality({e.key} \cup {Self(t)}) = Cardinality({e.key}) + 1
    BY <2>1, <2>2, FS_AddElement
  <2>4. {e.key} \cup {Self(t)} = {e.key, Self(t)}
    OBVIOUS
  <2> QED
    BY <2>2, <2>3, <2>4
<1>12. Cardinality({e.key}) = 1
  BY FS_Singleton
<1>13. canonical \subseteq {e.key}
  BY <1>6
<1>14. canonical = {} => e.tweets # {}
  <2> SUFFICES ASSUME e.tweets = {} PROVE e.key \in canonical
    OBVIOUS
  <2>1. PICK f \in c.est : f.monitor /\ f.key = e.key
    BY <1>2, <1>5 DEF Finds
  <2>2. keys \subseteq {e.key, Self(t)}
    BY <1>10
  <2> HIDE DEF keys
  <2> QED
    BY <1>5, <1>6, <1>8, <2>1, <2>2
<1> HIDE DEF keys, canonical, unclaimed, found
<1> QED
  BY <1>9, <1>10, <1>11, <1>12, <1>13, <1>14

LEMMA ClaimsOK ==
    ASSUME JoinInv, OnlyCompletions, NEW d \in Call, Claims(d)
    PROVE  /\ \E n : calls' = [calls EXCEPT ![d] = n] /\ n.tweet = calls[d].tweet /\ DeliveryOK(n)
           /\ \/ ledger' = ledger
              \/ \E k \in Key :
                    /\ ledger' = [ledger EXCEPT ![calls[d].tweet] = k]
                    /\ \A u \in Tweet : ledger[u] # k
                    /\ Follows(calls[d].tweet) => \A e \in estimates : k = e.key
<1> DEFINE c == calls[d]
           t == c.tweet
           ks == Resolved(c, post[t].created)
           k == CHOOSE k \in ks : TRUE
           rows == {u \in Tweet : ledger[u] # None /\ (u = t \/ ledger[u] = k)}
           lost == ks = {} \/ RepresentativeOf(c, k) # t \/ ~(rows \subseteq {t})
           n == [NewDelivery(t) EXCEPT !.pc = "nearest", !.row = FALSE, !.key = k,
                                       !.claimed = ClaimedNew(c, rows)]
<1>1. /\ c # None /\ c.led # None /\ c.est # None /\ c.pc = "evidence"
      /\ IF lost
         THEN /\ Finish(d, IF ks # {} /\ RepresentativeOf(c, k) # t
                           THEN "failed" ELSE "done")
              /\ UNCHANGED ledger
         ELSE /\ ledger' = IF rows = {} THEN [ledger EXCEPT ![t] = k] ELSE ledger
              /\ Step(d, n)
  BY DEF Claims, At
<1>2. /\ c \in Delivery /\ TypeOK /\ t \in Tweet
      /\ ledger \in [Tweet -> Key \cup {None}]
  BY <1>1, CallTyped DEF JoinInv, TypeOK
<1>3. ks \subseteq Key
  BY <1>1, <1>2, ResolvedTyped
<1>4. ks # {} => k \in ks
  OBVIOUS
<1>5. ASSUME Follows(t), NEW e \in estimates
      PROVE  ks \subseteq {e.key} /\ (ks = {} => e.tweets # {})
  BY <1>1, <1>5, FollowerResolves
<1>6. Follows(t) => estimates # {}
  BY <1>2, FollowerFinds
<1>7. \A u \in rows : u # t => ledger[u] = k
  OBVIOUS
<1>8. /\ rows = {} /\ k \in Key => ledger[t] = None /\ \A u \in Tweet : ledger[u] # k
      /\ rows # {} /\ rows \subseteq {t} => ledger[t] # None
  BY <1>2, NoneIsNoValue
<1>9. rows \subseteq Tweet
  OBVIOUS
<1>10. ClaimedNew(c, rows) \in BOOLEAN
  BY DEF ClaimedNew
<1> HIDE DEF ks, k, rows
<1>11. CASE lost
  <2>1. ASSUME Follows(t), ~(ks # {} /\ RepresentativeOf(c, k) # t) PROVE Joined(t)
    <3>1. PICK e \in estimates : TRUE
      BY <1>6, <2>1
    <3>2. CASE ks = {}
      BY <1>5, <2>1, <3>1, <3>2 DEF Joined
    <3>3. CASE ks # {}
      <4>1. PICK u \in rows : u # t
        BY <1>11, <2>1, <3>3
      <4>2. ledger[u] = e.key /\ u \in Tweet
        BY <1>4, <1>5, <1>7, <1>9, <2>1, <3>1, <3>3, <4>1
      <4> QED
        BY <3>1, <4>1, <4>2 DEF Joined
    <3> QED
      BY <3>2, <3>3
  <2>2. CASE ks # {} /\ RepresentativeOf(c, k) # t
    BY <1>1, <1>11, <2>2, FinishOK
  <2>3. CASE ~(ks # {} /\ RepresentativeOf(c, k) # t)
    BY <1>1, <1>11, <2>1, <2>3, FinishOK
  <2> QED
    BY <2>2, <2>3
<1>12. CASE ~lost
  <2>1. /\ ks # {} /\ k \in ks /\ k \in Key /\ rows \subseteq {t}
        /\ ledger' = IF rows = {} THEN [ledger EXCEPT ![t] = k] ELSE ledger
        /\ calls' = [calls EXCEPT ![d] = n]
    BY <1>1, <1>3, <1>4, <1>12 DEF Step
  <2> DEFINE new == ClaimedNew(c, rows)
             b == NewDelivery(t)
  <2>2. /\ b \in Delivery /\ b.tweet = t /\ b.verdict = Verdict(t)
        /\ b.led = None /\ b.est = None /\ ~b.looked
    BY <1>2, NewDeliveryTyped, NewFields
  <2>3. new \in BOOLEAN /\ n = [b EXCEPT !.pc = "nearest", !.row = FALSE, !.key = k, !.claimed = new]
    BY <1>10
  <2> HIDE DEF new, b, lost, n
  <2>4. /\ n.tweet = t /\ n.verdict = Verdict(t) /\ n.pc = "nearest" /\ n.key = k
        /\ n.led = None /\ n.est = None /\ ~n.looked
    BY <2>1, <2>2, <2>3 DEF Delivery
  <2>5. ASSUME Follows(t), NEW e \in estimates PROVE k = e.key
    BY <1>5, <2>1, <2>5
  <2>6. DeliveryOK(n)
    <3>1. Verdict(t) = "reset_executed"
      BY <1>1, CallComplete
    <3> QED
      BY <1>2, <2>4, <2>5, <3>1, FreshOK
  <2>7. CASE rows = {}
    BY <1>8, <2>1, <2>4, <2>5, <2>6, <2>7
  <2>8. CASE rows # {}
    BY <2>1, <2>4, <2>6, <2>8
  <2> QED
    BY <2>7, <2>8
<1> QED
  BY <1>11, <1>12

LEMMA ConfirmOK ==
    ASSUME JoinInv, OnlyCompletions, NEW d \in Call, Confirm(d)
    PROVE  \E n : calls' = [calls EXCEPT ![d] = n] /\ n.tweet = calls[d].tweet /\ DeliveryOK(n)
<1> DEFINE c == calls[d]
<1>1. c # None /\ c.pc = "confirm"
  BY DEF Confirm, At
<1>2. c \in Delivery /\ TypeOK /\ c.tweet \in Tweet /\ DeliveryOK(c)
  BY <1>1, CallTyped DEF JoinInv
<1>3. Finish(d, "failed") \/ calls' = [calls EXCEPT ![d] = [c EXCEPT !.pc = "merge"]]
  BY DEF Confirm, Step
<1>4. c.blind \in BOOLEAN /\ [c EXCEPT !.pc = "merge"] = [c EXCEPT !.blind = c.blind, !.pc = "merge"]
  BY <1>2 DEF Delivery
<1> HIDE DEF c
<1>5. LET n == [c EXCEPT !.blind = c.blind, !.pc = "merge"]
      IN  n.tweet = c.tweet /\ DeliveryOK(n)
  BY <1>1, <1>2, <1>4, Moves
<1> QED
  BY <1>1, <1>3, <1>4, <1>5, FinishOK DEF c

\* A merge replaces the event there is, which keeps its name if the recovery is
\* for all.
LEMMA WriteEffect ==
    ASSUME JoinInv, NEW d \in Call, WriteEstimate(d)
    PROVE  \/ estimates' = estimates /\ Finish(d, "failed")
           \/ \E m \in Estimate :
                /\ estimates' = {m} /\ m.tweets # {} /\ ~m.monitor
                /\ \E o \in observations : m.obs = o.at
                /\ PublicRecovery => \A e \in estimates : m.key = e.key
                /\ Finish(d, "done")
<1> DEFINE c == calls[d]
           m == Merged(c)
           rest == estimates \ Overwritten(c)
           clash == \E e \in rest : e.key = m.key \/ e.obs = c.obs
<1>1. c # None /\ c.pc = "write" /\ m \in Estimate
  BY MergedTyped DEF WriteEstimate, At, JoinInv
<1>2. DeliveryOK(c) /\ CallOK(c)
  BY <1>1, CallTyped DEF JoinInv
<1>3. PICK o \in observations : o.at = c.obs
  BY <1>1, <1>2 DEF CallOK
<1>4. \A e \in estimates : estimates = {e} /\ e.obs = c.obs
  BY <1>3 DEF JoinInv, EventsOK, RecoveryOK
<1>5. PublicRecovery => estimates # {} /\ c.target # None
  BY <1>1, <1>2 DEF DeliveryOK, JoinInv, EventsOK
<1>6. m.tweets # {} /\ ~m.monitor /\ m.obs = c.obs
      /\ m.key = (IF c.target # None THEN c.target ELSE c.key)
  BY DEF Merged
<1>7. /\ estimates' = IF clash THEN estimates ELSE rest \cup {m}
      /\ Finish(d, IF clash THEN "failed" ELSE "done")
  BY DEF WriteEstimate
<1>8. Overwritten(c) = {e \in estimates : IF c.target # None THEN e.key = c.target
                                          ELSE e.obs = c.obs}
  BY DEF Overwritten
<1>9. clash <=> rest # {}
  BY <1>4
<1> HIDE DEF m
<1>10. CASE clash
  BY <1>7, <1>10
<1>11. CASE ~clash
  <2>1. estimates' = {m}
    BY <1>7, <1>9, <1>11
  <2>2. ASSUME PublicRecovery, NEW e \in estimates PROVE m.key = e.key
    <3>1. e \in Overwritten(c)
      BY <1>9, <1>11
    <3> QED
      BY <1>5, <1>6, <1>8, <2>2, <3>1
  <2> QED
    BY <1>1, <1>3, <1>6, <1>7, <1>11, <2>1, <2>2
<1> QED
  BY <1>10, <1>11

\* The steps of a delivery, each with what it does to the tables.
LEMMA OneDelivery ==
    ASSUME JoinInv, Keeps, NEW d \in Call, NEW n,
           calls' = [calls EXCEPT ![d] = n],
           n = None \/ (n.tweet \in Tweet /\ (DeliveryOK(n) \/ DeliveryOK(n)'))
    PROVE  \A e \in Call : calls'[e] # None => DeliveryOK(calls[e])'
<1> SUFFICES ASSUME NEW e \in Call, calls'[e] # None PROVE DeliveryOK(calls[e])'
  OBVIOUS
<1>1. TypeOK /\ FollowersOK /\ calls \in [Call -> Delivery \cup {None}]
  BY DEF JoinInv, WebhookInv, UsageInv, WebhookTypeOK
<1>2. CASE e = d
  <2>1. calls'[e] = n /\ n # None
    BY <1>1, <1>2
  <2>2. DeliveryOK(n)'
    <3>1. CASE DeliveryOK(n)
      <4>1. n.tweet \in Tweet
        BY <2>1
      <4> QED
        BY <1>1, <3>1, <4>1, DeliveryKept
    <3> QED
      BY <2>1, <3>1
  <2> QED
    BY <2>1, <2>2 DEF DeliveryOK, FollowerOK
<1>3. CASE e # d
  <2>1. calls'[e] = calls[e]
    BY <1>1, <1>3
  <2>2. calls[e].tweet \in Tweet /\ DeliveryOK(calls[e])
    BY <2>1, CallTyped DEF JoinInv
  <2> DEFINE c == calls[e]
  <2>3. DeliveryOK(c) /\ c.tweet \in Tweet /\ calls'[e] = c
    BY <2>1, <2>2
  <2>4. PICK x : x = c
    OBVIOUS
  <2>5. DeliveryOK(x)'
    BY <1>1, <2>3, <2>4, DeliveryKept
  <2> QED
    BY <2>3, <2>4, <2>5 DEF DeliveryOK, FollowerOK
<1> QED
  BY <1>2, <1>3

LEMMA FoundStays ==
    ASSUME JoinInv, Keeps, NEW r \in Slot, requests'[r] = requests[r], requests[r] # None
    PROVE  FoundOK(requests[r])'
<1>1. PICK q : q = requests[r]
  OBVIOUS
<1>2. q.match \in Tweet \cup {None} /\ FoundOK(q)
  BY <1>1, RequestTyped, RequestFields DEF JoinInv, WebhookInv, UsageInv
<1>3. FoundOK(q)'
  BY <1>2, FoundKept
<1> QED
  BY <1>1, <1>3 DEF FoundOK

LEMMA SteadyTables ==
    ASSUME JoinInv, UNCHANGED <<state, signals, ledger, observations, estimates, post>>
    PROVE  Keeps /\ PostsOK' /\ RecoveryOK' /\ EventsOK' /\ FollowersOK'
<1>1. RecoveriesKept /\ EventsKept /\ LedgerStays
  BY DEF RecoveriesKept, EventsKept, LedgerStays
<1>2. Keeps
  BY <1>1 DEF Keeps
<1>3. PostsOK' /\ RecoveryOK' /\ EventsOK'
  BY DEF JoinInv, PostsOK, RecoveryOK, EventsOK, Follows, PublicRecovery
<1>4. FollowersOK'
  BY DEF JoinInv, FollowersOK, Follows, Joined
<1> QED
  BY <1>2, <1>3, <1>4

LEMMA PersistTables ==
    ASSUME JoinInv, NEW t \in Tweet, post[t].sends >= 1,
           NEW v \in {"deferred", "reset_executed"},
           signals' = [signals EXCEPT ![t] = v],
           UNCHANGED <<state, ledger, observations, estimates, post>>
    PROVE  Keeps /\ PostsOK' /\ RecoveryOK' /\ EventsOK' /\ FollowersOK'
<1>1. signals \in [Tweet -> SignalType]
  BY DEF JoinInv, WebhookInv, UsageInv, TypeOK
<1>2. RecoveriesKept /\ EventsKept /\ LedgerStays
  BY DEF RecoveriesKept, EventsKept, LedgerStays
<1>3. Keeps
  BY <1>1, <1>2 DEF Keeps
<1>4. RecoveryOK' /\ EventsOK' /\ FollowersOK'
  BY DEF JoinInv, RecoveryOK, EventsOK, PublicRecovery, FollowersOK, Follows, Joined
<1>5. PostsOK'
  BY <1>1 DEF JoinInv, PostsOK, Follows
<1> QED
  BY <1>3, <1>4, <1>5

LEMMA ClaimsTables ==
    ASSUME JoinInv, LedgerStays, NEW t \in Tweet, post[t].sends >= 1, NEW k \in Key,
           ledger' = [ledger EXCEPT ![t] = k], \A u \in Tweet : ledger[u] # k,
           Follows(t) => \A e \in estimates : k = e.key,
           UNCHANGED <<state, signals, observations, estimates, post>>
    PROVE  Keeps /\ PostsOK' /\ RecoveryOK' /\ EventsOK' /\ FollowersOK'
<1>1. ledger \in [Tweet -> Key \cup {None}] /\ TypeOK /\ FollowersOK
  BY DEF JoinInv, WebhookInv, UsageInv, TypeOK
<1>2. RecoveriesKept /\ EventsKept
  BY DEF RecoveriesKept, EventsKept
<1>3. Keeps
  BY <1>2 DEF Keeps
<1>4. RecoveryOK' /\ EventsOK'
  BY DEF JoinInv, RecoveryOK, EventsOK, PublicRecovery
<1>5. \A u \in Tweet, e \in estimates : Follows(u) => ledger'[u] \in {None, e.key}
  BY <1>1 DEF FollowersOK
<1>6. FollowersOK'
  BY <1>1, <1>3, <1>5, FollowersKept
<1>7. PostsOK'
  BY <1>1 DEF JoinInv, PostsOK, Follows
<1> QED
  BY <1>3, <1>4, <1>6, <1>7

LEMMA ConfirmTables ==
    ASSUME JoinInv, NEW d \in Call, Confirm(d)
    PROVE  Keeps /\ PostsOK' /\ RecoveryOK' /\ EventsOK' /\ FollowersOK'
<1>1. UNCHANGED <<state, signals, ledger, estimates, post>> /\ calls[d] # None
  BY DEF Confirm, At
<1>2. TypeOK /\ FollowersOK /\ calls[d].tweet \in Tweet
  BY <1>1, CallTyped DEF JoinInv
<1>3. CASE observations' = observations
  BY <1>1, <1>3, SteadyTables
<1>4. CASE observations' # observations
  <2> DEFINE p(o) == [o EXCEPT !.status = "confirmed", !.tibo = calls[d].tweet]
  <2>1. PICK o \in observations :
          /\ o.status = "observed"
          /\ observations' = (observations \ {o}) \cup {p(o)} /\ p(o).at = o.at
    BY <1>4, ConfirmEffect DEF JoinInv
  <2>2. observations = {o} /\ o.tibo = None /\ state # None /\ state.cycle >= 1
    BY <2>1 DEF JoinInv, RecoveryOK
  <2>3. PICK q : q = p(o)
    OBVIOUS
  <2>4. o \in Observation
    BY <1>2 DEF TypeOK
  <2>5. /\ q.at = o.at /\ q.status = "confirmed" /\ q.tibo = calls[d].tweet
        /\ q.hint = o.hint /\ q.blind = o.blind
    BY <2>3, <2>4 DEF Observation
  <2>6. observations' = {q}
    BY <2>1, <2>2, <2>3
  <2> HIDE DEF p
  <2>7. Public(q) <=> Public(o)
    BY <2>1, <2>5 DEF Public
  <2>8. o.tibo \notin Tweet
    BY <2>2, NoneIsNoValue
  <2>9. RecoveriesKept
    BY <2>2, <2>5, <2>6, <2>7, <2>8 DEF RecoveriesKept
  <2>10. EventsKept /\ LedgerStays
    BY <1>1 DEF EventsKept, LedgerStays
  <2>11. Keeps
    BY <1>1, <2>9, <2>10 DEF Keeps
  <2>12. RecoveryOK'
    BY <1>1, <1>2, <2>2, <2>5, <2>6 DEF RecoveryOK
  <2>13. EventsOK'
    <3>1. PublicRecovery' <=> PublicRecovery
      BY <2>11, PublicKept
    <3>2. \A e \in estimates : e.obs = q.at
      BY <2>2, <2>5 DEF JoinInv, EventsOK
    <3> QED
      BY <1>1, <2>6, <3>1, <3>2 DEF JoinInv, EventsOK
  <2>14. FollowersOK'
    BY <1>1, <1>2, <2>11, FollowersKept DEF FollowersOK
  <2>15. PostsOK'
    BY <1>1 DEF JoinInv, PostsOK, Follows
  <2> QED
    BY <2>11, <2>12, <2>13, <2>14, <2>15
<1> QED
  BY <1>3, <1>4

LEMMA WriteTables ==
    ASSUME JoinInv, NEW d \in Call, WriteEstimate(d)
    PROVE  Keeps /\ PostsOK' /\ RecoveryOK' /\ EventsOK' /\ FollowersOK'
<1>1. UNCHANGED <<state, signals, ledger, observations, post>>
  BY DEF WriteEstimate
<1>2. TypeOK /\ FollowersOK
  BY DEF JoinInv, WebhookInv, UsageInv
<1>3. CASE estimates' = estimates
  BY <1>1, <1>3, SteadyTables
<1>4. CASE estimates' # estimates
  <2>1. PICK m \in Estimate, o \in observations :
          /\ estimates' = {m} /\ m.tweets # {} /\ ~m.monitor /\ m.obs = o.at
          /\ PublicRecovery => \A e \in estimates : m.key = e.key
    BY <1>4, WriteEffect
  <2>2. \A e \in estimates : e.obs = o.at /\ estimates = {e}
    BY DEF JoinInv, EventsOK, RecoveryOK
  <2>3. RecoveriesKept /\ LedgerStays
    BY <1>1 DEF RecoveriesKept, LedgerStays
  <2>4. EventsKept
    <3> SUFFICES ASSUME PublicRecovery
                 PROVE  \E e \in estimates : estimates = {e} /\ m.key = e.key /\ m.obs = e.obs
      BY <2>1 DEF EventsKept
    <3>1. PICK e \in estimates : TRUE
      BY DEF JoinInv, EventsOK
    <3> QED
      BY <2>1, <2>2, <3>1
  <2>5. Keeps
    BY <1>1, <2>3, <2>4 DEF Keeps
  <2>6. RecoveryOK' /\ PostsOK'
    BY <1>1 DEF JoinInv, RecoveryOK, PostsOK, Follows
  <2>7. EventsOK'
    BY <1>1, <2>1 DEF EventsOK
  <2>8. FollowersOK'
    BY <1>1, <1>2, <2>5, FollowersKept DEF FollowersOK
  <2> QED
    BY <2>5, <2>6, <2>7, <2>8
<1> QED
  BY <1>3, <1>4

----------------------------------------------------------------------------
(* The deliveries keep the invariant.                                      *)

\* A post that is sent for the first time has left no trace yet, and may follow
\* the recovery that is there.
LEMMA DeliverJoins ==
    ASSUME JoinInv, NamesInv, OnlyCompletions', NEW d \in Call, NEW t \in Tweet,
           Deliver(d, t)
    PROVE  /\ PostsOK' /\ RecoveryOK' /\ EventsOK' /\ FollowersOK'
           /\ \A e \in Call : calls'[e] # None => DeliveryOK(calls[e])'
<1>1. /\ calls[d] = None /\ ~post[t].settled
      /\ calls' = [calls EXCEPT ![d] = NewDelivery(t)] /\ UNCHANGED vars
  BY DEF Deliver
<1>2. PICK c \in IF post[t].sends = 0 THEN 0..LastRead ELSE {post[t].created} :
        post' = [post EXCEPT
            ![t].sends = @ + 1, ![t].created = c,
            ![t].followed = IF post[t].sends > 0 THEN @
                            ELSE {o.at : o \in {o \in observations :
                                                  Public(o) /\ o.at <= c}}]
  BY DEF Deliver
<1>3. /\ TypeOK /\ FollowersOK /\ calls \in [Call -> Delivery \cup {None}]
      /\ post \in [Tweet -> Post] /\ post[t].sends \in Nat
  BY PostFields DEF JoinInv, WebhookInv, WebhookTypeOK, Post, UsageInv
<1>4. UNCHANGED <<state, signals, ledger, observations, estimates>>
  BY <1>1 DEF vars, tables
<1>5. /\ \A u \in Tweet : u # t => post'[u] = post[u]
      /\ post'[t].sends = post[t].sends + 1 /\ post'[t].settled = post[t].settled
      /\ post'[t].followed = IF post[t].sends > 0 THEN post[t].followed
                             ELSE {o.at : o \in {o \in observations :
                                                   Public(o) /\ o.at <= c}}
  BY <1>2, <1>3 DEF Post
<1>6. PostsOK' /\ RecoveryOK' /\ EventsOK'
  <2>1. \A u \in Tweet : post[u].sends >= 1 => post'[u].sends >= 1
    BY <1>3, <1>5
  <2>2. post'[t].sends >= 1
    BY <1>3, <1>5
  <2> QED
    BY <1>4, <1>5, <2>1, <2>2
       DEF JoinInv, PostsOK, RecoveryOK, EventsOK, Follows, PublicRecovery
<1>7. Verdict(t) = "reset_executed" /\ DeliveryOK(NewDelivery(t))
  <2>1. Sent(t)'
    BY <1>3, <1>5 DEF Sent
  <2>2. Verdict(t) = "reset_executed"
    BY <2>1 DEF OnlyCompletions, Verdict
  <2> QED
    BY <1>3, <2>2, NewFields, FreshOK
<1>8. NewDelivery(t).tweet = t
  BY <1>3, NewFields
<1>9. CASE post[t].sends > 0
  <2>1. \A u \in Tweet : post'[u].followed = post[u].followed
    BY <1>5, <1>9
  <2>2. RecoveriesKept /\ EventsKept /\ LedgerStays
    BY <1>4 DEF RecoveriesKept, EventsKept, LedgerStays
  <2>3. Keeps
    BY <1>4, <2>1, <2>2 DEF Keeps
  <2>4. \A u \in Tweet : post'[u].settled = post[u].settled
    BY <1>5
  <2>5. FollowersOK'
    BY <1>3, <1>4, <2>3, <2>4, FollowersKept DEF FollowersOK
  <2> QED
    BY <1>1, <1>6, <1>7, <1>8, <2>3, <2>5, OneDelivery
<1>10. CASE post[t].sends = 0
  <2>1. ledger[t] = None /\ \A e \in estimates : e.key # Self(t)
    BY <1>3, <1>10 DEF JoinInv, PostsOK, NamesInv, NamesOK
  <2>2. \A x \in post'[t].followed : \E o \in observations : o.at = x /\ Public(o)
    BY <1>5, <1>10
  <2>3. ASSUME NEW u \in Tweet, u # t
        PROVE  /\ Follows(u)' <=> Follows(u)
               /\ Joined(u)' <=> Joined(u)
    BY <1>4, <1>5, <2>3 DEF Follows, Joined
  <2>4. FollowersOK'
    <3> SUFFICES ASSUME NEW u \in Tweet
                 PROVE  /\ \A x \in post'[u].followed :
                              \E o \in observations : o.at = x /\ Public(o)
                        /\ Follows(u)' =>
                              /\ \A e \in estimates : e.key # Self(u) /\ ledger[u] \in {None, e.key}
                              /\ post'[u].settled => Joined(u)'
      BY <1>4 DEF FollowersOK, Public
    <3>1. CASE u = t
      BY <1>1, <1>5, <2>1, <2>2, <3>1
    <3>2. CASE u # t
      BY <1>5, <2>3, <3>2 DEF JoinInv, FollowersOK
    <3> QED
      BY <3>1, <3>2
  <2>5. ASSUME NEW e \in Call, calls'[e] # None PROVE DeliveryOK(calls[e])'
    <3>1. CASE e = d
      <4>1. PICK n : n = NewDelivery(t)
        OBVIOUS
      <4>2. /\ n.tweet = t /\ n.verdict = Verdict(t) /\ n.led = None /\ n.est = None
            /\ ~n.looked /\ n.pc = "existing"
        BY <1>3, <4>1, NewFields
      <4>3. DeliveryOK(n)'
        BY <1>7, <4>2 DEF DeliveryOK, FollowerOK, Finds
      <4> QED
        BY <1>1, <1>3, <3>1, <4>1, <4>3 DEF DeliveryOK, FollowerOK
    <3>2. CASE e # d
      <4>1. PICK n : n = calls[e]
        OBVIOUS
      <4>2. calls'[e] = n /\ n # None
        BY <1>1, <1>3, <2>5, <3>2, <4>1
      <4>3. n.tweet \in Tweet /\ DeliveryOK(n) /\ post[n.tweet].sends >= 1
        BY <4>1, <4>2, CallTyped DEF JoinInv, CallOK
      <4>4. n.tweet # t
        BY <1>10, <4>3
      <4>5. PublicRecovery' <=> PublicRecovery
        BY <1>4 DEF PublicRecovery
      <4>6. DeliveryOK(n)'
        BY <1>4, <2>3, <4>3, <4>4, <4>5 DEF DeliveryOK, FollowerOK
      <4> QED
        BY <4>2, <4>6 DEF DeliveryOK, FollowerOK
    <3> QED
      BY <3>1, <3>2
  <2> QED
    BY <1>6, <2>4, <2>5
<1> QED
  BY <1>3, <1>9, <1>10

LEMMA EndJoins ==
    ASSUME JoinInv, NEW d \in Call, Answered(d) \/ CallLost(d)
    PROVE  /\ Keeps /\ PostsOK' /\ RecoveryOK' /\ EventsOK' /\ FollowersOK'
           /\ \A e \in Call : calls'[e] # None => DeliveryOK(calls[e])'
<1> DEFINE c == calls[d]
<1>1. c # None /\ calls' = [calls EXCEPT ![d] = None]
  BY DEF Answered, CallLost
<1>2. UNCHANGED <<state, signals, ledger, observations, estimates>>
  BY DEF Answered, CallLost, vars, tables
<1>3. /\ TypeOK /\ FollowersOK /\ c.tweet \in Tweet /\ DeliveryOK(c)
      /\ post \in [Tweet -> Post]
  BY <1>1, CallTyped DEF JoinInv, WebhookInv, WebhookTypeOK, Post
<1>4. /\ \A u \in Tweet : post'[u].followed = post[u].followed /\ post'[u].sends = post[u].sends
      /\ \A u \in Tweet : post'[u].settled => post[u].settled \/ (u = c.tweet /\ c.pc = "done")
  <2>1. CASE CallLost(d)
    BY <2>1 DEF CallLost
  <2>2. CASE Answered(d)
    BY <1>3, <2>2 DEF Answered, Post
  <2> QED
    BY <2>1, <2>2
<1>5. RecoveriesKept /\ EventsKept /\ LedgerStays
  BY <1>2 DEF RecoveriesKept, EventsKept, LedgerStays
<1>6. Keeps
  BY <1>2, <1>4, <1>5 DEF Keeps
<1>7. PostsOK' /\ RecoveryOK' /\ EventsOK'
  BY <1>2, <1>4 DEF JoinInv, PostsOK, RecoveryOK, EventsOK, Follows, PublicRecovery
<1>8. FollowersOK'
  <2>1. \A u \in Tweet : Follows(u) /\ post'[u].settled => post[u].settled \/ Joined(u)
    BY <1>3, <1>4 DEF DeliveryOK, FollowerOK
  <2>2. \A u \in Tweet, e \in estimates : Follows(u) => ledger'[u] \in {None, e.key}
    BY <1>2, <1>3 DEF FollowersOK
  <2> QED
    BY <1>3, <1>6, <2>1, <2>2, FollowersKept
<1> QED
  BY <1>1, <1>6, <1>7, <1>8, OneDelivery

LEMMA WriteJoins ==
    ASSUME JoinInv, OnlyCompletions, NEW d \in Call, WriteEstimate(d)
    PROVE  \A e \in Call : calls'[e] # None => DeliveryOK(calls[e])'
<1> DEFINE c == calls[d]
<1>1. c # None
  BY DEF WriteEstimate, At
<1>2. c \in Delivery /\ TypeOK /\ c.tweet \in Tweet /\ DeliveryOK(c)
  BY <1>1, CallTyped DEF JoinInv
<1>3. Keeps
  BY WriteTables
<1>4. CASE Finish(d, "failed")
  <2>1. PICK n : calls' = [calls EXCEPT ![d] = n] /\ n.tweet = c.tweet /\ DeliveryOK(n)
    BY <1>1, <1>4, FinishOK
  <2> QED
    BY <1>2, <1>3, <2>1, OneDelivery
<1>5. CASE ~Finish(d, "failed")
  <2>1. PICK m \in Estimate : estimates' = {m} /\ m.tweets # {} /\ Finish(d, "done")
    BY <1>5, WriteEffect
  <2>2. PICK n : n = Over(c, "done")
    OBVIOUS
  <2>3. calls' = [calls EXCEPT ![d] = n]
    BY <2>1, <2>2 DEF Finish, Step, Over
  <2>4. /\ n.verdict = Verdict(c.tweet) /\ n.led = None /\ n.est = None
        /\ ~n.looked /\ n.pc = "done" /\ n.tweet = c.tweet
    BY <1>2, <2>2, OverFields
  <2>5. Joined(n.tweet)'
    BY <2>1 DEF Joined
  <2>6. n.verdict = "reset_executed"
    <3>1. Verdict(c.tweet) = "reset_executed"
      BY <1>1, CallComplete
    <3> QED
      BY <2>4, <3>1
  <2>7. DeliveryOK(n)'
    BY <2>4, <2>5, <2>6 DEF DeliveryOK, FollowerOK, Finds
  <2> QED
    BY <1>2, <1>3, <2>3, <2>4, <2>7, OneDelivery
<1> QED
  BY <1>4, <1>5

LEMMA TiboJoins ==
    ASSUME JoinInv, NamesInv, OnlyCompletions, OnlyCompletions', TiboNext
    PROVE  JoinInv'
<1>1. PICK d \in Call :
        \/ \E t \in Tweet : Deliver(d, t)
        \/ ReadExisting(d) \/ Preflight(d) \/ Persist(d) \/ Lookup(d)
        \/ ReadLedger(d) \/ ReadEstimates(d) \/ Claims(d) \/ ReadNearest(d)
        \/ Confirm(d) \/ ReadEstimate(d) \/ WriteEstimate(d)
        \/ StepFails(d) \/ Answered(d) \/ CallLost(d)
  BY DEF TiboNext
<1>2. WebhookInv' /\ LedgerStays
  BY TiboStep, TiboTables DEF JoinInv
<1>3. requests' = requests
  BY <1>1 DEF Deliver, ReadExisting, Preflight, Persist, Lookup, ReadLedger,
     ReadEstimates, Claims, ReadNearest, Confirm, ReadEstimate, WriteEstimate, StepFails,
     Answered, CallLost, vars
<1>4. calls[d] # None => calls[d].tweet \in Tweet /\ post[calls[d].tweet].sends >= 1
  BY CallTyped DEF JoinInv, CallOK
<1> DEFINE Tables == PostsOK' /\ RecoveryOK' /\ EventsOK' /\ FollowersOK'
           AllOK == \A e \in Call : calls'[e] # None => DeliveryOK(calls[e])'
<1>5. CASE \E t \in Tweet : Deliver(d, t)
  <2>1. Tables /\ AllOK
    BY <1>5, DeliverJoins
  <2>2. UNCHANGED <<signals, observations, estimates>>
    BY <1>5 DEF Deliver, vars, tables
  <2>3. ASSUME NEW r \in Slot, requests'[r] # None PROVE FoundOK(requests[r])'
    <3>1. FoundOK(requests[r])
      BY <1>3, <2>3 DEF JoinInv
    <3> QED
      BY <1>3, <2>2, <3>1 DEF FoundOK, PublicRecovery
  <2> QED
    BY <1>2, <2>1, <2>3 DEF JoinInv
<1>6. ASSUME Keeps PROVE \A r \in Slot : requests'[r] # None => FoundOK(requests[r])'
  BY <1>3, <1>6, FoundStays
<1>7. CASE Answered(d) \/ CallLost(d)
  BY <1>2, <1>6, <1>7, EndJoins DEF JoinInv
<1>8. CASE WriteEstimate(d)
  BY <1>2, <1>6, <1>8, WriteTables, WriteJoins DEF JoinInv
<1>9. CASE Confirm(d)
  <2>1. PICK n : calls' = [calls EXCEPT ![d] = n] /\ n.tweet = calls[d].tweet /\ DeliveryOK(n)
    BY <1>9, ConfirmOK
  <2>2. Keeps /\ Tables
    BY <1>9, ConfirmTables
  <2>3. calls[d] # None
    BY <1>9 DEF Confirm, At
  <2>4. AllOK
    BY <1>4, <2>1, <2>2, <2>3, OneDelivery
  <2> QED
    BY <1>2, <1>6, <2>2, <2>4 DEF JoinInv
<1>10. CASE Persist(d)
  <2>1. calls[d] # None /\ UNCHANGED <<state, ledger, observations, estimates, post>>
    BY <1>10 DEF Persist, At
  <2>2. PICK n : calls' = [calls EXCEPT ![d] = n] /\ n.tweet = calls[d].tweet /\ DeliveryOK(n)
    BY <1>10, PersistOK
  <2>3. Keeps /\ Tables
    BY <1>4, <1>10, <2>1, PersistOK, PersistTables, SteadyTables
  <2>4. AllOK
    BY <1>4, <2>1, <2>2, <2>3, OneDelivery
  <2> QED
    BY <1>2, <1>6, <2>3, <2>4 DEF JoinInv
<1>11. CASE Claims(d)
  <2>1. calls[d] # None /\ UNCHANGED <<state, signals, observations, estimates, post>>
    BY <1>11 DEF Claims, At
  <2>2. PICK n : calls' = [calls EXCEPT ![d] = n] /\ n.tweet = calls[d].tweet /\ DeliveryOK(n)
    BY <1>11, ClaimsOK
  <2>3. Keeps /\ Tables
    BY <1>2, <1>4, <1>11, <2>1, ClaimsOK, ClaimsTables, SteadyTables
  <2>4. AllOK
    BY <1>4, <2>1, <2>2, <2>3, OneDelivery
  <2> QED
    BY <1>2, <1>6, <2>3, <2>4 DEF JoinInv
<1>12. CASE \/ ReadExisting(d) \/ Preflight(d) \/ Lookup(d) \/ ReadLedger(d)
            \/ ReadEstimates(d) \/ ReadNearest(d) \/ ReadEstimate(d) \/ StepFails(d)
  <2>1. calls[d] # None /\ UNCHANGED <<state, signals, ledger, observations, estimates, post>>
    BY <1>12 DEF ReadExisting, Preflight, Lookup, ReadLedger, ReadEstimates, ReadNearest,
       ReadEstimate, StepFails, At, vars, tables
  <2>2. PICK n : calls' = [calls EXCEPT ![d] = n] /\ n.tweet = calls[d].tweet /\ DeliveryOK(n)
    BY <1>12, EarlyReads, EvidenceReads, NearestReads, EstimateReads, FailedOK
  <2>3. Keeps /\ Tables
    BY <2>1, SteadyTables
  <2>4. AllOK
    BY <1>4, <2>1, <2>2, <2>3, OneDelivery
  <2> QED
    BY <1>2, <1>6, <2>3, <2>4 DEF JoinInv
<1> QED
  BY <1>1, <1>5, <1>7, <1>8, <1>9, <1>10, <1>11, <1>12

----------------------------------------------------------------------------
(* The requests of the monitor keep it, too.                               *)

\* What a request finds is what FoundOK says.
LEMMA CallsStay ==
    ASSUME JoinInv, Keeps, calls' = calls
    PROVE  \A d \in Call : calls'[d] # None => DeliveryOK(calls[d])'
<1> SUFFICES ASSUME NEW d \in Call, calls'[d] # None PROVE DeliveryOK(calls[d])'
  OBVIOUS
<1>1. PICK c : c = calls[d]
  OBVIOUS
<1>2. calls'[d] = c /\ c # None
  BY <1>1
<1>3. TypeOK /\ FollowersOK /\ c.tweet \in Tweet /\ DeliveryOK(c)
  BY <1>1, <1>2, CallTyped DEF JoinInv
<1>4. DeliveryOK(c)'
  BY <1>3, DeliveryKept
<1> QED
  BY <1>2, <1>4 DEF DeliveryOK, FollowerOK

LEMMA OneRequest ==
    ASSUME JoinInv, Keeps, NEW r \in Slot, NEW q, requests' = [requests EXCEPT ![r] = q],
           q = None \/ (q.match \in Tweet \cup {None} /\ FoundOK(q))
    PROVE  \A p \in Slot : requests'[p] # None => FoundOK(requests[p])'
<1> SUFFICES ASSUME NEW p \in Slot, requests'[p] # None PROVE FoundOK(requests[p])'
  OBVIOUS
<1>1. requests \in [Slot -> Request \cup {None}]
  BY DEF JoinInv, WebhookInv, UsageInv, TypeOK
<1>2. CASE p = r
  <2>1. requests'[p] = q /\ q # None
    BY <1>1, <1>2
  <2>2. FoundOK(q)'
    BY <2>1, FoundKept
  <2> QED
    BY <2>1, <2>2 DEF FoundOK
<1>3. CASE p # r
  <2>1. requests'[p] = requests[p] /\ requests[p] # None
    BY <1>1, <1>3
  <2> QED
    BY <2>1, FoundStays
<1> QED
  BY <1>2, <1>3

LEMMA NewFound ==
    ASSUME NEW s, NEW x
    PROVE  /\ NewRequest(s).match = None /\ FoundOK(NewRequest(s))
           /\ LET n == [NewRequest(s) EXCEPT !.retry = 1, !.since = x]
              IN  n.match = None /\ FoundOK(n)
BY DEF NewRequest, FoundOK

\* A request that goes on with what it has found.
LEMMA PcFound ==
    ASSUME NEW q \in Request, FoundOK(q), NEW pc, pc # "claim"
    PROVE  LET n == [q EXCEPT !.pc = pc]
           IN  n.match = q.match /\ FoundOK(n)
<1> DEFINE n == [q EXCEPT !.pc = pc]
<1>1. /\ n.match = q.match /\ n.notice = q.notice /\ n.teaser = q.teaser
      /\ n.cluster = q.cluster /\ n.spent = q.spent /\ n.promote = q.promote /\ n.pc = pc
  BY DEF Request
<1> HIDE DEF n
<1>2. FoundOK(n)
  BY <1>1 DEF FoundOK
<1> QED
  BY <1>1, <1>2 DEF n

LEMMA NothingElse ==
    ASSUME JoinInv
    PROVE  /\ \A t \in Tweet : signals[t] \notin {"official_notice", "teaser"}
           /\ Announcements = {}
<1>1. \A t \in Tweet : signals[t] \in {"absent", "deferred", "reset_executed"}
  BY DEF JoinInv, PostsOK
<1> QED
  BY <1>1 DEF Announcements

\* The steps that leave the tables alone.
LEMMA RequestsFind ==
    ASSUME JoinInv, UsageNext, UNCHANGED tables
    PROVE  \/ requests' = requests
           \/ \E r \in Slot : \E q :
                /\ requests' = [requests EXCEPT ![r] = q]
                /\ q = None \/ (q.match \in Tweet \cup {None} /\ FoundOK(q))
           \/ \E r \in Slot : Apply(r) \/ Claim(r)
<1>1. /\ requests \in [Slot -> Request \cup {None}] /\ queue \in Seq(Snapshot)
      /\ \A r \in Slot : requests[r] # None =>
            /\ requests[r] \in Request /\ FoundOK(requests[r])
            /\ requests[r].match \in Tweet \cup {None}
  BY RequestFields DEF JoinInv, WebhookInv, UsageInv, TypeOK
<1>2. CASE Enqueue \/ GiveUp
  BY <1>2 DEF Enqueue, GiveUp
<1>3. CASE Heartbeat \/ Send
  <2>1. PICK r \in Slot : \E s : requests' = [requests EXCEPT ![r] = NewRequest(s)]
    BY <1>3 DEF Heartbeat, Send
  <2> QED
    BY <2>1, NewFound
<1>4. ASSUME NEW r \in Slot, Serve(r) \/ Fails(r), ~Apply(r), ~Claim(r)
      PROVE  \E q : /\ requests' = [requests EXCEPT ![r] = q]
                    /\ q = None \/ (q.match \in Tweet \cup {None} /\ FoundOK(q))
  <2> DEFINE q == requests[r]
  <2>1. ASSUME q # None, NEW pc, pc # "claim", requests' = [requests EXCEPT ![r].pc = pc]
        PROVE  \E m : /\ requests' = [requests EXCEPT ![r] = m]
                      /\ m.match \in Tweet \cup {None} /\ FoundOK(m)
    <3> DEFINE m == [q EXCEPT !.pc = pc]
    <3>1. requests' = [requests EXCEPT ![r] = m]
      BY <1>1, <2>1
    <3>2. m.match \in Tweet \cup {None} /\ FoundOK(m)
      BY <1>1, <2>1, PcFound
    <3> HIDE DEF m
    <3> QED
      BY <3>1, <3>2
  <2>2. CASE ReadState(r)
    <3>1. PICK pc \in {"accepted", "notice", "write"} :
            requests' = [requests EXCEPT ![r].seen = state, ![r].pc = pc]
      BY <2>2 DEF ReadState
    <3> DEFINE m == [q EXCEPT !.seen = state, !.pc = pc]
    <3>2. requests' = [requests EXCEPT ![r] = m] /\ q \in Request /\ FoundOK(q)
      BY <1>1, <2>2, <3>1 DEF ReadState
    <3>3. /\ m.match = q.match /\ m.notice = q.notice /\ m.teaser = q.teaser
          /\ m.cluster = q.cluster /\ m.spent = q.spent /\ m.promote = q.promote /\ m.pc = pc
      BY <3>2 DEF Request
    <3> HIDE DEF m
    <3>4. m.match \in Tweet \cup {None} /\ FoundOK(m)
      BY <1>1, <2>2, <3>2, <3>3 DEF FoundOK, ReadState
    <3> QED
      BY <3>2, <3>4
  <2>3. CASE LookupNotice(r)
    <3>1. PICK n \in {u \in Tweet : signals[u] = "official_notice"} \cup {None},
               z \in {u \in Tweet : signals[u] = "teaser"} \cup {None} :
            requests' = [requests EXCEPT
                ![r].notice = n, ![r].spent = n # None /\ Used(n),
                ![r].teaser = z,
                ![r].pc = IF requests[r].snap.near THEN "write" ELSE "match"]
      BY <2>3 DEF LookupNotice
    <3>2. n = None /\ z = None
      BY <3>1, NothingElse
    <3> DEFINE pc == IF q.snap.near THEN "write" ELSE "match"
               m == [q EXCEPT !.notice = None, !.spent = FALSE, !.teaser = None, !.pc = pc]
    <3>3. requests' = [requests EXCEPT ![r] = m] /\ q \in Request /\ FoundOK(q)
      BY <1>1, <2>3, <3>1, <3>2 DEF LookupNotice
    <3>4. pc # "claim"
      OBVIOUS
    <3> HIDE DEF pc
    <3>5. /\ m.match = q.match /\ m.notice = None /\ m.teaser = None
          /\ m.cluster = q.cluster /\ m.spent = FALSE /\ m.promote = q.promote /\ m.pc = pc
      BY <3>3 DEF Request
    <3> HIDE DEF m
    <3>6. m.match \in Tweet \cup {None} /\ FoundOK(m)
      BY <1>1, <2>3, <3>3, <3>4, <3>5 DEF FoundOK, LookupNotice
    <3> QED
      BY <3>3, <3>6
  <2>4. CASE LookupMatch(r)
    <3>1. PICK u \in IF Formal = {} THEN {None} ELSE Formal :
            requests' = [requests EXCEPT
                ![r].match = u,
                ![r].promote = u # None /\ signals[u] = "deferred",
                ![r].cluster = IF u = None THEN {} ELSE Announcements,
                ![r].pc = "write"]
      BY <2>4 DEF LookupMatch
    <3>2. u # None => u \in Tweet /\ signals[u] # "absent"
      BY <3>1 DEF Formal
    <3> DEFINE pr == u # None /\ signals[u] = "deferred"
               m == [q EXCEPT !.match = u, !.promote = pr, !.cluster = {}, !.pc = "write"]
    <3>3. requests' = [requests EXCEPT ![r] = m] /\ q \in Request /\ FoundOK(q)
      BY <1>1, <2>4, <3>1, NothingElse DEF LookupMatch
    <3>4. pr => u # None
      OBVIOUS
    <3> HIDE DEF pr
    <3>5. /\ m.match = u /\ m.notice = q.notice /\ m.teaser = q.teaser
          /\ m.cluster = {} /\ m.spent = q.spent /\ m.promote = pr /\ m.pc = "write"
      BY <3>3 DEF Request
    <3> HIDE DEF m
    <3>6. m.match \in Tweet \cup {None} /\ FoundOK(m)
      BY <3>2, <3>3, <3>4, <3>5 DEF FoundOK
    <3> QED
      BY <3>3, <3>6
  <2>5. CASE LookupFails(r)
    <3>1. q # None
      BY <2>5 DEF LookupFails
    <3>2. CASE Goto(r, "failed")
      BY <2>1, <3>1, <3>2 DEF Goto
    <3>3. CASE ~Goto(r, "failed")
      <4> DEFINE m == [q EXCEPT !.blind = TRUE, !.pc = "write"]
      <4>1. requests' = [requests EXCEPT ![r] = m] /\ q \in Request /\ FoundOK(q)
        BY <1>1, <2>5, <3>1, <3>3 DEF LookupFails
      <4>2. /\ m.match = q.match /\ m.notice = q.notice /\ m.teaser = q.teaser
            /\ m.cluster = q.cluster /\ m.spent = q.spent /\ m.promote = q.promote
            /\ m.pc = "write"
        BY <4>1 DEF Request
      <4> HIDE DEF m
      <4>3. m.match \in Tweet \cup {None} /\ FoundOK(m)
        BY <1>1, <3>1, <4>1, <4>2 DEF FoundOK
      <4> QED
        BY <4>1, <4>3
    <3> QED
      BY <3>2, <3>3
  <2>6. CASE WriteStale(r)
    <3> DEFINE m == [NewRequest(q.snap) EXCEPT !.retry = 1, !.since = q.since]
    <3>1. q # None /\ (requests' = [requests EXCEPT ![r] = m]
                       \/ requests' = [requests EXCEPT ![r].pc = "accepted"])
      BY <1>1, <2>6 DEF WriteStale
    <3>2. m.match = None /\ FoundOK(m)
      BY NewFound
    <3> HIDE DEF m
    <3> QED
      BY <2>1, <3>1, <3>2
  <2>7. CASE WriteFails(r) \/ ClaimFails(r)
    BY <2>1, <2>7 DEF WriteFails, ClaimFails, Goto
  <2>8. CASE Answer(r) \/ Crash(r)
    BY <2>8 DEF Answer, Crash
  <2> QED
    BY <1>4, <2>2, <2>3, <2>4, <2>5, <2>6, <2>7, <2>8 DEF Serve, Fails
<1> QED
  BY <1>2, <1>3, <1>4 DEF UsageNext

\* The claim after a write: a promoted post takes the event it made, which no
\* follower names.
LEMMA ClaimJoins ==
    ASSUME JoinInv, NEW r \in Slot, Claim(r), LedgerStays, UNCHANGED webhook, WebhookInv'
    PROVE  JoinInv'
<1> DEFINE q == requests[r]
           t == q.match
           e == PlannedEstimate(q)
<1>1. /\ q # None /\ q.pc = "claim" /\ ledger' = ClaimOutcome(e.primary, e.key)
      /\ requests' = [requests EXCEPT ![r].pc = "accepted"]
      /\ UNCHANGED <<state, observations, estimates, signals>>
  BY DEF Claim, Goto
<1>2. UNCHANGED <<calls, post>>
  BY DEF webhook
<1>3. /\ q \in Request /\ FoundOK(q) /\ t \in Tweet \cup {None}
      /\ requests \in [Slot -> Request \cup {None}]
      /\ ledger \in [Tweet -> Key \cup {None}]
  BY <1>1, RequestFields DEF JoinInv, WebhookInv, UsageInv, TypeOK
<1>4. /\ t \in Tweet /\ t # None /\ signals[t] # "absent"
      /\ q.notice = None /\ q.cluster = {}
      /\ \E f \in estimates : f.key = Self(t)
  BY <1>1, <1>3 DEF FoundOK
<1>5. e.key = Self(t) /\ e.primary = t
  BY <1>4 DEF PlannedEstimate, PlannedKey, Representative, Self
<1>6. post[t].sends >= 1 /\ ~Follows(t)
  BY <1>4 DEF JoinInv, PostsOK, FollowersOK
<1>7. \/ ledger' = ledger
      \/ ledger' = [ledger EXCEPT ![t] = Self(t)] /\ \A u \in Tweet : ledger[u] # Self(t)
  BY <1>1, <1>5 DEF ClaimOutcome
<1>8. Self(t) \in Key
  BY <1>4, SelfKey
<1>9. Keeps /\ PostsOK' /\ RecoveryOK' /\ EventsOK' /\ FollowersOK'
  <2>1. CASE ledger' = ledger
    BY <1>1, <1>2, <2>1, SteadyTables
  <2>2. CASE /\ ledger' = [ledger EXCEPT ![t] = Self(t)]
             /\ \A u \in Tweet : ledger[u] # Self(t)
    BY <1>1, <1>2, <1>4, <1>6, <1>8, <2>2, ClaimsTables
  <2> QED
    BY <1>7, <2>1, <2>2
<1>10. \A d \in Call : calls'[d] # None => DeliveryOK(calls[d])'
  BY <1>2, <1>9, CallsStay
<1>11. \A p \in Slot : requests'[p] # None => FoundOK(requests[p])'
  <2> DEFINE m == [q EXCEPT !.pc = "accepted"]
  <2>1. requests' = [requests EXCEPT ![r] = m]
    BY <1>1, <1>3
  <2>2. m.match \in Tweet \cup {None} /\ FoundOK(m)
    BY <1>3, PcFound
  <2> HIDE DEF m
  <2> QED
    BY <1>9, <2>1, <2>2, OneRequest
<1> QED
  BY <1>9, <1>10, <1>11 DEF JoinInv

\* A plan that is written: the recovery, the first and the only one, or none.
LEMMA AppliedPosts ==
    ASSUME JoinInv, NEW r \in Slot, Apply(r), UNCHANGED webhook
    PROVE  /\ PostsOK'
           /\ \A t \in Tweet : signals[t] # "absent" => signals'[t] # "absent"
<1> DEFINE q == requests[r]
<1>1. /\ q # None /\ ledger' = ledger /\ UNCHANGED post
      /\ signals' = IF q.promote /\ signals[q.match] = "deferred"
                    THEN [signals EXCEPT ![q.match] = "reset_executed"] ELSE signals
  BY DEF Apply, webhook
<1>2. /\ FoundOK(q) /\ q.match \in Tweet \cup {None} /\ signals \in [Tweet -> SignalType]
  BY <1>1, RequestTyped, RequestFields DEF JoinInv, WebhookInv, UsageInv, TypeOK
<1>3. CASE signals' = signals
  BY <1>1, <1>3 DEF JoinInv, PostsOK, Follows
<1>4. CASE signals' # signals
  <2>1. /\ q.match \in Tweet /\ signals[q.match] # "absent"
        /\ signals' = [signals EXCEPT ![q.match] = "reset_executed"]
    BY <1>1, <1>2, <1>4 DEF FoundOK
  <2> HIDE DEF q
  <2> QED
    BY <1>1, <1>2, <2>1 DEF JoinInv, PostsOK, Follows
<1> QED
  BY <1>3, <1>4

LEMMA PlainApplyJoins ==
    ASSUME JoinInv, NEW r \in Slot, Apply(r), ~Recovery(requests[r].seen, requests[r].snap),
           UNCHANGED webhook, WebhookInv'
    PROVE  JoinInv'
<1> DEFINE q == requests[r]
<1>1. /\ q # None /\ q.pc = "write" /\ state = q.seen /\ state' = q.snap /\ ledger' = ledger
      /\ UNCHANGED <<observations, estimates, calls, post>>
      /\ requests' = [requests EXCEPT ![r].pc = "accepted"]
  BY DEF Apply, MakesEvent, Overtaken, Goto, webhook
<1>2. /\ q \in Request /\ FoundOK(q) /\ q.match \in Tweet \cup {None} /\ RequestOK(q)
      /\ q.snap \in Snapshot /\ q.snap \in Known /\ UsageInv
      /\ requests \in [Slot -> Request \cup {None}]
  BY <1>1, RequestTyped, RequestFields DEF JoinInv, WebhookInv, UsageInv, TypeOK
<1>3. PostsOK' /\ \A t \in Tweet : signals[t] # "absent" => signals'[t] # "absent"
  BY AppliedPosts
<1>4. RecoveriesKept /\ EventsKept /\ LedgerStays
  BY <1>1 DEF RecoveriesKept, EventsKept, LedgerStays
<1>5. Keeps
  BY <1>1, <1>3, <1>4 DEF Keeps
<1>6. observations # {} => state' # None /\ state'.cycle >= 1
  <2> SUFFICES ASSUME observations # {} PROVE q.snap # None /\ q.snap.cycle >= 1
    BY <1>1
  <2>1. state # None /\ state.cycle >= 1
    BY DEF JoinInv, RecoveryOK
  <2>2. state \in Snapshot /\ state \in Known
    BY <1>2, <2>1 DEF UsageInv, TypeOK, Known
  <2>3. state.at < q.snap.at
    BY <1>1, <1>2, <2>1 DEF RequestOK, Working
  <2>4. Precedes(state, q.snap)
    BY <1>2, <2>2 DEF UsageInv, CoreOK, ReadingsOK
  <2>5. state.cycle <= q.snap.cycle
    BY <2>3, <2>4 DEF Precedes
  <2>6. q.snap # None /\ q.snap.cycle \in Nat /\ state.cycle \in Nat
    BY <1>2, <2>2, NoneIsNoValue, SnapshotFields
  <2> QED
    BY <2>1, <2>5, <2>6
<1>7. RecoveryOK'
  BY <1>1, <1>6 DEF JoinInv, RecoveryOK
<1>8. EventsOK' /\ FollowersOK'
  BY <1>1 DEF JoinInv, EventsOK, PublicRecovery, FollowersOK, Follows, Joined
<1>9. \A d \in Call : calls'[d] # None => DeliveryOK(calls[d])'
  BY <1>1, <1>5, CallsStay
<1>10. \A p \in Slot : requests'[p] # None => FoundOK(requests[p])'
  <2> DEFINE m == [q EXCEPT !.pc = "accepted"]
  <2>1. requests' = [requests EXCEPT ![r] = m]
    BY <1>1, <1>2
  <2>2. m.match \in Tweet \cup {None} /\ FoundOK(m)
    BY <1>2, PcFound
  <2> HIDE DEF m
  <2> QED
    BY <1>5, <2>1, <2>2, OneRequest
<1> QED
  BY <1>3, <1>7, <1>8, <1>9, <1>10 DEF JoinInv

\* No reading that circulates is of a later recovery than the last one.
LEMMA CycleBounded ==
    ASSUME UsageInv, OneRecovery, NEW r \in Slot, requests[r] # None
    PROVE  requests[r].snap.cycle <= 1
<1> DEFINE s == requests[r].snap
<1>1. s \in Known /\ Known \subseteq Snapshot /\ ReadingsOK
  BY KnownTyped DEF Known, UsageInv, CoreOK
<1>2. last # None /\ s.at <= last.at
  BY <1>1 DEF ReadingsOK
<1>3. last \in Known /\ Precedes(s, last)
  BY <1>1, <1>2 DEF Known, ReadingsOK
<1>4. s.at \in Nat /\ last.at \in Nat /\ s.cycle \in Nat /\ last.cycle \in Nat
  BY <1>1, <1>3, SnapshotFields
<1> QED
  BY <1>2, <1>3, <1>4 DEF Precedes, OneRecovery

LEMMA RecoveryApplyJoins ==
    ASSUME JoinInv, OneRecovery, NEW r \in Slot, Apply(r),
           Recovery(requests[r].seen, requests[r].snap), UNCHANGED webhook, WebhookInv'
    PROVE  JoinInv'
<1> DEFINE q == requests[r]
           s == q.snap
           p == PlannedObservation(q)
           e == PlannedEstimate(q)
<1>1. /\ q # None /\ q.pc = "write" /\ state = q.seen /\ state' = s /\ ledger' = ledger
      /\ observations' = observations \cup {p}
      /\ estimates' = IF MakesEvent(q) THEN MergeEstimate(e) ELSE estimates
      /\ requests' = [requests EXCEPT ![r].pc =
                        IF MakesEvent(q) /\ q.promote THEN "claim" ELSE "accepted"]
      /\ UNCHANGED <<calls, post>>
  BY DEF Apply, Overtaken, Goto, webhook
<1>2. /\ q \in Request /\ FoundOK(q) /\ q.match \in Tweet \cup {None}
      /\ s \in Snapshot /\ q.seen \in Snapshot \cup {None} /\ UsageInv
      /\ requests \in [Slot -> Request \cup {None}]
  BY <1>1, RequestTyped, RequestFields DEF JoinInv, WebhookInv, UsageInv, TypeOK
<1>3. /\ state # None /\ state \in Snapshot /\ s # None
      /\ state.cycle < s.cycle /\ s.cycle <= 1 /\ state.cycle \in Nat /\ s.cycle \in Nat
  <2>1. q.seen # None /\ s.cycle > q.seen.cycle
    BY DEF Recovery
  <2>2. s.cycle <= 1
    BY <1>1, <1>2, CycleBounded
  <2> QED
    BY <1>1, <1>2, <2>1, <2>2, SnapshotFields, NoneIsNoValue
<1>4. state.cycle = 0 /\ s.cycle = 1
  BY <1>3
<1>5. observations = {}
  BY <1>4 DEF JoinInv, RecoveryOK
<1>6. estimates = {}
  BY <1>5 DEF JoinInv, EventsOK
<1>7. \A t \in Tweet : post[t].followed = {}
  BY <1>5 DEF JoinInv, FollowersOK
<1>8. observations' = {p}
  BY <1>1, <1>5
<1>9. q.notice = None /\ q.teaser = None /\ q.cluster = {} /\ ~q.spent
      /\ (q.match # None => signals[q.match] # "absent") /\ (q.promote => q.match # None)
  BY <1>2 DEF FoundOK
<1>10. /\ p.at = s.at /\ p.tibo = q.match
       /\ p.hint = IF s.near THEN "near" ELSE "unexpected"
       /\ p.status = (IF Personal(q.seen, s) THEN "rejected"
                      ELSE IF q.match # None THEN "confirmed" ELSE "observed")
       /\ p.blind = q.blind
  BY DEF PlannedObservation
<1>11. Public(p) <=> MakesEvent(q)
  BY <1>10 DEF Public, MakesEvent
<1>12. /\ e.obs = s.at
       /\ q.match # None => e.key = Self(q.match) /\ e.tweets # {} /\ ~e.monitor
       /\ q.match = None => e.tweets = {} /\ e.monitor
  <2>1. CASE q.match # None
    BY <1>9, <2>1 DEF PlannedEstimate, PlannedKey, Self
  <2>2. CASE q.match = None
    BY <1>9, <2>2 DEF PlannedEstimate, PlannedKey
  <2> QED
    BY <2>1, <2>2
<1>13. estimates' = IF MakesEvent(q) THEN {e} ELSE {}
  BY <1>1, <1>6 DEF MergeEstimate
<1>14. PublicRecovery' <=> MakesEvent(q)
  BY <1>8, <1>11 DEF PublicRecovery
<1>15. PostsOK' /\ \A t \in Tweet : signals[t] # "absent" => signals'[t] # "absent"
  BY AppliedPosts
<1> HIDE DEF p, e, s
<1>16. RecoveryOK'
  BY <1>1, <1>2, <1>3, <1>4, <1>8, <1>10 DEF RecoveryOK
<1>17. EventsOK'
  BY <1>8, <1>10, <1>12, <1>13, <1>14 DEF EventsOK
<1>18. FollowersOK'
  BY <1>1, <1>7 DEF FollowersOK, Follows
<1>19. ASSUME NEW d \in Call, calls'[d] # None PROVE DeliveryOK(calls[d])'
  <2>1. PICK c : c = calls[d]
    OBVIOUS
  <2>2. calls'[d] = c /\ c # None
    BY <1>1, <1>19, <2>1
  <2>3. c.tweet \in Tweet /\ DeliveryOK(c) /\ CallOK(c)
    BY <2>1, <2>2, CallTyped DEF JoinInv
  <2>4. ~Follows(c.tweet)' /\ c.pc # "write"
    BY <1>1, <1>5, <1>7, <2>3 DEF Follows, CallOK
  <2>5. DeliveryOK(c)'
    BY <2>3, <2>4 DEF DeliveryOK
  <2> QED
    BY <2>2, <2>5 DEF DeliveryOK, FollowerOK
<1>20. ASSUME NEW x \in Slot, requests'[x] # None PROVE FoundOK(requests[x])'
  <2>1. CASE x # r
    <3>1. PICK m : m = requests[x]
      OBVIOUS
    <3>2. requests'[x] = m /\ m # None
      BY <1>1, <1>2, <1>20, <2>1, <3>1
    <3>3. m.match \in Tweet \cup {None} /\ FoundOK(m)
      BY <1>2, <3>1, <3>2, RequestTyped, RequestFields DEF JoinInv
    <3>4. m.pc # "claim"
      BY <1>5, <3>3 DEF FoundOK, PublicRecovery
    <3>5. FoundOK(m)'
      BY <1>15, <3>3, <3>4 DEF FoundOK
    <3> QED
      BY <3>2, <3>5 DEF FoundOK
  <2>2. CASE x = r
    <3> DEFINE pc == IF MakesEvent(q) /\ q.promote THEN "claim" ELSE "accepted"
    <3>1. PICK m : m = [q EXCEPT !.pc = pc]
      OBVIOUS
    <3>2. requests'[x] = m
      BY <1>1, <1>2, <2>2, <3>1
    <3>3. pc = "claim" => MakesEvent(q) /\ q.promote
      OBVIOUS
    <3> HIDE DEF pc
    <3>4. /\ m.match = q.match /\ m.notice = q.notice /\ m.teaser = q.teaser
          /\ m.cluster = q.cluster /\ m.spent = q.spent /\ m.promote = q.promote /\ m.pc = pc
      BY <1>2, <3>1 DEF Request
    <3>5. m.pc = "claim" => /\ PublicRecovery' /\ m.match # None
                            /\ \E f \in estimates' : f.key = Self(m.match)
      BY <1>9, <1>12, <1>13, <1>14, <3>3, <3>4
    <3>6. m.match # None => signals'[m.match] # "absent"
      BY <1>2, <1>9, <1>15, <3>4
    <3>7. FoundOK(m)'
      BY <1>9, <3>4, <3>5, <3>6 DEF FoundOK
    <3> QED
      BY <3>2, <3>7 DEF FoundOK
  <2> QED
    BY <2>1, <2>2
<1> QED
  BY <1>15, <1>16, <1>17, <1>18, <1>19, <1>20 DEF JoinInv

LEMMA UsageJoins ==
    ASSUME JoinInv, OneRecovery, UsageNext, UNCHANGED webhook
    PROVE  JoinInv'
<1>1. WebhookInv' /\ LedgerStays
  BY WebhookStep, UsageTables DEF JoinInv, WebhookInv, WebhookNext
<1>2. CASE \E r \in Slot : Claim(r)
  BY <1>1, <1>2, ClaimJoins
<1>3. CASE \E r \in Slot : Apply(r)
  BY <1>1, <1>3, PlainApplyJoins, RecoveryApplyJoins
<1>4. CASE ~\E r \in Slot : Claim(r) \/ Apply(r)
  <2>1. UNCHANGED tables
    BY <1>4 DEF UsageNext, Enqueue, Heartbeat, Send, GiveUp, Serve, Fails, ReadState,
       LookupNotice, LookupMatch, WriteStale, Answer, LookupFails, WriteFails,
       ClaimFails, Crash
  <2>2. UNCHANGED <<state, signals, ledger, observations, estimates, post, calls>>
    BY <2>1 DEF tables, webhook
  <2>3. Keeps /\ PostsOK' /\ RecoveryOK' /\ EventsOK' /\ FollowersOK'
    BY <2>2, SteadyTables
  <2>4. \A d \in Call : calls'[d] # None => DeliveryOK(calls[d])'
    BY <2>2, <2>3, CallsStay
  <2>5. \A p \in Slot : requests'[p] # None => FoundOK(requests[p])'
    <3>1. CASE requests' = requests
      BY <2>3, <3>1, FoundStays
    <3>2. CASE requests' # requests
      BY <1>4, <2>1, <2>3, <3>2, RequestsFind, OneRequest
    <3> QED
      BY <3>1, <3>2
  <2> QED
    BY <1>1, <2>3, <2>4, <2>5 DEF JoinInv
<1> QED
  BY <1>2, <1>3, <1>4

LEMMA JoinStep ==
    ASSUME JoinInv, NamesInv, Undisturbed, Undisturbed', [WebhookNext]_allvars
    PROVE  JoinInv'
<1>1. CASE UsageNext /\ UNCHANGED webhook
  BY <1>1, UsageJoins DEF Undisturbed
<1>2. CASE TiboNext
  BY <1>2, TiboJoins DEF Undisturbed
<1>3. CASE UNCHANGED allvars
  <2>1. UNCHANGED <<state, signals, ledger, observations, estimates, requests, post, calls>>
    BY <1>3 DEF allvars, webhook, vars, tables
  <2>2. Keeps /\ PostsOK' /\ RecoveryOK' /\ EventsOK' /\ FollowersOK'
    BY <2>1, SteadyTables
  <2>3. WebhookInv'
    BY <1>3, WebhookStep DEF JoinInv
  <2> QED
    BY <2>1, <2>2, <2>3, CallsStay, FoundStays DEF JoinInv
<1> QED
  BY <1>1, <1>2, <1>3 DEF WebhookNext

LEMMA JoinStart == WebhookInit => JoinInv
<1> SUFFICES ASSUME WebhookInit PROVE JoinInv
  OBVIOUS
<1>1. WebhookInv
  BY WebhookStart
<1>2. /\ observations = {} /\ estimates = {} /\ \A t \in Tweet : post[t].followed = {}
      /\ \A t \in Tweet : ledger[t] = None /\ signals[t] = "absent"
      /\ \A r \in Slot : requests[r] = None
      /\ \A d \in Call : calls[d] = None
  BY DEF WebhookInit, Init
<1> QED
  BY <1>1, <1>2 DEF JoinInv, PostsOK, RecoveryOK, EventsOK, FollowersOK, Follows,
     PublicRecovery

\* The posts that the tables name were sent, and no delivery has found announcements.
TracesOK ==
    /\ \A e \in estimates : \A t \in e.tweets : Sent(t)
    /\ \A o \in observations : o.tibo # None => Sent(o.tibo)
    /\ \A d \in Call : calls[d] # None => calls[d].cluster = {}

LEMMA TracesStart == WebhookInit => TracesOK
BY DEF WebhookInit, Init, TracesOK

LEMMA SentStays ==
    ASSUME WebhookInv, [WebhookNext]_allvars, NEW t \in Tweet, Sent(t)
    PROVE  Sent(t)'
<1>1. post \in [Tweet -> Post] /\ post[t].sends \in Nat
  BY PostFields DEF WebhookInv, WebhookTypeOK, Post, UsageInv
<1>2. CASE post' = post
  BY <1>2 DEF Sent
<1>3. ASSUME NEW d \in Call, NEW u \in Tweet, Deliver(d, u) PROVE Sent(t)'
  <2>1. PICK c, F : post' = [post EXCEPT ![u].sends = @ + 1, ![u].created = c,
                                         ![u].followed = F]
    BY <1>3 DEF Deliver
  <2>2. CASE u = t
    BY <1>1, <2>1, <2>2 DEF Sent, Post
  <2>3. CASE u # t
    BY <1>1, <2>1, <2>3 DEF Sent, Post
  <2> QED
    BY <2>2, <2>3
<1>4. ASSUME NEW d \in Call, Answered(d) PROVE Sent(t)'
  <2>1. PICK u, a : \/ post' = post
                    \/ post' = [post EXCEPT ![u].settled = TRUE, ![u].announced = a]
    BY <1>4 DEF Answered
  <2> QED
    BY <1>1, <1>2, <2>1 DEF Sent, Post
<1> QED
  BY <1>2, <1>3, <1>4 DEF WebhookNext, TiboNext, webhook, allvars, ReadExisting,
     Preflight, Persist, Lookup, ReadLedger, ReadEstimates, Claims, ReadNearest, Confirm,
     ReadEstimate, WriteEstimate, StepFails, CallLost

\* What a request plans names the post it found, which is stored.
LEMMA PlannedSent ==
    ASSUME JoinInv, NEW r \in Slot, requests[r] # None
    PROVE  /\ \A t \in PlannedEstimate(requests[r]).tweets : Sent(t)
           /\ requests[r].match # None => Sent(requests[r].match)
<1> DEFINE q == requests[r]
<1>1. q.match \in Tweet \cup {None} /\ FoundOK(q)
  BY RequestTyped, RequestFields DEF JoinInv, WebhookInv, UsageInv
<1>2. q.match # None => Sent(q.match)
  BY <1>1 DEF FoundOK, JoinInv, PostsOK, Sent
<1>3. q.notice = None /\ q.teaser = None /\ q.cluster = {}
  BY <1>1 DEF FoundOK
<1>4. CASE q.match # None
  <2>1. PlannedKey(q) = <<"tibo-reset", q.match>>
    BY <1>4 DEF PlannedKey
  <2>2. PlannedKey(q)[1] = "tibo-reset" /\ PlannedKey(q)[2] = q.match
    BY <2>1
  <2>3. PlannedEstimate(q).tweets = {q.match}
    BY <1>3, <1>4, <2>2 DEF PlannedEstimate
  <2> QED
    BY <1>2, <1>4, <2>3
<1>5. CASE q.match = None
  <2>1. PlannedEstimate(q).tweets = {}
    BY <1>3, <1>5 DEF PlannedEstimate, PlannedKey
  <2> QED
    BY <1>2, <2>1
<1> QED
  BY <1>4, <1>5

LEMMA UsageTraces ==
    ASSUME JoinInv, TracesOK, UsageNext, UNCHANGED webhook
    PROVE  TracesOK'
<1>1. UNCHANGED <<calls, post>>
  BY DEF webhook
<1>2. CASE UNCHANGED <<estimates, observations>>
  BY <1>1, <1>2 DEF TracesOK, Sent
<1>3. ASSUME NEW r \in Slot, Apply(r) PROVE TracesOK'
  <2> DEFINE q == requests[r]
             e == PlannedEstimate(q)
             p == PlannedObservation(q)
  <2>1. /\ q # None
        /\ estimates' = estimates \/ estimates' = MergeEstimate(e)
        /\ observations' = observations \/ observations' = observations \cup {p}
    BY <1>3 DEF Apply
  <2>2. /\ \A t \in e.tweets : Sent(t)
        /\ p.tibo # None => Sent(p.tibo)
    BY <2>1, PlannedSent DEF PlannedObservation
  <2> HIDE DEF e, p
  <2>3. ASSUME NEW x \in estimates', NEW t \in x.tweets PROVE Sent(t)
    <3>1. CASE x \in estimates \/ x = e
      BY <2>2, <2>3, <3>1 DEF TracesOK
    <3>2. CASE ~(x \in estimates \/ x = e)
      <4>1. PICK o \in estimates : x.tweets = o.tweets \cup e.tweets
        BY <2>1, <2>3, <3>2, MergeShape
      <4> QED
        BY <2>2, <2>3, <4>1 DEF TracesOK
    <3> QED
      BY <3>1, <3>2
  <2>4. ASSUME NEW o \in observations', o.tibo # None PROVE Sent(o.tibo)
    BY <2>1, <2>2, <2>4 DEF TracesOK
  <2> QED
    BY <1>1, <2>3, <2>4 DEF TracesOK, Sent
<1> QED
  BY <1>2, <1>3 DEF UsageNext, Enqueue, Heartbeat, Send, GiveUp, Serve, Fails, ReadState,
     LookupNotice, LookupMatch, WriteStale, Claim, Answer, LookupFails, WriteFails,
     ClaimFails, Crash, tables

LEMMA ClusterStays ==
    ASSUME NEW c \in Delivery, NEW u, NEW v, NEW w, NEW x
    PROVE  /\ [c EXCEPT !.seen = u, !.pc = v].cluster = c.cluster
           /\ [c EXCEPT !.verdict = u, !.looked = v, !.obs = w, !.pc = x].cluster = c.cluster
           /\ [c EXCEPT !.pc = u].cluster = c.cluster
           /\ [c EXCEPT !.looked = u, !.obs = v, !.pc = w].cluster = c.cluster
           /\ [c EXCEPT !.led = u].cluster = c.cluster
           /\ [c EXCEPT !.est = u].cluster = c.cluster
           /\ [c EXCEPT !.pc = u, !.row = v, !.key = w, !.claimed = x].cluster = c.cluster
           /\ [c EXCEPT !.row = u, !.pc = v, !.claimed = w].cluster = c.cluster
           /\ [c EXCEPT !.obs = u, !.pc = v].cluster = c.cluster
           /\ [c EXCEPT !.blind = u, !.pc = v].cluster = c.cluster
           /\ [c EXCEPT !.target = u, !.cluster = v, !.pc = w].cluster = v
BY DEF Delivery

LEMMA NoCluster ==
    ASSUME JoinInv, TracesOK, TiboNext
    PROVE  \A d \in Call : calls'[d] # None => calls'[d].cluster = {}
<1>1. /\ calls \in [Call -> Delivery \cup {None}] /\ TypeOK
      /\ \A d \in Call : calls[d] # None =>
            calls[d] \in Delivery /\ calls[d].tweet \in Tweet /\ calls[d].cluster = {}
  BY CallTyped DEF JoinInv, WebhookInv, WebhookTypeOK, UsageInv, TracesOK
<1>2. \A t \in Tweet : NewDelivery(t) \in Delivery /\ NewDelivery(t).cluster = {}
  BY <1>1, NewDeliveryTyped DEF NewDelivery
<1>3. PICK d \in Call :
        \/ \E t \in Tweet : Deliver(d, t)
        \/ ReadExisting(d) \/ Preflight(d) \/ Persist(d) \/ Lookup(d)
        \/ ReadLedger(d) \/ ReadEstimates(d) \/ Claims(d) \/ ReadNearest(d)
        \/ Confirm(d) \/ ReadEstimate(d) \/ WriteEstimate(d)
        \/ StepFails(d) \/ Answered(d) \/ CallLost(d)
  BY DEF TiboNext
<1> DEFINE c == calls[d]
           Goal == \E n : calls' = [calls EXCEPT ![d] = n] /\ (n = None \/ n.cluster = {})
<1>4. SUFFICES Goal
  BY <1>1
<1>5. CASE (\E t \in Tweet : Deliver(d, t)) \/ Answered(d) \/ CallLost(d)
  BY <1>2, <1>5 DEF Deliver, Answered, CallLost
<1>6. ASSUME c # None PROVE c \in Delivery /\ c.cluster = {}
  BY <1>1, <1>6
<1>7. ASSUME NEW n, Step(d, n), n.cluster = {} PROVE Goal
  BY <1>7 DEF Step
<1> HIDE DEF Goal
<1>8. ASSUME c # None, NEW pc, Finish(d, pc) PROVE Goal
  <2> DEFINE b == NewDelivery(c.tweet)
             n == [b EXCEPT !.row = FALSE, !.pc = pc, !.claimed = c.claimed]
  <2>1. b \in Delivery /\ b.cluster = {}
    BY <1>1, <1>2, <1>8
  <2>2. Step(d, n)
    BY <1>8 DEF Finish
  <2> HIDE DEF b
  <2>3. n.cluster = {}
    BY <2>1, ClusterStays
  <2> HIDE DEF n
  <2> QED
    BY <1>7, <2>2, <2>3
<1>9. CASE ReadExisting(d)
  <2>1. c # None /\ ((\E pc : Finish(d, pc)) \/ \E u, v : Step(d, [c EXCEPT !.seen = u, !.pc = v]))
    BY <1>9 DEF ReadExisting, At
  <2>2. ASSUME NEW u, NEW v, Step(d, [c EXCEPT !.seen = u, !.pc = v]) PROVE Goal
    <3> DEFINE n == [c EXCEPT !.seen = u, !.pc = v]
    <3>1. n.cluster = {}
      BY <1>6, <2>1 DEF Delivery
    <3>2. Step(d, n)
      BY <2>2
    <3> HIDE DEF n
    <3> QED
      BY <1>7, <3>1, <3>2
  <2> QED
    BY <1>8, <2>1, <2>2
<1>10. CASE Preflight(d)
  <2>1. c # None /\ \E u, v, w, x : Step(d, [c EXCEPT !.verdict = u, !.looked = v, !.obs = w, !.pc = x])
    BY <1>10 DEF Preflight, At
  <2>2. ASSUME NEW u, NEW v, NEW w, NEW x, Step(d, [c EXCEPT !.verdict = u, !.looked = v, !.obs = w, !.pc = x]) PROVE Goal
    <3> DEFINE n == [c EXCEPT !.verdict = u, !.looked = v, !.obs = w, !.pc = x]
    <3>1. n.cluster = {}
      BY <1>6, <2>1, ClusterStays
    <3>2. Step(d, n)
      BY <2>2
    <3> HIDE DEF n
    <3> QED
      BY <1>7, <3>1, <3>2
  <2> QED
    BY <2>1, <2>2
<1>11. CASE Persist(d)
  <2>1. c # None /\ ((\E pc : Finish(d, pc)) \/ \E u : Step(d, [c EXCEPT !.pc = u]))
    BY <1>11 DEF Persist, At
  <2>2. ASSUME NEW u, Step(d, [c EXCEPT !.pc = u]) PROVE Goal
    <3> DEFINE n == [c EXCEPT !.pc = u]
    <3>1. n.cluster = {}
      BY <1>6, <2>1, ClusterStays
    <3>2. Step(d, n)
      BY <2>2
    <3> HIDE DEF n
    <3> QED
      BY <1>7, <3>1, <3>2
  <2> QED
    BY <1>8, <2>1, <2>2
<1>12. CASE Lookup(d)
  <2>1. c # None /\ \E u, v, w : Step(d, [c EXCEPT !.looked = u, !.obs = v, !.pc = w])
    BY <1>12 DEF Lookup, At
  <2>2. ASSUME NEW u, NEW v, NEW w, Step(d, [c EXCEPT !.looked = u, !.obs = v, !.pc = w]) PROVE Goal
    <3> DEFINE n == [c EXCEPT !.looked = u, !.obs = v, !.pc = w]
    <3>1. n.cluster = {}
      BY <1>6, <2>1, ClusterStays
    <3>2. Step(d, n)
      BY <2>2
    <3> HIDE DEF n
    <3> QED
      BY <1>7, <3>1, <3>2
  <2> QED
    BY <2>1, <2>2
<1>13. CASE ReadLedger(d)
  <2>1. c # None /\ \E u : Step(d, [c EXCEPT !.led = u])
    BY <1>13 DEF ReadLedger, At
  <2>2. ASSUME NEW u, Step(d, [c EXCEPT !.led = u]) PROVE Goal
    <3> DEFINE n == [c EXCEPT !.led = u]
    <3>1. n.cluster = {}
      BY <1>6, <2>1, ClusterStays
    <3>2. Step(d, n)
      BY <2>2
    <3> HIDE DEF n
    <3> QED
      BY <1>7, <3>1, <3>2
  <2> QED
    BY <2>1, <2>2
<1>14. CASE ReadEstimates(d)
  <2>1. c # None /\ \E u : Step(d, [c EXCEPT !.est = u])
    BY <1>14 DEF ReadEstimates, At
  <2>2. ASSUME NEW u, Step(d, [c EXCEPT !.est = u]) PROVE Goal
    <3> DEFINE n == [c EXCEPT !.est = u]
    <3>1. n.cluster = {}
      BY <1>6, <2>1, ClusterStays
    <3>2. Step(d, n)
      BY <2>2
    <3> HIDE DEF n
    <3> QED
      BY <1>7, <3>1, <3>2
  <2> QED
    BY <2>1, <2>2
<1>15. CASE ReadNearest(d)
  <2>1. c # None /\ ((\E pc : Finish(d, pc)) \/ \E u, v : Step(d, [c EXCEPT !.obs = u, !.pc = v]))
    BY <1>15 DEF ReadNearest, At
  <2>2. ASSUME NEW u, NEW v, Step(d, [c EXCEPT !.obs = u, !.pc = v]) PROVE Goal
    <3> DEFINE n == [c EXCEPT !.obs = u, !.pc = v]
    <3>1. n.cluster = {}
      BY <1>6, <2>1 DEF Delivery
    <3>2. Step(d, n)
      BY <2>2
    <3> HIDE DEF n
    <3> QED
      BY <1>7, <3>1, <3>2
  <2> QED
    BY <1>8, <2>1, <2>2
<1>16. CASE Confirm(d)
  <2>1. c # None /\ ((\E pc : Finish(d, pc)) \/ \E u : Step(d, [c EXCEPT !.pc = u]))
    BY <1>16 DEF Confirm, At
  <2>2. ASSUME NEW u, Step(d, [c EXCEPT !.pc = u]) PROVE Goal
    <3> DEFINE n == [c EXCEPT !.pc = u]
    <3>1. n.cluster = {}
      BY <1>6, <2>1, ClusterStays
    <3>2. Step(d, n)
      BY <2>2
    <3> HIDE DEF n
    <3> QED
      BY <1>7, <3>1, <3>2
  <2> QED
    BY <1>8, <2>1, <2>2
<1>17. CASE Claims(d)
  <2> DEFINE b == NewDelivery(c.tweet)
  <2>1. /\ c # None
        /\ \/ \E pc : Finish(d, pc)
           \/ \E k, new : Step(d, [b EXCEPT !.pc = "nearest", !.row = FALSE,
                                            !.key = k, !.claimed = new])
    BY <1>17 DEF Claims, At
  <2>2. b \in Delivery /\ b.cluster = {}
    BY <1>1, <1>2, <2>1
  <2> HIDE DEF b
  <2>3. ASSUME NEW k, NEW new,
               Step(d, [b EXCEPT !.pc = "nearest", !.row = FALSE, !.key = k, !.claimed = new])
        PROVE  Goal
    <3> DEFINE n == [b EXCEPT !.pc = "nearest", !.row = FALSE, !.key = k, !.claimed = new]
    <3>1. n.cluster = {}
      BY <2>2, ClusterStays
    <3>2. Step(d, n)
      BY <2>3
    <3> HIDE DEF n
    <3> QED
      BY <1>7, <3>1, <3>2
  <2> QED
    BY <1>8, <2>1, <2>3
<1>18. CASE ReadEstimate(d)
  <2>1. Announcements = {}
    BY NothingElse
  <2>2. PICK u : c # None /\ Step(d, [c EXCEPT !.target = u, !.cluster = {}, !.pc = "write"])
    BY <1>18, <2>1 DEF ReadEstimate, At
  <2> DEFINE n == [c EXCEPT !.target = u, !.cluster = {}, !.pc = "write"]
  <2>3. n.cluster = {}
    BY <1>6, <2>2, ClusterStays
  <2>4. Step(d, n)
    BY <2>2
  <2> HIDE DEF n
  <2> QED
    BY <1>7, <2>3, <2>4
<1>19. CASE WriteEstimate(d)
  <2>1. c # None /\ \E pc : Finish(d, pc)
    BY <1>19 DEF WriteEstimate, At
  <2> QED
    BY <1>8, <2>1
<1>20. CASE StepFails(d)
  <2>1. c # None /\ \/ \E pc : Finish(d, pc)
                    \/ \E u : Step(d, [c EXCEPT !.pc = u])
                    \/ \E u, v : Step(d, [c EXCEPT !.blind = u, !.pc = v])
    BY <1>20 DEF StepFails, At
  <2>2. ASSUME NEW u, Step(d, [c EXCEPT !.pc = u]) PROVE Goal
    <3> DEFINE n == [c EXCEPT !.pc = u]
    <3>1. n.cluster = {}
      BY <1>6, <2>1, ClusterStays
    <3>2. Step(d, n)
      BY <2>2
    <3> HIDE DEF n
    <3> QED
      BY <1>7, <3>1, <3>2
  <2>3. ASSUME NEW u, NEW v, Step(d, [c EXCEPT !.blind = u, !.pc = v]) PROVE Goal
    <3> DEFINE n == [c EXCEPT !.blind = u, !.pc = v]
    <3>1. n.cluster = {}
      BY <1>6, <2>1 DEF Delivery
    <3>2. Step(d, n)
      BY <2>3
    <3> HIDE DEF n
    <3> QED
      BY <1>7, <3>1, <3>2
  <2> QED
    BY <1>8, <2>1, <2>2, <2>3
<1> QED
  BY <1>3, <1>5, <1>9, <1>10, <1>11, <1>12, <1>13, <1>14, <1>15, <1>16, <1>17, <1>18, <1>19,
     <1>20

LEMMA TracesStep ==
    ASSUME JoinInv, TracesOK, [WebhookNext]_allvars
    PROVE  TracesOK'
<1>1. WebhookInv
  BY DEF JoinInv
<1>2. CASE UsageNext /\ UNCHANGED webhook
  BY <1>2, UsageTraces
<1>3. CASE UNCHANGED allvars
  BY <1>3 DEF allvars, vars, tables, webhook, TracesOK, Sent
<1>4. CASE TiboNext
  <2>1. PICK d \in Call :
          \/ UNCHANGED <<estimates, observations>>
          \/ Confirm(d) \/ WriteEstimate(d)
    BY <1>4 DEF TiboNext, Deliver, ReadExisting, Preflight, Persist, Lookup, ReadLedger,
       ReadEstimates, Claims, ReadNearest, ReadEstimate, StepFails, Answered, CallLost,
       vars, tables
  <2>2. /\ \A t \in Tweet : Sent(t) => Sent(t)'
        /\ \A e \in estimates : e.tweets \subseteq Tweet
        /\ \A o \in observations : o \in Observation /\ o.tibo \in Tweet \cup {None}
    BY <1>1, <1>4, SentStays, EstimateFields
       DEF WebhookNext, WebhookInv, UsageInv, TypeOK, Observation
  <2>3. calls[d] # None => /\ calls[d].tweet \in Tweet /\ Sent(calls[d].tweet)
                           /\ calls[d].cluster = {}
    BY <1>1, CallTyped DEF CallOK, Sent, TracesOK
  <2>4. ASSUME NEW e \in estimates', NEW t \in e.tweets PROVE Sent(t)'
    <3>1. CASE e \in estimates
      BY <2>2, <2>4, <3>1 DEF TracesOK
    <3>2. CASE e \notin estimates
      <4>1. WriteEstimate(d) /\ e = Merged(calls[d]) /\ calls[d] # None
        BY <2>1, <2>4, <3>2 DEF WriteEstimate, Confirm, At
      <4>2. e.tweets = {calls[d].tweet}
        BY <2>3, <4>1 DEF Merged
      <4> QED
        BY <2>2, <2>3, <2>4, <4>1, <4>2
    <3> QED
      BY <3>1, <3>2
  <2>5. ASSUME NEW o \in observations', o.tibo # None PROVE Sent(o.tibo)'
    <3>1. CASE o \in observations
      BY <2>2, <2>5, <3>1 DEF TracesOK
    <3>2. CASE o \notin observations
      <4>1. Confirm(d) /\ calls[d] # None
        BY <2>1, <2>5, <3>2 DEF WriteEstimate, Confirm, At
      <4>2. PICK p \in observations : o = [p EXCEPT !.status = "confirmed", !.tibo = calls[d].tweet]
        BY <1>1, <2>5, <3>2, <4>1, ConfirmEffect
      <4>3. o.tibo = calls[d].tweet
        BY <2>2, <4>2 DEF Observation
      <4> QED
        BY <2>2, <2>3, <4>1, <4>3
    <3> QED
      BY <3>1, <3>2
  <2>6. \A f \in Call : calls'[f] # None => calls'[f].cluster = {}
    BY <1>4, NoCluster
  <2> QED
    BY <2>4, <2>5, <2>6 DEF TracesOK
<1> QED
  BY <1>2, <1>3, <1>4 DEF WebhookNext

\* What disturbed the system stays: a post that was sent, a recovery.
LEMMA UndisturbedBefore ==
    ASSUME WebhookInv, [WebhookNext]_allvars, Undisturbed'
    PROVE  Undisturbed
<1>1. TypeOK
  BY DEF WebhookInv, UsageInv
<1>2. \A t \in Tweet : Sent(t) => Sent(t)'
  BY SentStays
<1>3. OnlyCompletions
  BY <1>2 DEF Undisturbed, OnlyCompletions
<1>4. OneRecovery
  <2>1. CASE last' = last
    BY <2>1 DEF Undisturbed, OneRecovery
  <2>2. CASE last # None /\ \E s \in Readings : last' = s
    <3>1. PICK s \in Readings : last' = s
      BY <2>2
    <3>2. s \in Snapshot /\ s # None /\ last \in Snapshot
      BY <1>1, <2>2, ReadingsTyped, NoneIsNoValue DEF TypeOK
    <3>3. s.cycle = last.cycle + (IF s.reason = "recovery_candidate" THEN 1 ELSE 0)
      BY <2>2 DEF Readings
    <3>4. s.cycle \in Nat /\ last.cycle \in Nat
      BY <3>2, SnapshotFields
    <3> QED
      BY <3>1, <3>2, <3>3, <3>4 DEF Undisturbed, OneRecovery
  <2>3. CASE last = None
    BY <2>3 DEF OneRecovery
  <2>4. last' = last \/ \E s \in Readings : last' = s
    BY DEF WebhookNext, UsageNext, TiboNext, Enqueue, Heartbeat, Send, GiveUp, Serve,
       Fails, ReadState, LookupNotice, LookupMatch, Apply, WriteStale, Claim, Answer,
       LookupFails, WriteFails, ClaimFails, Crash, monitor, Deliver, ReadExisting,
       Preflight, Persist, Lookup, ReadLedger, ReadEstimates, Claims, ReadNearest, Confirm,
       ReadEstimate, WriteEstimate, StepFails, Answered, CallLost, allvars, vars
  <2> QED
    BY <2>1, <2>2, <2>3, <2>4
<1> QED
  BY <1>3, <1>4 DEF Undisturbed

JoinedInv == NamesInv /\ (Undisturbed => JoinInv /\ TracesOK)

\* As long as only completions are sent and the quota recovered once: one that
\* follows the recovery never makes an event of its own, and when it is settled,
\* the recovery's event has a completion, or another post holds it or the recovery.
THEOREM FollowersJoin == WebhookSpec => [](Undisturbed => FollowerJoins)
<1>1. WebhookInit => JoinedInv
  BY NamesStart, JoinStart, TracesStart DEF JoinedInv
<1>2. JoinedInv /\ [WebhookNext]_allvars => JoinedInv'
  <2> SUFFICES ASSUME JoinedInv, [WebhookNext]_allvars PROVE JoinedInv'
    OBVIOUS
  <2>1. NamesInv /\ NamesInv' /\ WebhookInv
    BY NamesStep DEF JoinedInv, NamesInv
  <2>2. ASSUME Undisturbed' PROVE JoinInv' /\ TracesOK'
    <3>1. Undisturbed /\ JoinInv /\ TracesOK
      BY <2>1, <2>2, UndisturbedBefore DEF JoinedInv
    <3> QED
      BY <2>1, <2>2, <3>1, JoinStep, TracesStep
  <2> QED
    BY <2>1, <2>2 DEF JoinedInv
<1>3. JoinedInv => (Undisturbed => FollowerJoins)
  <2> SUFFICES ASSUME JoinInv, TracesOK, Undisturbed PROVE FollowerJoins
    BY DEF JoinedInv
  <2>1. ASSUME NEW o \in observations, NEW t \in Completion,
               Public(o), o.at \in post[t].followed
        PROVE  /\ ledger[t] # Self(t)
               /\ post[t].settled =>
                    \E e \in estimates :
                      /\ e.obs = o.at
                      /\ \/ e.tweets \cap Completion # {}
                         \/ \E u \in Completion \ {t} : ledger[u] = e.key \/ o.tibo = u
    <3>1. t \in Tweet /\ Follows(t)
      BY <2>1, WebhookAssumption DEF Follows
    <3>2. PICK p \in observations, e \in estimates :
            /\ observations = {p} /\ estimates = {e} /\ e.obs = p.at
            /\ e.key # Self(t) /\ ledger[t] \in {None, e.key}
      BY <3>1, FollowerFinds
    <3>3. p = o /\ ledger[t] # Self(t)
      BY <2>1, <3>1, <3>2, SelfKey
    <3>4. e \in Estimate /\ e.tweets \subseteq Tweet /\ e.key # None
      BY <3>2, EstimateFields DEF JoinInv, WebhookInv, UsageInv, TypeOK
    <3>5. \A u \in Tweet : Sent(u) => u \in Completion
      BY DEF Undisturbed, OnlyCompletions
    <3>6. e.tweets \subseteq Completion
      BY <3>2, <3>4, <3>5 DEF TracesOK
    <3>7. \A u \in Tweet : ledger[u] = e.key \/ o.tibo = u => u \in Completion
      <4>1. \A u \in Tweet : ledger[u] # None => Sent(u)
        BY DEF JoinInv, PostsOK, Sent
      <4>2. \A u \in Tweet : o.tibo = u => Sent(u)
        BY <2>1, NoneIsNoValue DEF TracesOK
      <4> QED
        BY <3>4, <3>5, <4>1, <4>2
    <3>8. post[t].settled => Joined(t)
      BY <3>1 DEF JoinInv, FollowersOK
    <3>9. Joined(t) => \/ e.tweets # {}
                       \/ \E u \in Tweet \ {t} : ledger[u] = e.key \/ o.tibo = u
      BY <3>2, <3>3 DEF Joined
    <3> QED
      BY <3>2, <3>3, <3>6, <3>7, <3>8, <3>9
  <2> QED
    BY <2>1 DEF FollowerJoins
<1> QED
  BY <1>1, <1>2, <1>3, PTL DEF WebhookSpec

----------------------------------------------------------------------------
(* As long as nothing fails, a completion that follows the recovery is     *)
(* merged into its event, or a delivery is under way that will see to it.  *)

\* A delivery that will merge its post, and one that will come to its claim:
\* of several that store one post the first goes on.
Carries(c) ==
    \/ c.pc \in {"merge", "write"}
    \/ c.pc \in {"nearest", "confirm"} /\ \E o \in observations : o.status = "observed"

Leads(c) ==
    \/ c.pc \in {"lookup", "evidence"}
    \/ /\ c.pc \in {"existing", "preflight", "persist"}
       /\ c.row \/ signals[c.tweet] = "absent"

Carried == \E d \in Call : calls[d] # None /\ Carries(calls[d])
Led(t) == \E d \in Call : calls[d] # None /\ calls[d].tweet = t /\ Leads(calls[d])

\* Nothing failed, and no post is merged into the event of the recovery; a post
\* holds the event, or the recovery.
Unmerged == faults = 0 /\ PublicRecovery /\ \A e \in estimates : e.tweets = {}
Held ==
    \/ \E o \in observations : o.status = "confirmed"
    \/ \E u \in Tweet, e \in estimates : ledger[u] = e.key

MergingOK ==
    Unmerged => /\ Held => Carried
                /\ \A t \in Tweet : Follows(t) => Carried \/ Led(t)

\* An event without posts is the monitor's own; before there is one, the posts
\* claim events of their own.
NamedOK ==
    /\ \A e \in estimates : /\ e.primary # None => e.tweets # {}
                            /\ e.tweets = {} => \A u \in Tweet : e.key # Self(u)
    /\ estimates = {} => \A u \in Tweet : ledger[u] \in {None, Self(u)}

\* What a delivery has read holds good.
ReadOK(c) ==
    /\ c.blind => faults # 0
    /\ c.pc = "write" /\ PublicRecovery => \A e \in estimates : c.target = e.key
    /\ c.led # None => \A u \in Tweet : c.led[u] # None => ledger[u] = c.led[u]
    /\ c.est # None =>
          \A f \in c.est : \E e \in estimates : f.primary # None => e.tweets # {}

MergeInv ==
    /\ JoinInv
    /\ MergingOK /\ NamedOK
    /\ \A d \in Call : calls[d] # None => ReadOK(calls[d])

\* What every step keeps of the events, and of the faults.
MergesKept ==
    /\ \A e \in estimates : \E f \in estimates' : e.tweets # {} => f.tweets # {}
    /\ faults' = 0 => faults = 0

LEMMA ReadKept ==
    ASSUME Keeps, MergesKept, NEW c, ReadOK(c)
    PROVE  ReadOK(c)'
<1>1. PublicRecovery' <=> PublicRecovery
  BY PublicKept
<1>2. c.pc = "write" /\ PublicRecovery => \A f \in estimates' : c.target = f.key
  BY DEF Keeps, EventsKept, ReadOK
<1>3. c.led # None => \A u \in Tweet : c.led[u] # None => ledger'[u] = c.led[u]
  BY DEF Keeps, LedgerStays, ReadOK
<1>4. c.est # None =>
        \A f \in c.est : \E e \in estimates' : f.primary # None => e.tweets # {}
  BY DEF MergesKept, ReadOK
<1>5. c.blind => faults' # 0
  BY DEF MergesKept, ReadOK
<1> QED
  BY <1>1, <1>2, <1>3, <1>4, <1>5 DEF ReadOK

LEMMA UnmergedKept == Keeps /\ MergesKept /\ Unmerged' => Unmerged
<1> SUFFICES ASSUME Keeps, MergesKept, Unmerged' PROVE Unmerged
  OBVIOUS
<1>1. PublicRecovery /\ faults = 0
  BY PublicKept DEF Unmerged, MergesKept
<1>2. \A e \in estimates : e.tweets = {}
  BY <1>1 DEF Unmerged, Keeps, EventsKept
<1> QED
  BY <1>1, <1>2 DEF Unmerged

\* What is left to show of a step.
LEMMA MergingKept ==
    ASSUME MergingOK, Unmerged' => Unmerged,
           \A t \in Tweet : post'[t].followed = post[t].followed,
           Unmerged /\ Unmerged' =>
              /\ Held' => Held \/ Carried'
              /\ Carried => Carried'
              /\ \A t \in Tweet : Follows(t) /\ Led(t) => Led(t)' \/ Carried'
    PROVE  MergingOK'
<1>1. \A t \in Tweet : Follows(t)' <=> Follows(t)
  BY DEF Follows
<1> QED
  BY <1>1 DEF MergingOK

LEMMA NoneCalled == \A c \in Delivery : c # None
BY NoDelivery

\* The other deliveries go on as they did.
LEMMA OthersRead ==
    ASSUME MergeInv, Keeps, MergesKept, NEW d \in Call, NEW n,
           calls' = [calls EXCEPT ![d] = n],
           n = None \/ ReadOK(n) \/ ReadOK(n)'
    PROVE  \A e \in Call : calls'[e] # None => ReadOK(calls[e])'
<1> SUFFICES ASSUME NEW e \in Call, calls'[e] # None PROVE ReadOK(calls[e])'
  OBVIOUS
<1>1. calls \in [Call -> Delivery \cup {None}]
  BY DEF MergeInv, JoinInv, WebhookInv, WebhookTypeOK
<1>2. CASE e = d
  <2>1. calls'[e] = n /\ n # None
    BY <1>1, <1>2
  <2>2. ReadOK(n)'
    BY <2>1, ReadKept
  <2> QED
    BY <2>1, <2>2 DEF ReadOK
<1>3. CASE e # d
  <2>1. PICK c : c = calls[e]
    OBVIOUS
  <2>2. calls'[e] = c /\ c # None
    BY <1>1, <1>3, <2>1
  <2>3. ReadOK(c)
    BY <2>1, <2>2 DEF MergeInv
  <2>4. ReadOK(c)'
    BY <2>3, ReadKept
  <2> QED
    BY <2>2, <2>4 DEF ReadOK
<1> QED
  BY <1>2, <1>3

\* A delivery that was carrying, or leading, goes on to do so.
LEMMA CarriedOn ==
    ASSUME WebhookInv, NEW d \in Call, NEW n \in Delivery,
           calls' = [calls EXCEPT ![d] = n], observations' = observations, Carried,
           calls[d] # None /\ Carries(calls[d]) => Carries(n)
    PROVE  Carried'
<1>1. calls \in [Call -> Delivery \cup {None}]
  BY DEF WebhookInv, WebhookTypeOK
<1>2. PICK e \in Call : calls[e] # None /\ Carries(calls[e])
  BY DEF Carried
<1>3. PICK c : c = (IF e = d THEN n ELSE calls[e])
  OBVIOUS
<1>4. calls'[e] = c /\ c # None /\ Carries(c)
  BY <1>1, <1>2, <1>3, NoneCalled
<1>5. Carries(calls[e])'
  BY <1>4 DEF Carries
<1> QED
  BY <1>4, <1>5 DEF Carried

LEMMA LedOn ==
    ASSUME WebhookInv, NEW d \in Call, NEW n \in Delivery,
           calls' = [calls EXCEPT ![d] = n], NEW t \in Tweet, Led(t),
           signals'[t] = "absent" <=> signals[t] = "absent",
           calls[d] # None /\ calls[d].tweet = t /\ Leads(calls[d]) =>
              n.tweet = t /\ Leads(n)
    PROVE  Led(t)'
<1>1. calls \in [Call -> Delivery \cup {None}]
  BY DEF WebhookInv, WebhookTypeOK
<1>2. PICK e \in Call : calls[e] # None /\ calls[e].tweet = t /\ Leads(calls[e])
  BY DEF Led
<1>3. PICK c : c = (IF e = d THEN n ELSE calls[e])
  OBVIOUS
<1>4. calls'[e] = c /\ c # None /\ c.tweet = t /\ Leads(c)
  BY <1>1, <1>2, <1>3, NoneCalled
<1>5. Leads(calls[e])'
  BY <1>4 DEF Leads
<1> QED
  BY <1>4, <1>5 DEF Led

LEMMA OverReads ==
    ASSUME TypeOK, NEW c \in Delivery, NEW pc \in {"done", "failed"}
    PROVE  /\ Over(c, pc) \in Delivery /\ Over(c, pc).tweet = c.tweet /\ Over(c, pc).pc = pc
           /\ ReadOK(Over(c, pc))
<1> DEFINE n == NewDelivery(c.tweet)
<1>1. n \in Delivery /\ c.claimed \in BOOLEAN /\ ~n.blind
  BY DeliveryFields, NewDeliveryTyped DEF NewDelivery
<1>2. Over(c, pc) = [n EXCEPT !.row = FALSE, !.pc = pc, !.claimed = c.claimed]
  BY DEF Over
<1> HIDE DEF n
<1>3. ~Over(c, pc).blind
  BY <1>1, <1>2 DEF Delivery
<1> QED
  BY <1>3, OverTyped, OverFields DEF ReadOK

\* The end of a delivery that was of no use to the event.
LEMMA FinishReads ==
    ASSUME MergeInv, NEW d \in Call, calls[d] # None, NEW pc \in {"done", "failed"},
           Finish(d, pc)
    PROVE  \E n \in Delivery :
              calls' = [calls EXCEPT ![d] = n] /\ n.tweet = calls[d].tweet /\ ReadOK(n)
<1>1. calls[d] \in Delivery /\ TypeOK
  BY CallTyped DEF MergeInv, JoinInv
<1>2. calls' = [calls EXCEPT ![d] = Over(calls[d], pc)]
  BY DEF Finish, Step, Over
<1> QED
  BY <1>1, <1>2, OverReads

\* What a step of a delivery must show that leaves the tables alone.
GoesOn(d) ==
    \E n \in Delivery :
        /\ calls' = [calls EXCEPT ![d] = n]
        /\ n.tweet = calls[d].tweet /\ ReadOK(n)
        /\ Unmerged /\ Carries(calls[d]) => Carries(n)
        /\ Unmerged /\ Leads(calls[d]) => Leads(n)

LEMMA EarlyGoOn ==
    ASSUME MergeInv, OnlyCompletions, NEW d \in Call,
           ReadExisting(d) \/ Preflight(d) \/ Lookup(d)
    PROVE  GoesOn(d)
<1> DEFINE c == calls[d]
<1>1. c # None /\ c.pc \in {"existing", "preflight", "lookup"}
  BY DEF ReadExisting, Preflight, Lookup, At
<1>2. c \in Delivery /\ TypeOK /\ c.tweet \in Tweet /\ ReadOK(c)
  BY <1>1, CallTyped DEF MergeInv, JoinInv
<1>3. ~Carries(c)
  BY <1>1 DEF Carries
<1>4. CASE ReadExisting(d)
  <2>1. CASE ~c.row /\ signals[c.tweet] # "absent"
    <3>1. Finish(d, "failed") /\ c.pc = "existing"
      BY <1>4, <2>1 DEF ReadExisting, At
    <3>2. ~Leads(c)
      BY <2>1, <3>1 DEF Leads
    <3> QED
      BY <1>1, <1>3, <3>1, <3>2, FinishReads DEF GoesOn
  <2>2. CASE ~(~c.row /\ signals[c.tweet] # "absent")
    <3> DEFINE n == [c EXCEPT !.seen = signals[c.tweet], !.pc = "preflight"]
    <3>1. calls' = [calls EXCEPT ![d] = n]
      BY <1>1, <1>4, <2>2, CallComplete DEF ReadExisting, Step, MergeInv
    <3>2. signals[c.tweet] \in SignalType
      BY <1>2 DEF TypeOK
    <3>3. /\ n \in Delivery /\ n.tweet = c.tweet /\ n.pc = "preflight" /\ n.row = c.row
          /\ n.blind = c.blind /\ n.led = c.led /\ n.est = c.est
      BY <1>2, <3>2 DEF Delivery
    <3> HIDE DEF n
    <3>4. ReadOK(n) /\ Leads(n)
      BY <1>2, <2>2, <3>3 DEF ReadOK, Leads
    <3> QED
      BY <1>3, <3>1, <3>3, <3>4 DEF GoesOn
  <2> QED
    BY <2>1, <2>2
<1>5. CASE Preflight(d)
  <2>1. PICK fresh \in BOOLEAN, o \in Found(post[c.tweet].created) :
          calls' = [calls EXCEPT ![d] = [c EXCEPT
                        !.verdict = IF fresh /\ o = None THEN "deferred" ELSE @,
                        !.looked = fresh, !.obs = IF fresh THEN o ELSE None,
                        !.pc = "persist"]]
    BY <1>5 DEF Preflight, Step
  <2> DEFINE v == IF fresh /\ o = None THEN "deferred" ELSE c.verdict
             x == IF fresh THEN o ELSE None
             n == [c EXCEPT !.verdict = v, !.looked = fresh, !.obs = x, !.pc = "persist"]
  <2>2. calls' = [calls EXCEPT ![d] = n]
    BY <2>1
  <2>3. v \in SignalType /\ x \in Time \cup {None}
    BY <1>2, FoundTyped, DeliveryFields DEF SignalType
  <2> HIDE DEF v, x
  <2>4. /\ n \in Delivery /\ n.tweet = c.tweet /\ n.pc = "persist" /\ n.row = c.row
        /\ n.blind = c.blind /\ n.led = c.led /\ n.est = c.est
    BY <1>2, <2>3 DEF Delivery
  <2> HIDE DEF n
  <2>5. c.pc = "preflight"
    BY <1>5 DEF Preflight, At
  <2>6. ReadOK(n) /\ (Leads(c) => Leads(n))
    BY <1>2, <2>4, <2>5 DEF ReadOK, Leads
  <2> QED
    BY <1>3, <2>2, <2>4, <2>6 DEF GoesOn
<1>6. CASE Lookup(d)
  <2>1. PICK o \in Found(post[c.tweet].created) :
          calls' = [calls EXCEPT ![d] =
                      [c EXCEPT !.looked = TRUE, !.obs = o, !.pc = "evidence"]]
    BY <1>6 DEF Lookup, Step
  <2> DEFINE n == [c EXCEPT !.looked = TRUE, !.obs = o, !.pc = "evidence"]
  <2>2. o \in Time \cup {None}
    BY <1>2, FoundTyped
  <2>3. /\ n \in Delivery /\ n.tweet = c.tweet /\ n.pc = "evidence"
        /\ n.blind = c.blind /\ n.led = c.led /\ n.est = c.est
    BY <1>2, <2>2 DEF Delivery
  <2>4. calls' = [calls EXCEPT ![d] = n]
    BY <2>1
  <2> HIDE DEF n
  <2>5. ReadOK(n) /\ Leads(n)
    BY <1>2, <2>3 DEF ReadOK, Leads
  <2> QED
    BY <1>3, <2>3, <2>4, <2>5 DEF GoesOn
<1> QED
  BY <1>4, <1>5, <1>6

LEMMA EvidenceGoesOn ==
    ASSUME MergeInv, NEW d \in Call, ReadLedger(d) \/ ReadEstimates(d)
    PROVE  GoesOn(d)
<1> DEFINE c == calls[d]
<1>1. c # None /\ c.pc = "evidence"
  BY DEF ReadLedger, ReadEstimates, At
<1>2. c \in Delivery /\ TypeOK /\ c.tweet \in Tweet /\ ReadOK(c)
  BY <1>1, CallTyped DEF MergeInv, JoinInv
<1>3. ~Carries(c)
  BY <1>1 DEF Carries
<1>4. CASE ReadLedger(d)
  <2> DEFINE n == [c EXCEPT !.led = ledger]
  <2>1. calls' = [calls EXCEPT ![d] = n]
    BY <1>4 DEF ReadLedger, Step
  <2>2. /\ n \in Delivery /\ n.tweet = c.tweet /\ n.pc = "evidence"
        /\ n.blind = c.blind /\ n.led = ledger /\ n.est = c.est
    BY <1>1, <1>2 DEF Delivery, TypeOK
  <2> HIDE DEF n
  <2>3. ReadOK(n) /\ Leads(n)
    BY <1>2, <2>2 DEF ReadOK, Leads
  <2> QED
    BY <1>3, <2>1, <2>2, <2>3 DEF GoesOn
<1>5. CASE ReadEstimates(d)
  <2> DEFINE n == [c EXCEPT !.est = estimates]
  <2>1. calls' = [calls EXCEPT ![d] = n]
    BY <1>5 DEF ReadEstimates, Step
  <2>2. /\ n \in Delivery /\ n.tweet = c.tweet /\ n.pc = "evidence"
        /\ n.blind = c.blind /\ n.led = c.led /\ n.est = estimates
    BY <1>1, <1>2 DEF Delivery, TypeOK
  <2> HIDE DEF n
  <2>3. \A f \in estimates : f.primary # None => f.tweets # {}
    BY DEF MergeInv, NamedOK
  <2>4. ReadOK(n) /\ Leads(n)
    BY <1>2, <2>2, <2>3 DEF ReadOK, Leads
  <2> QED
    BY <1>3, <2>1, <2>2, <2>4 DEF GoesOn
<1> QED
  BY <1>4, <1>5

\* A recovery that is still to be confirmed is the nearest one to any post.
LEMMA OpenIsNearest ==
    ASSUME MergeInv, Unmerged, \E o \in observations : o.status = "observed", NEW x
    PROVE  Nearest(Unexpected({"observed"}), x) # {}
<1>1. PICK o \in observations : Public(o) /\ observations = {o}
  BY DEF Unmerged, PublicRecovery, MergeInv, JoinInv, RecoveryOK
<1>2. o.status = "observed" /\ o.hint = "unexpected" /\ o.at \in Time
  BY <1>1 DEF Public, MergeInv, JoinInv, WebhookInv, UsageInv, TypeOK, Observation
<1>3. Unexpected({"observed"}) = {o}
  BY <1>1, <1>2 DEF Unexpected
<1>4. ~(o.at < o.at)
  BY <1>2, BoundsAssumption DEF Time
<1> QED
  BY <1>3, <1>4 DEF Nearest

LEMMA NearestGoesOn ==
    ASSUME MergeInv, NEW d \in Call, ReadNearest(d)
    PROVE  GoesOn(d)
<1> DEFINE c == calls[d]
           t == c.tweet
           open == Nearest(Unexpected({"observed"}), post[t].created)
           mine == Nearest({o \in Unexpected({"confirmed"}) : o.tibo = t}, post[t].created)
<1>1. c # None /\ c.pc = "nearest"
  BY DEF ReadNearest, At
<1>2. c \in Delivery /\ TypeOK /\ t \in Tweet /\ ReadOK(c)
  BY <1>1, CallTyped DEF MergeInv, JoinInv
<1>3. open \subseteq observations /\ mine \subseteq observations
  BY DEF Nearest, Unexpected
<1>4. ~Leads(c)
  BY <1>1 DEF Leads
<1>5. Unmerged /\ Carries(c) => open # {} /\ \E o \in observations : o.status = "observed"
  BY <1>1, OpenIsNearest DEF Carries
<1>6. CASE open = {} /\ mine = {}
  <2>1. Finish(d, "done")
    BY <1>6 DEF ReadNearest
  <2> QED
    BY <1>1, <1>4, <1>5, <1>6, <2>1, FinishReads DEF GoesOn
<1>7. CASE ~(open = {} /\ mine = {})
  <2>1. PICK o \in observations, pc \in {"confirm", "merge"} :
          calls' = [calls EXCEPT ![d] = [c EXCEPT !.obs = o.at, !.pc = pc]]
    BY <1>3, <1>7 DEF ReadNearest, Step
  <2> DEFINE n == [c EXCEPT !.obs = o.at, !.pc = pc]
  <2>2. o.at \in Time
    BY <1>2 DEF TypeOK, Observation
  <2>3. /\ n \in Delivery /\ n.tweet = t /\ n.pc = pc
        /\ n.blind = c.blind /\ n.led = c.led /\ n.est = c.est
    BY <1>2, <2>2 DEF Delivery
  <2>4. calls' = [calls EXCEPT ![d] = n]
    BY <2>1
  <2> HIDE DEF n
  <2>5. ReadOK(n)
    BY <1>2, <2>3 DEF ReadOK
  <2>6. Unmerged /\ Carries(c) => Carries(n)
    BY <1>5, <2>3 DEF Carries
  <2> QED
    BY <1>4, <2>3, <2>4, <2>5, <2>6 DEF GoesOn
<1> QED
  BY <1>6, <1>7

LEMMA EstimateGoesOn ==
    ASSUME MergeInv, NEW d \in Call, ReadEstimate(d)
    PROVE  GoesOn(d)
<1> DEFINE c == calls[d]
           byKey == {e \in estimates : e.key = c.key}
           byObs == {e \in estimates : e.obs = c.obs}
           byTweet == {e \in estimates : c.tweet \in e.tweets}
<1>1. c # None /\ c.pc = "merge"
  BY DEF ReadEstimate, At
<1>2. c \in Delivery /\ TypeOK /\ c.tweet \in Tweet /\ ReadOK(c) /\ CallOK(c)
  BY <1>1, CallTyped DEF MergeInv, JoinInv
<1>3. PICK e \in IF byKey # {} THEN byKey ELSE IF byObs # {} THEN byObs
                 ELSE IF byTweet # {} THEN byTweet ELSE {None} :
          calls' = [calls EXCEPT ![d] =
            [c EXCEPT !.target = IF e = None THEN None ELSE e.key,
                      !.cluster = Announcements, !.pc = "write"]]
  BY DEF ReadEstimate, Step
<1> DEFINE k == IF e = None THEN None ELSE e.key
           n == [c EXCEPT !.target = k, !.cluster = Announcements, !.pc = "write"]
<1>4. k \in Key \cup {None} /\ Announcements \subseteq Tweet
  BY <1>2, <1>3 DEF TypeOK, Estimate, Announcements
<1>5. \A f \in estimates : k = f.key
  <2> SUFFICES ASSUME NEW f \in estimates PROVE k = f.key
    OBVIOUS
  <2>1. PICK o \in observations : o.at = c.obs
    BY <1>1, <1>2 DEF CallOK
  <2>2. f.obs = c.obs /\ \A g \in estimates : g = f
    BY <2>1 DEF MergeInv, JoinInv, EventsOK, RecoveryOK
  <2>3. e = f
    BY <1>3, <2>2
  <2>4. f # None
    BY <1>2, NoneAssumption DEF TypeOK
  <2> QED
    BY <2>3, <2>4
<1>6. calls' = [calls EXCEPT ![d] = n]
  BY <1>3
<1> HIDE DEF k
<1>7. /\ n \in Delivery /\ n.tweet = c.tweet /\ n.pc = "write" /\ n.target = k
      /\ n.blind = c.blind /\ n.led = c.led /\ n.est = c.est
  BY <1>2, <1>4 DEF Delivery
<1> HIDE DEF n
<1>8. ReadOK(n) /\ Carries(n)
  BY <1>2, <1>5, <1>7 DEF ReadOK, Carries
<1>9. ~Leads(c)
  BY <1>1 DEF Leads
<1> QED
  BY <1>6, <1>7, <1>8, <1>9 DEF GoesOn

\* The steps that only read.
LEMMA ReadsMerge ==
    ASSUME MergeInv, NEW d \in Call, GoesOn(d),
           UNCHANGED <<state, signals, ledger, observations, estimates, post, faults>>
    PROVE  /\ MergingOK' /\ NamedOK'
           /\ \A e \in Call : calls'[e] # None => ReadOK(calls[e])'
<1>1. PICK n \in Delivery :
        /\ calls' = [calls EXCEPT ![d] = n]
        /\ n.tweet = calls[d].tweet /\ ReadOK(n)
        /\ Unmerged /\ Carries(calls[d]) => Carries(n)
        /\ Unmerged /\ Leads(calls[d]) => Leads(n)
  BY DEF GoesOn
<1>2. Keeps /\ MergesKept /\ WebhookInv
  BY SteadyTables DEF MergesKept, MergeInv, JoinInv
<1>3. NamedOK'
  BY DEF NamedOK, MergeInv
<1>4. Unmerged' => Unmerged
  BY <1>2, UnmergedKept
<1>5. Held' => Held
  BY DEF Held
<1>6. Unmerged /\ Carried => Carried'
  BY <1>1, <1>2, CarriedOn
<1>7. \A t \in Tweet : Unmerged /\ Led(t) => Led(t)'
  BY <1>1, <1>2, LedOn
<1>8. MergingOK'
  BY <1>4, <1>5, <1>6, <1>7, MergingKept DEF MergeInv
<1> QED
  BY <1>1, <1>2, <1>3, <1>8, OthersRead

LEMMA PersistMerges ==
    ASSUME MergeInv, OnlyCompletions, NEW d \in Call, Persist(d)
    PROVE  /\ MergingOK' /\ NamedOK'
           /\ \A e \in Call : calls'[e] # None => ReadOK(calls[e])'
<1> DEFINE c == calls[d]
<1>1. /\ c # None /\ c.pc = "persist"
      /\ UNCHANGED <<state, observations, estimates, ledger, faults, post>>
  BY DEF Persist, At
<1>2. /\ c \in Delivery /\ TypeOK /\ c.tweet \in Tweet /\ ReadOK(c) /\ DeliveryOK(c)
      /\ post[c.tweet].sends >= 1 /\ signals \in [Tweet -> SignalType]
  BY <1>1, CallTyped DEF MergeInv, JoinInv, CallOK, TypeOK
<1>3. c.verdict \in {"deferred", "reset_executed"}
  BY <1>2 DEF DeliveryOK
<1>4. Keeps /\ MergesKept /\ WebhookInv
  <2>1. Keeps
    BY <1>1, <1>2, PersistOK, PersistTables, SteadyTables DEF MergeInv
  <2> QED
    BY <1>1, <2>1 DEF MergesKept, MergeInv, JoinInv
<1>5. NamedOK' /\ (Held' => Held) /\ (Unmerged' => Unmerged)
  BY <1>1, <1>4, UnmergedKept DEF NamedOK, MergeInv, Held
<1>6. ~Carries(c)
  BY <1>1 DEF Carries
<1>7. CASE ~c.row /\ signals[c.tweet] # "absent"
  <2>1. Finish(d, "failed") /\ UNCHANGED signals
    BY <1>7 DEF Persist
  <2>2. ~Leads(c)
    BY <1>1, <1>7 DEF Leads
  <2>3. GoesOn(d)
    BY <1>1, <1>6, <2>1, <2>2, FinishReads DEF GoesOn
  <2> QED
    BY <1>1, <2>1, <2>3, ReadsMerge
<1>8. CASE ~(~c.row /\ signals[c.tweet] # "absent")
  <2>1. /\ signals' = [signals EXCEPT ![c.tweet] = c.verdict]
        /\ IF c.verdict # "reset_executed" THEN Finish(d, "done")
           ELSE IF c.blind THEN Finish(d, "failed")
           ELSE Step(d, [c EXCEPT !.pc = IF c.looked THEN "evidence" ELSE "lookup"])
    BY <1>8 DEF Persist
  <2> DEFINE pc == IF c.looked THEN "evidence" ELSE "lookup"
             goes == c.verdict = "reset_executed" /\ ~c.blind
  <2>2. PICK n \in Delivery :
          /\ calls' = [calls EXCEPT ![d] = n] /\ n.tweet = c.tweet /\ ReadOK(n)
          /\ goes => n.pc \in {"lookup", "evidence"}
    <3>1. CASE goes
      <4> DEFINE n == [c EXCEPT !.pc = pc]
      <4>1. calls' = [calls EXCEPT ![d] = n] /\ pc \in {"lookup", "evidence"}
        BY <2>1, <3>1 DEF Step
      <4> HIDE DEF pc
      <4>2. /\ n \in Delivery /\ n.tweet = c.tweet /\ n.pc = pc
            /\ n.blind = c.blind /\ n.led = c.led /\ n.est = c.est
        BY <1>2, <4>1 DEF Delivery
      <4> HIDE DEF n
      <4>3. ReadOK(n)
        BY <1>2, <4>1, <4>2 DEF ReadOK
      <4> QED
        BY <4>1, <4>2, <4>3
    <3>2. CASE ~goes
      <4>1. PICK x \in {"done", "failed"} : Finish(d, x)
        BY <2>1, <3>2
      <4> QED
        BY <1>1, <3>2, <4>1, FinishReads
    <3> QED
      BY <3>1, <3>2
  <2>3. Carried => Carried'
    BY <1>1, <1>4, <1>6, <2>2, CarriedOn
  <2>4. ASSUME NEW t \in Tweet, Unmerged, Follows(t), Led(t) PROVE Led(t)'
    <3>1. CASE t # c.tweet
      <4>1. signals'[t] = signals[t]
        BY <1>2, <2>1, <3>1
      <4> QED
        BY <1>4, <2>2, <2>4, <3>1, <4>1, LedOn
    <3>2. CASE t = c.tweet
      <4>1. goes
        BY <1>2, <2>4, <3>2 DEF DeliveryOK, FollowerOK, ReadOK, Unmerged
      <4>2. calls'[d] = n /\ n # None /\ n.tweet = t /\ Leads(n)
        BY <2>2, <3>2, <4>1, NoneCalled DEF Leads, MergeInv, JoinInv, WebhookInv, WebhookTypeOK
      <4>3. Leads(calls[d])'
        BY <2>2, <4>1, <4>2 DEF Leads
      <4> QED
        BY <4>2, <4>3 DEF Led
    <3> QED
      BY <3>1, <3>2
  <2>5. MergingOK'
    BY <1>1, <1>5, <2>3, <2>4, MergingKept DEF MergeInv
  <2> QED
    BY <1>4, <1>5, <2>2, <2>5, OthersRead
<1> QED
  BY <1>7, <1>8

\* A step after which it is known that something failed, or that a post is merged.
LEMMA NothingToMerge ==
    ASSUME MergeInv, Keeps, MergesKept, ~Unmerged', NamedOK',
           NEW d \in Call, NEW n, calls' = [calls EXCEPT ![d] = n],
           n = None \/ ReadOK(n) \/ ReadOK(n)'
    PROVE  /\ MergingOK'
           /\ \A e \in Call : calls'[e] # None => ReadOK(calls[e])'
BY OthersRead DEF MergingOK

LEMMA FailureMerges ==
    ASSUME MergeInv, NEW d \in Call, StepFails(d) \/ CallLost(d)
    PROVE  /\ MergingOK' /\ NamedOK'
           /\ \A e \in Call : calls'[e] # None => ReadOK(calls[e])'
<1> DEFINE c == calls[d]
<1>1. /\ c # None /\ faults' = faults + 1
      /\ UNCHANGED <<state, observations, estimates, signals, ledger, post>>
  BY DEF StepFails, CallLost, Fault, tables
<1>2. c \in Delivery /\ TypeOK /\ c.tweet \in Tweet /\ ReadOK(c)
  BY <1>1, CallTyped DEF MergeInv, JoinInv
<1>3. faults' # 0
  BY <1>1, <1>2, BoundsAssumption DEF TypeOK
<1>4. Keeps /\ MergesKept
  BY <1>1, <1>3, SteadyTables DEF MergesKept, MergeInv
<1>5. NamedOK' /\ ~Unmerged'
  BY <1>1, <1>3 DEF NamedOK, MergeInv, Unmerged
<1>6. CASE CallLost(d)
  <2>1. calls' = [calls EXCEPT ![d] = None]
    BY <1>6 DEF CallLost
  <2> QED
    BY <1>4, <1>5, <2>1, NothingToMerge
<1>7. CASE StepFails(d)
  <2>1. \/ Finish(d, "failed")
        \/ calls' = [calls EXCEPT ![d] = [c EXCEPT !.pc = "persist"]]
        \/ calls' = [calls EXCEPT ![d] = [c EXCEPT !.blind = TRUE, !.pc = "persist"]]
    BY <1>7 DEF StepFails, Step
  <2>2. CASE Finish(d, "failed")
    BY <1>1, <1>4, <1>5, <2>2, FinishReads, NothingToMerge
  <2>3. ASSUME NEW n \in {[c EXCEPT !.pc = "persist"], [c EXCEPT !.blind = TRUE, !.pc = "persist"]}
        PROVE  ReadOK(n)'
    <3>1. n.pc = "persist" /\ n.led = c.led /\ n.est = c.est
      BY <1>2 DEF Delivery
    <3>2. c.est # None =>
            \A f \in c.est : \E e \in estimates : f.primary # None => e.tweets # {}
      BY <1>2 DEF ReadOK
    <3>3. c.led # None => \A u \in Tweet : c.led[u] # None => ledger[u] = c.led[u]
      BY <1>2 DEF ReadOK
    <3> HIDE DEF c
    <3> QED
      BY <1>1, <1>3, <3>1, <3>2, <3>3 DEF ReadOK
  <2>4. CASE ~Finish(d, "failed")
    <3>1. PICK n : /\ n \in {[c EXCEPT !.pc = "persist"], [c EXCEPT !.blind = TRUE, !.pc = "persist"]}
                   /\ calls' = [calls EXCEPT ![d] = n]
      BY <2>1, <2>4
    <3>2. ReadOK(n)'
      BY <2>3, <3>1
    <3> QED
      BY <1>4, <1>5, <3>1, <3>2, NothingToMerge
  <2> QED
    BY <2>2, <2>4
<1> QED
  BY <1>6, <1>7

\* Before there is an event, a post comes to no event but its own.
LEMMA NoEventResolves ==
    ASSUME NEW c \in Delivery, c.led # None, c.est = {},
           c.led[c.tweet] \in {None, Self(c.tweet)}, NEW x
    PROVE  Resolved(c, x) \subseteq {Self(c.tweet)}
<1> DEFINE found == {e.key : e \in Matching(c)}
           keys == LedgerKeys(c) \cup found \cup DynamicKeys(c)
<1>1. found = {}
  BY DEF Matching
<1>2. keys \subseteq {Self(c.tweet)}
  BY <1>1 DEF LedgerKeys, DynamicKeys
<1>3. \A k \in Resolved(c, x) : k \in keys \/ k \in found \/ k = Self(c.tweet)
  BY DEF Resolved
<1> HIDE DEF keys, found
<1> QED
  BY <1>1, <1>2, <1>3

\* A follower whose claim is of no use finds another post to hold the event.
LEMMA UselessIsHeld ==
    ASSUME MergeInv, Unmerged, NEW d \in Call, calls[d] # None, calls[d].led # None,
           calls[d].est # None, calls[d].pc = "evidence", Follows(calls[d].tweet), NEW x,
           LET c == calls[d]
               k == CHOOSE k \in Resolved(c, x) : TRUE
           IN  \/ Resolved(c, x) = {} \/ RepresentativeOf(c, k) # c.tweet
               \/ \E u \in Tweet : u # c.tweet /\ ledger[u] = k
    PROVE  Held
<1> DEFINE c == calls[d]
           t == c.tweet
           ks == Resolved(c, x)
           k == CHOOSE k \in ks : TRUE
           owners == {u \in Tweet : c.led[u] = k}
           primaries == {f.primary : f \in {f \in c.est : f.key = k}} \ {None}
<1>1. c \in Delivery /\ TypeOK /\ t \in Tweet /\ ReadOK(c)
  BY CallTyped DEF MergeInv, JoinInv
<1>2. PICK e \in estimates : e.key \in Key /\ e.key # None
  BY <1>1, FollowerFinds DEF MergeInv
<1>3. ks \subseteq {e.key} /\ (ks = {} => e.tweets # {})
  BY FollowerResolves DEF MergeInv
<1>4. e.tweets = {} /\ \A f \in estimates : f.tweets = {}
  BY DEF Unmerged
<1>5. ks # {} /\ k = e.key
  BY <1>3, <1>4
<1>6. CASE \E u \in Tweet : u # t /\ ledger[u] = k
  BY <1>5, <1>6 DEF Held
<1>7. CASE RepresentativeOf(c, k) # t
  <2>1. primaries = {}
    BY <1>1, <1>4 DEF ReadOK
  <2>2. RepresentativeOf(c, k) =
          IF owners # {} THEN CHOOSE u \in owners : TRUE
          ELSE IF primaries # {} THEN CHOOSE u \in primaries : TRUE ELSE t
    BY DEF RepresentativeOf
  <2> HIDE DEF primaries
  <2>3. PICK u \in Tweet : c.led[u] = k
    BY <1>7, <2>1, <2>2
  <2>4. ledger[u] = e.key
    BY <1>1, <1>2, <1>5, <2>3 DEF ReadOK
  <2> QED
    BY <2>4 DEF Held
<1> QED
  BY <1>5, <1>6, <1>7

LEMMA ClaimsMerges ==
    ASSUME MergeInv, OnlyCompletions, NEW d \in Call, Claims(d)
    PROVE  /\ MergingOK' /\ NamedOK'
           /\ \A e \in Call : calls'[e] # None => ReadOK(calls[e])'
<1> DEFINE c == calls[d]
           t == c.tweet
           ks == Resolved(c, post[t].created)
           k == CHOOSE k \in ks : TRUE
           rows == {u \in Tweet : ledger[u] # None /\ (u = t \/ ledger[u] = k)}
           lost == ks = {} \/ RepresentativeOf(c, k) # t \/ ~(rows \subseteq {t})
           n == [NewDelivery(t) EXCEPT !.pc = "nearest", !.row = FALSE, !.key = k,
                                       !.claimed = ClaimedNew(c, rows)]
<1>1. /\ c # None /\ c.led # None /\ c.est # None /\ c.pc = "evidence"
      /\ IF lost
         THEN /\ Finish(d, IF ks # {} /\ RepresentativeOf(c, k) # t
                           THEN "failed" ELSE "done")
              /\ UNCHANGED ledger
         ELSE /\ ledger' = IF rows = {} THEN [ledger EXCEPT ![t] = k] ELSE ledger
              /\ Step(d, n)
      /\ UNCHANGED <<state, observations, estimates, signals, faults, post>>
  BY DEF Claims, At
<1>2. /\ c \in Delivery /\ TypeOK /\ t \in Tweet /\ ReadOK(c)
      /\ ledger \in [Tweet -> Key \cup {None}] /\ post[t].sends >= 1
  BY <1>1, CallTyped DEF MergeInv, JoinInv, CallOK, TypeOK
<1>3. ~Carries(c)
  BY <1>1 DEF Carries
<1>4. ClaimedNew(c, rows) \in BOOLEAN
  BY DEF ClaimedNew
<1>5. lost => \/ ks = {} \/ RepresentativeOf(c, k) # t
              \/ \E u \in Tweet : u # t /\ ledger[u] = k
  OBVIOUS
<1>6. LedgerStays /\ WebhookInv
  BY TiboTables DEF TiboNext, MergeInv, JoinInv
<1>7. Keeps /\ MergesKept
  <2>1. Keeps
    BY <1>1, <1>2, <1>6, ClaimsOK, ClaimsTables, SteadyTables DEF MergeInv
  <2> QED
    BY <1>1, <2>1 DEF MergesKept
<1>8. Unmerged' => Unmerged
  BY <1>7, UnmergedKept
<1>9. ks # {} => k \in ks
  OBVIOUS
<1> HIDE DEF rows
<1>10. ASSUME Unmerged, Held PROVE Carried
  BY <1>10 DEF MergeInv, MergingOK
<1>11. CASE lost
  <2>1. ledger' = ledger /\ \E pc \in {"done", "failed"} : Finish(d, pc)
    BY <1>1, <1>11
  <2>2. NamedOK' /\ (Held' => Held)
    BY <1>1, <2>1 DEF NamedOK, MergeInv, Held
  <2>3. PICK m \in Delivery :
          calls' = [calls EXCEPT ![d] = m] /\ m.tweet = t /\ ReadOK(m)
    BY <1>1, <2>1, FinishReads
  <2>4. Carried => Carried'
    BY <1>1, <1>3, <1>6, <2>3, CarriedOn
  <2>5. ASSUME NEW u \in Tweet, Unmerged, Follows(u), Led(u) PROVE Led(u)' \/ Carried'
    <3>1. CASE u # t
      BY <1>1, <1>6, <2>3, <2>5, <3>1, LedOn
    <3>2. CASE u = t
      <4>1. Held
        BY <1>1, <1>5, <1>11, <2>5, <3>2, UselessIsHeld
      <4> QED
        BY <1>10, <2>4, <2>5, <4>1
    <3> QED
      BY <3>1, <3>2
  <2>6. MergingOK'
    BY <1>1, <1>8, <2>2, <2>4, <2>5, MergingKept DEF MergeInv
  <2> QED
    BY <1>7, <2>2, <2>3, <2>6, OthersRead
<1>12. CASE ~lost
  <2>1. /\ ks # {} /\ k \in ks
        /\ ledger' = IF rows = {} THEN [ledger EXCEPT ![t] = k] ELSE ledger
        /\ calls' = [calls EXCEPT ![d] = n]
    BY <1>1, <1>9, <1>12 DEF Step
  <2>2. ks \subseteq Key
    BY <1>1, <1>2, ResolvedTyped
  <2>3. estimates = {} => k = Self(t)
    <3>1. estimates = {} => c.est = {}
      BY <1>1, <1>2 DEF ReadOK, Delivery
    <3>2. estimates = {} => c.led[t] \in {None, Self(t)}
      BY <1>1, <1>2 DEF ReadOK, MergeInv, NamedOK
    <3> QED
      BY <1>1, <1>2, <2>1, <3>1, <3>2, NoEventResolves
  <2> DEFINE new == ClaimedNew(c, rows)
             b == NewDelivery(t)
  <2>4. /\ b \in Delivery /\ b.tweet = t /\ b.led = None /\ b.est = None /\ ~b.blind
    BY <1>2, NewDeliveryTyped, NewFields DEF NewDelivery
  <2>5. k \in Key /\ new \in BOOLEAN
        /\ n = [b EXCEPT !.pc = "nearest", !.row = FALSE, !.key = k, !.claimed = new]
    BY <1>4, <2>1, <2>2
  <2> HIDE DEF new, b, n, k, lost
  <2>6. /\ n \in Delivery /\ n.tweet = t /\ n.pc = "nearest" /\ n.led = None /\ n.est = None
        /\ ~n.blind
    BY <2>4, <2>5 DEF Delivery
  <2>7. ReadOK(n)
    BY <2>6 DEF ReadOK
  <2>8. NamedOK'
    BY <1>1, <1>2, <2>1, <2>3 DEF NamedOK, MergeInv
  <2>9. ASSUME Unmerged PROVE Carried'
    <3>1. CASE \E o \in observations : o.status = "observed"
      <4>1. calls'[d] = n /\ n # None /\ Carries(n)
        BY <2>1, <2>6, <3>1, NoneCalled DEF Carries, MergeInv, JoinInv, WebhookInv, WebhookTypeOK
      <4>2. Carries(calls[d])'
        BY <1>1, <4>1 DEF Carries
      <4> QED
        BY <4>1, <4>2 DEF Carried
    <3>2. CASE ~\E o \in observations : o.status = "observed"
      <4>1. PICK o \in observations : Public(o)
        BY <2>9 DEF Unmerged, PublicRecovery
      <4>2. o.status = "confirmed"
        BY <1>2, <3>2, <4>1 DEF Public, TypeOK, Observation
      <4>3. Carried
        BY <1>10, <2>9, <4>1, <4>2 DEF Held
      <4> QED
        BY <1>1, <1>3, <1>6, <2>1, <2>6, <4>3, CarriedOn
    <3> QED
      BY <3>1, <3>2
  <2>10. MergingOK'
    BY <1>1, <1>8, <2>9, MergingKept DEF MergeInv
  <2> QED
    BY <1>7, <2>1, <2>7, <2>8, <2>10, OthersRead
<1> QED
  BY <1>11, <1>12

LEMMA ConfirmMerges ==
    ASSUME MergeInv, OnlyCompletions, NEW d \in Call, Confirm(d)
    PROVE  /\ MergingOK' /\ NamedOK'
           /\ \A e \in Call : calls'[e] # None => ReadOK(calls[e])'
<1> DEFINE c == calls[d]
           o == CHOOSE o \in observations : o.at = c.obs
<1>1. /\ c # None /\ c.pc = "confirm"
      /\ observations' = IF Confirmable(o)
                         THEN (observations \ {o}) \cup
                              {[o EXCEPT !.status = "confirmed", !.tibo = c.tweet]}
                         ELSE observations
      /\ IF Confirmable(o) \/ o.tibo = c.tweet
         THEN Step(d, [c EXCEPT !.pc = "merge"]) ELSE Finish(d, "failed")
      /\ UNCHANGED <<state, estimates, signals, ledger, faults, post>>
  BY DEF Confirm, At
<1>2. /\ c \in Delivery /\ TypeOK /\ c.tweet \in Tweet /\ ReadOK(c) /\ CallOK(c)
  BY <1>1, CallTyped DEF MergeInv, JoinInv
<1>3. Keeps /\ MergesKept /\ WebhookInv /\ NamedOK'
  BY <1>1, ConfirmTables DEF MergesKept, NamedOK, MergeInv, JoinInv
<1>4. Unmerged' => Unmerged
  BY <1>3, UnmergedKept
<1>5. o \in observations /\ \A p \in observations : p = o
  BY <1>1, <1>2 DEF CallOK, MergeInv, JoinInv, RecoveryOK
<1>6. ~Leads(c)
  BY <1>1 DEF Leads
<1> HIDE DEF o
<1> DEFINE n == [c EXCEPT !.pc = "merge"]
<1>7. /\ n \in Delivery /\ n.tweet = c.tweet /\ n.pc = "merge" /\ ReadOK(n) /\ Carries(n)
  <2>1. /\ n \in Delivery /\ n.tweet = c.tweet /\ n.pc = "merge"
        /\ n.blind = c.blind /\ n.led = c.led /\ n.est = c.est
    BY <1>2 DEF Delivery
  <2> HIDE DEF n
  <2> QED
    BY <1>2, <2>1 DEF ReadOK, Carries
<1> HIDE DEF n
<1>8. CASE Confirmable(o) \/ o.tibo = c.tweet
  <2>1. calls' = [calls EXCEPT ![d] = n]
    BY <1>1, <1>8 DEF Step, n
  <2>2. calls'[d] = n /\ n # None
    BY <1>7, <2>1, NoneCalled DEF MergeInv, JoinInv, WebhookInv, WebhookTypeOK
  <2>3. Carries(calls[d])'
    BY <1>7, <2>2 DEF Carries
  <2>4. Carried'
    BY <2>2, <2>3 DEF Carried
  <2>5. MergingOK'
    BY <1>1, <1>4, <2>4, MergingKept DEF MergeInv
  <2> QED
    BY <1>3, <1>7, <2>1, <2>5, OthersRead
<1>9. CASE ~(Confirmable(o) \/ o.tibo = c.tweet)
  <2>1. Finish(d, "failed") /\ observations' = observations
    BY <1>1, <1>9
  <2>2. ~Carries(c)
    BY <1>1, <1>5, <1>9 DEF Carries, Confirmable
  <2>3. GoesOn(d)
    BY <1>1, <1>6, <2>1, <2>2, FinishReads DEF GoesOn
  <2> QED
    BY <1>1, <2>1, <2>3, ReadsMerge
<1> QED
  BY <1>8, <1>9

LEMMA WriteMerges ==
    ASSUME MergeInv, OnlyCompletions, NEW d \in Call, WriteEstimate(d)
    PROVE  /\ MergingOK' /\ NamedOK'
           /\ \A e \in Call : calls'[e] # None => ReadOK(calls[e])'
<1> DEFINE c == calls[d]
           rest == estimates \ Overwritten(c)
           clash == \E e \in rest : e.key = Merged(c).key \/ e.obs = c.obs
<1>1. /\ c # None /\ c.pc = "write"
      /\ estimates' = IF clash THEN estimates ELSE rest \cup {Merged(c)}
      /\ Finish(d, IF clash THEN "failed" ELSE "done")
      /\ UNCHANGED <<state, observations, signals, ledger, faults, post>>
  BY DEF WriteEstimate, At
<1>2. /\ c \in Delivery /\ TypeOK /\ c.tweet \in Tweet /\ ReadOK(c) /\ DeliveryOK(c)
  BY <1>1, CallTyped DEF MergeInv, JoinInv
<1>3. ~Leads(c)
  BY <1>1 DEF Leads
<1>4. Keeps
  BY WriteTables DEF MergeInv
<1>5. ASSUME Unmerged PROVE ~clash
  <2>1. c.target # None /\ \A e \in estimates : c.target = e.key
    BY <1>1, <1>2, <1>5 DEF Unmerged, DeliveryOK, ReadOK
  <2>2. rest = {}
    BY <2>1 DEF Overwritten
  <2> QED
    BY <2>2
<1>6. \E m \in Delivery : calls' = [calls EXCEPT ![d] = m] /\ m.tweet = c.tweet /\ ReadOK(m)
  BY <1>1, FinishReads
<1>7. CASE clash
  <2>1. GoesOn(d)
    BY <1>3, <1>5, <1>6, <1>7 DEF GoesOn
  <2> QED
    BY <1>1, <1>7, <2>1, ReadsMerge
<1>8. CASE ~clash
  <2>1. Merged(c) \in estimates' /\ Merged(c).tweets # {}
    BY <1>1, <1>8 DEF Merged
  <2>2. ~Unmerged'
    BY <2>1 DEF Unmerged
  <2>3. \A f \in estimates' : f \in estimates \/ f = Merged(c)
    BY <1>1
  <2> HIDE DEF clash, rest, c
  <2>4. NamedOK'
    BY <1>1, <2>1, <2>3 DEF NamedOK, MergeInv
  <2>5. MergesKept
    BY <1>1, <2>1 DEF MergesKept
  <2> QED
    BY <1>4, <1>6, <2>2, <2>4, <2>5, NothingToMerge DEF c
<1> QED
  BY <1>7, <1>8

\* The first delivery of a post leads; an answer is that of one that did not.
LEMMA DeliverMerges ==
    ASSUME MergeInv, NEW d \in Call, NEW t \in Tweet, Deliver(d, t)
    PROVE  /\ MergingOK' /\ NamedOK'
           /\ \A e \in Call : calls'[e] # None => ReadOK(calls[e])'
<1> DEFINE n == NewDelivery(t)
<1>1. /\ calls[d] = None /\ calls' = [calls EXCEPT ![d] = n] /\ UNCHANGED vars
  BY DEF Deliver
<1>2. UNCHANGED <<state, signals, ledger, observations, estimates, faults>>
  BY <1>1 DEF vars, tables
<1>3. /\ TypeOK /\ WebhookInv /\ calls \in [Call -> Delivery \cup {None}]
      /\ post \in [Tweet -> Post] /\ post[t].sends \in Nat
  BY PostFields DEF MergeInv, JoinInv, WebhookInv, WebhookTypeOK, Post, UsageInv
<1>4. /\ n \in Delivery /\ n.tweet = t /\ n.pc = "existing" /\ ~n.blind
      /\ n.led = None /\ n.est = None
  BY <1>3, NewDeliveryTyped, NewFields DEF NewDelivery
<1>5. \A u \in Tweet : \/ post'[u].followed = post[u].followed
                       \/ u = t /\ post[t].sends = 0
  <2>1. PICK c \in IF post[t].sends = 0 THEN 0..LastRead ELSE {post[t].created} :
          post' = [post EXCEPT
              ![t].sends = @ + 1, ![t].created = c,
              ![t].followed = IF post[t].sends > 0 THEN @
                              ELSE {o.at : o \in {o \in observations :
                                                    Public(o) /\ o.at <= c}}]
    BY DEF Deliver
  <2>2. CASE post[t].sends > 0
    BY <1>3, <2>1, <2>2 DEF Post
  <2>3. CASE ~(post[t].sends > 0)
    BY <1>3, <2>1, <2>3 DEF Post
  <2> QED
    BY <2>2, <2>3
<1> HIDE DEF n
<1>6. NamedOK' /\ (Unmerged' => Unmerged) /\ (Held' => Held)
  BY <1>2 DEF NamedOK, MergeInv, Unmerged, PublicRecovery, Held
<1>7. Carried => Carried'
  BY <1>1, <1>2, <1>3, <1>4, CarriedOn
<1>8. \A u \in Tweet : Led(u) => Led(u)'
  BY <1>1, <1>2, <1>3, <1>4, LedOn
<1>9. post[t].sends = 0 => Led(t)'
  <2> SUFFICES ASSUME post[t].sends = 0 PROVE Led(t)'
    OBVIOUS
  <2>1. signals[t] = "absent"
    BY <1>3 DEF MergeInv, JoinInv, PostsOK
  <2>2. calls'[d] = n /\ n # None /\ Leads(n)
    BY <1>1, <1>3, <1>4, <2>1, NoneCalled DEF Leads
  <2>3. Leads(calls[d])'
    BY <1>2, <2>2 DEF Leads
  <2> QED
    BY <1>4, <2>2, <2>3 DEF Led
<1>10. MergingOK'
  <2> SUFFICES ASSUME Unmerged' PROVE /\ Held' => Carried'
                                      /\ \A u \in Tweet : Follows(u)' => Carried' \/ Led(u)'
    BY DEF MergingOK
  <2>1. ASSUME NEW u \in Tweet, Follows(u)' PROVE Carried' \/ Led(u)'
    <3>1. CASE post'[u].followed = post[u].followed
      BY <1>6, <1>7, <1>8, <2>1, <3>1 DEF MergeInv, MergingOK, Follows
    <3>2. CASE u = t /\ post[t].sends = 0
      BY <1>9, <3>2
    <3> QED
      BY <1>5, <3>1, <3>2
  <2> QED
    BY <1>6, <1>7, <2>1 DEF MergeInv, MergingOK
<1>11. ASSUME NEW e \in Call, calls'[e] # None PROVE ReadOK(calls[e])'
  <2>1. PICK c : c = calls'[e]
    OBVIOUS
  <2>2. ReadOK(c)
    <3>1. CASE e = d
      BY <1>1, <1>3, <1>4, <2>1, <3>1 DEF ReadOK
    <3>2. CASE e # d
      BY <1>1, <1>3, <1>11, <2>1, <3>2 DEF MergeInv
    <3> QED
      BY <3>1, <3>2
  <2>3. ReadOK(c)'
    BY <1>2, <2>2 DEF ReadOK, PublicRecovery
  <2> QED
    BY <2>1, <2>3 DEF ReadOK
<1> QED
  BY <1>6, <1>10, <1>11

LEMMA AnsweredMerges ==
    ASSUME MergeInv, NEW d \in Call, Answered(d)
    PROVE  /\ MergingOK' /\ NamedOK'
           /\ \A e \in Call : calls'[e] # None => ReadOK(calls[e])'
<1>1. /\ calls[d] # None /\ calls[d].pc \in {"done", "failed"}
      /\ calls' = [calls EXCEPT ![d] = None] /\ UNCHANGED vars
  BY DEF Answered
<1>2. UNCHANGED <<state, signals, ledger, observations, estimates, faults>>
  BY <1>1 DEF vars, tables
<1>3. ~Carries(calls[d]) /\ ~Leads(calls[d])
  BY <1>1 DEF Carries, Leads
<1>4. Keeps /\ MergesKept /\ WebhookInv
  BY <1>2, EndJoins DEF MergesKept, MergeInv, JoinInv
<1>5. NamedOK' /\ (Unmerged' => Unmerged) /\ (Held' => Held)
  BY <1>2 DEF NamedOK, MergeInv, Unmerged, PublicRecovery, Held
<1>6. \A e \in Call : e # d => calls'[e] = calls[e]
  BY <1>1, <1>4 DEF WebhookInv, WebhookTypeOK
<1>7. Carried => Carried'
  <2> SUFFICES ASSUME NEW e \in Call, calls[e] # None, Carries(calls[e]) PROVE Carried'
    BY DEF Carried
  <2>1. calls'[e] = calls[e]
    BY <1>3, <1>6
  <2> QED
    BY <1>2, <2>1 DEF Carried, Carries
<1>8. ASSUME NEW t \in Tweet, Led(t) PROVE Led(t)'
  <2>1. PICK e \in Call : calls[e] # None /\ calls[e].tweet = t /\ Leads(calls[e])
    BY <1>8 DEF Led
  <2>2. calls'[e] = calls[e]
    BY <1>3, <1>6, <2>1
  <2> QED
    BY <1>2, <2>1, <2>2 DEF Led, Leads
<1>9. MergingOK'
  BY <1>4, <1>5, <1>7, <1>8, MergingKept DEF MergeInv, Keeps
<1> QED
  BY <1>1, <1>4, <1>5, <1>9, OthersRead

LEMMA TiboMerges ==
    ASSUME MergeInv, NamesInv, OnlyCompletions, OnlyCompletions', TiboNext
    PROVE  MergeInv'
<1>1. JoinInv'
  BY TiboJoins DEF MergeInv
<1>2. PICK d \in Call :
        \/ \E t \in Tweet : Deliver(d, t)
        \/ ReadExisting(d) \/ Preflight(d) \/ Persist(d) \/ Lookup(d)
        \/ ReadLedger(d) \/ ReadEstimates(d) \/ Claims(d) \/ ReadNearest(d)
        \/ Confirm(d) \/ ReadEstimate(d) \/ WriteEstimate(d)
        \/ StepFails(d) \/ Answered(d) \/ CallLost(d)
  BY DEF TiboNext
<1>3. CASE \/ ReadExisting(d) \/ Preflight(d) \/ Lookup(d) \/ ReadLedger(d)
           \/ ReadEstimates(d) \/ ReadNearest(d) \/ ReadEstimate(d)
  <2>1. UNCHANGED <<state, signals, ledger, observations, estimates, post, faults>>
    BY <1>3 DEF ReadExisting, Preflight, Lookup, ReadLedger, ReadEstimates, ReadNearest,
       ReadEstimate, vars, tables
  <2>2. GoesOn(d)
    BY <1>3, EarlyGoOn, EvidenceGoesOn, NearestGoesOn, EstimateGoesOn
  <2> QED
    BY <1>1, <2>1, <2>2, ReadsMerge DEF MergeInv
<1>4. CASE \/ Persist(d) \/ Claims(d) \/ Confirm(d) \/ WriteEstimate(d)
           \/ StepFails(d) \/ CallLost(d) \/ Answered(d)
  BY <1>1, <1>4, PersistMerges, ClaimsMerges, ConfirmMerges, WriteMerges, FailureMerges,
     AnsweredMerges DEF MergeInv
<1>5. CASE \E t \in Tweet : Deliver(d, t)
  BY <1>1, <1>5, DeliverMerges DEF MergeInv
<1> QED
  BY <1>2, <1>3, <1>4, <1>5

\* The requests of the monitor, but for the report of the recovery.
LEMMA RequestMerges ==
    ASSUME MergeInv, Keeps, MergesKept, UNCHANGED <<calls, post, observations>>, NamedOK',
           Unmerged /\ Unmerged' /\ Held' => Held,
           \A t \in Tweet : signals'[t] = "absent" <=> signals[t] = "absent"
    PROVE  /\ MergingOK'
           /\ \A d \in Call : calls'[d] # None => ReadOK(calls[d])'
<1>1. \A d \in Call : calls[d] # None => calls[d].tweet \in Tweet
  BY CallTyped DEF MergeInv, JoinInv
<1>2. Carried => Carried'
  BY DEF Carried, Carries
<1>3. \A t \in Tweet : Led(t) => Led(t)'
  BY <1>1 DEF Led, Leads
<1>4. MergingOK'
  BY <1>2, <1>3, UnmergedKept, MergingKept DEF MergeInv
<1>5. ASSUME NEW d \in Call, calls'[d] # None PROVE ReadOK(calls[d])'
  <2>1. PICK c : c = calls[d]
    OBVIOUS
  <2>2. calls'[d] = c /\ ReadOK(c)
    BY <1>5, <2>1 DEF MergeInv
  <2>3. ReadOK(c)'
    BY <2>2, ReadKept
  <2> QED
    BY <2>2, <2>3 DEF ReadOK
<1> QED
  BY <1>4, <1>5

LEMMA RequestFaults == TypeOK /\ UsageNext => (faults' = 0 => faults = 0)
<1> SUFFICES ASSUME TypeOK, UsageNext PROVE faults' = 0 => faults = 0
  OBVIOUS
<1>1. faults \in Nat
  BY BoundsAssumption DEF TypeOK
<1>2. faults' = faults \/ faults' = faults + 1
  BY DEF UsageNext, Enqueue, Heartbeat, Send, GiveUp, Serve, Fails, ReadState,
     LookupNotice, LookupMatch, Apply, WriteStale, Claim, Answer, LookupFails, WriteFails,
     ClaimFails, Crash, Fault
<1> QED
  BY <1>1, <1>2

LEMMA ClaimMerges ==
    ASSUME MergeInv, NEW r \in Slot, Claim(r), LedgerStays, UNCHANGED webhook
    PROVE  /\ MergingOK' /\ NamedOK'
           /\ \A d \in Call : calls'[d] # None => ReadOK(calls[d])'
<1> DEFINE q == requests[r]
           t == q.match
           e == PlannedEstimate(q)
<1>1. /\ q # None /\ q.pc = "claim" /\ ledger' = ClaimOutcome(e.primary, e.key)
      /\ UNCHANGED <<state, observations, estimates, signals, faults, calls, post>>
  BY DEF Claim, webhook
<1>2. /\ FoundOK(q) /\ t \in Tweet \cup {None}
      /\ ledger \in [Tweet -> Key \cup {None}]
  BY <1>1, RequestTyped, RequestFields DEF MergeInv, JoinInv, WebhookInv, UsageInv, TypeOK
<1>3. /\ t \in Tweet /\ t # None /\ q.notice = None /\ q.cluster = {}
      /\ \E f \in estimates : f.key = Self(t)
  BY <1>1, <1>2 DEF FoundOK
<1>4. e.key = Self(t) /\ e.primary = t
  BY <1>3 DEF PlannedEstimate, PlannedKey, Representative, Self
<1>5. ledger' = ledger \/ ledger' = [ledger EXCEPT ![t] = Self(t)]
  BY <1>1, <1>4 DEF ClaimOutcome
<1> HIDE DEF t, e, q
<1>6. RecoveriesKept /\ EventsKept
  BY <1>1 DEF RecoveriesKept, EventsKept
<1>7. Keeps /\ MergesKept
  BY <1>1, <1>6 DEF Keeps, MergesKept
<1>8. NamedOK'
  BY <1>1, <1>2, <1>3, <1>5 DEF NamedOK, MergeInv
<1>9. ~Unmerged
  BY <1>3 DEF Unmerged, NamedOK, MergeInv
<1> QED
  BY <1>1, <1>7, <1>8, <1>9, RequestMerges

\* A plan without a recovery promotes a post at most.
LEMMA PlainApplyMerges ==
    ASSUME MergeInv, NEW r \in Slot, Apply(r), ~Recovery(requests[r].seen, requests[r].snap),
           UNCHANGED webhook
    PROVE  /\ MergingOK' /\ NamedOK'
           /\ \A d \in Call : calls'[d] # None => ReadOK(calls[d])'
<1> DEFINE q == requests[r]
<1>1. /\ q # None /\ UNCHANGED <<observations, estimates, ledger, faults, calls, post>>
      /\ signals' = IF q.promote /\ signals[q.match] = "deferred"
                    THEN [signals EXCEPT ![q.match] = "reset_executed"] ELSE signals
  BY DEF Apply, MakesEvent, webhook
<1>2. signals \in [Tweet -> SignalType]
  BY DEF MergeInv, JoinInv, WebhookInv, UsageInv, TypeOK
<1>3. \A t \in Tweet : signals'[t] = "absent" <=> signals[t] = "absent"
  BY <1>1, <1>2
<1>4. RecoveriesKept /\ EventsKept /\ LedgerStays
  BY <1>1 DEF RecoveriesKept, EventsKept, LedgerStays
<1>5. Keeps /\ MergesKept
  BY <1>1, <1>3, <1>4 DEF Keeps, MergesKept
<1>6. NamedOK' /\ (Held' => Held)
  BY <1>1 DEF NamedOK, MergeInv, Held
<1> QED
  BY <1>1, <1>3, <1>5, <1>6, RequestMerges

\* The recovery is reported: nobody follows it yet, and a post that holds its
\* event is in it.
LEMMA RecoveryApplyMerges ==
    ASSUME MergeInv, OneRecovery, NEW r \in Slot, Apply(r),
           Recovery(requests[r].seen, requests[r].snap), UNCHANGED webhook
    PROVE  /\ MergingOK' /\ NamedOK'
           /\ \A d \in Call : calls'[d] # None => ReadOK(calls[d])'
<1> DEFINE q == requests[r]
           s == q.snap
           p == PlannedObservation(q)
           e == PlannedEstimate(q)
<1>1. /\ q # None /\ state = q.seen /\ ledger' = ledger
      /\ observations' = observations \cup {p}
      /\ estimates' = IF MakesEvent(q) THEN MergeEstimate(e) ELSE estimates
      /\ UNCHANGED <<calls, post, faults>>
  BY DEF Apply, Overtaken, webhook
<1>2. /\ JoinInv /\ FoundOK(q) /\ s \in Snapshot /\ q.seen \in Snapshot \cup {None}
  BY <1>1, RequestTyped, RequestFields DEF MergeInv, JoinInv, WebhookInv, UsageInv, TypeOK
<1>3. /\ state # None /\ state \in Snapshot
      /\ state.cycle < s.cycle /\ s.cycle <= 1 /\ state.cycle \in Nat /\ s.cycle \in Nat
  <2>1. q.seen # None /\ s.cycle > q.seen.cycle
    BY DEF Recovery
  <2>2. s.cycle <= 1
    BY <1>1, <1>2, CycleBounded DEF JoinInv, WebhookInv
  <2> QED
    BY <1>1, <1>2, <2>1, <2>2, SnapshotFields
<1>4. state.cycle = 0
  BY <1>3
<1>5. observations = {}
  BY <1>2, <1>4 DEF JoinInv, RecoveryOK
<1>6. estimates = {}
  BY <1>2, <1>5 DEF JoinInv, EventsOK
<1>7. \A t \in Tweet : ~Follows(t)'
  BY <1>1, <1>2, <1>5 DEF JoinInv, FollowersOK, Follows
<1>8. p.status = "confirmed" => q.match # None
  BY DEF PlannedObservation
<1>9. /\ q.match # None => e.tweets # {}
      /\ q.match = None => e.key = <<"usage-reset", s.at>> /\ e.primary = None
  <2>1. q.notice = None /\ q.teaser = None /\ q.cluster = {}
    BY <1>2 DEF FoundOK
  <2>2. CASE q.match # None
    BY <2>1, <2>2 DEF PlannedEstimate, PlannedKey
  <2>3. CASE q.match = None
    <3>1. PICK k : k = <<"usage-reset", s.at>>
      OBVIOUS
    <3>2. PlannedKey(q) = k /\ k[1] # "tibo-reset"
      BY <2>1, <2>3, <3>1 DEF PlannedKey
    <3>3. e.key = k /\ e.primary = None
      BY <2>1, <3>2 DEF PlannedEstimate
    <3> QED
      BY <2>3, <3>1, <3>3
  <2> QED
    BY <2>2, <2>3
<1>10. estimates' = IF MakesEvent(q) THEN {e} ELSE {}
  BY <1>1, <1>6 DEF MergeEstimate
<1>11. observations' = {p}
  BY <1>1, <1>5
<1>12. PublicRecovery' => estimates' = {e}
  <2>1. Public(p) => MakesEvent(q)
    BY DEF PlannedObservation, Public, MakesEvent
  <2> QED
    BY <1>10, <1>11, <2>1 DEF PublicRecovery
<1> HIDE DEF p, e, s
<1>13. \A u \in Tweet : /\ ledger[u] \in {None, Self(u)}
                        /\ <<"usage-reset", s.at>> # Self(u) /\ <<"usage-reset", s.at>> # None
  <2>1. s.at \in Time
    BY <1>2 DEF Snapshot
  <2>2. <<"usage-reset", s.at>> \in Key
    BY <2>1 DEF Key
  <2>3. <<"usage-reset", s.at>> # None
    BY <2>2, NoneIsNoValue
  <2> QED
    BY <1>6, <2>3 DEF MergeInv, NamedOK, Self
<1>14. NamedOK'
  BY <1>1, <1>9, <1>10, <1>13 DEF NamedOK
<1>15. MergingOK'
  <2> SUFFICES ASSUME Unmerged' PROVE ~Held'
    BY <1>7 DEF MergingOK
  <2>1. estimates' = {e} /\ e.tweets = {} /\ q.match = None
    BY <1>9, <1>12 DEF Unmerged
  <2>2. \A u \in Tweet : ledger'[u] # e.key
    BY <1>1, <1>9, <1>13, <2>1
  <2> QED
    BY <1>8, <1>11, <2>1, <2>2 DEF Held
<1>16. ASSUME NEW d \in Call, calls'[d] # None PROVE ReadOK(calls[d])'
  <2>1. PICK c : c = calls[d]
    OBVIOUS
  <2>2. calls'[d] = c /\ c # None /\ ReadOK(c)
    BY <1>1, <1>16, <2>1 DEF MergeInv
  <2>3. c.pc # "write"
    BY <1>2, <1>5, <2>1, <2>2 DEF JoinInv, WebhookInv, CallsOK, CallOK
  <2>4. c.est # None => c.est = {}
    BY <1>6, <2>2 DEF ReadOK
  <2>5. ReadOK(c)'
    BY <1>1, <2>2, <2>3, <2>4 DEF ReadOK
  <2> QED
    BY <2>2, <2>5 DEF ReadOK
<1> QED
  BY <1>14, <1>15, <1>16

LEMMA UsageMerges ==
    ASSUME MergeInv, OneRecovery, UsageNext, UNCHANGED webhook
    PROVE  MergeInv'
<1>1. JoinInv' /\ LedgerStays
  BY UsageJoins, UsageTables DEF MergeInv, JoinInv, WebhookInv
<1>2. CASE \E r \in Slot : Claim(r)
  BY <1>1, <1>2, ClaimMerges DEF MergeInv
<1>3. CASE \E r \in Slot : Apply(r)
  BY <1>1, <1>3, PlainApplyMerges, RecoveryApplyMerges DEF MergeInv
<1>4. CASE ~\E r \in Slot : Claim(r) \/ Apply(r)
  <2>1. UNCHANGED tables
    BY <1>4 DEF UsageNext, Enqueue, Heartbeat, Send, GiveUp, Serve, Fails, ReadState,
       LookupNotice, LookupMatch, WriteStale, Answer, LookupFails, WriteFails,
       ClaimFails, Crash
  <2>2. UNCHANGED <<state, signals, ledger, observations, estimates, post, calls>>
    BY <2>1 DEF tables, webhook
  <2>3. Keeps
    BY <2>2, SteadyTables DEF MergeInv
  <2>4. MergesKept
    BY <2>2, RequestFaults DEF MergesKept, MergeInv, JoinInv, WebhookInv, UsageInv
  <2>5. NamedOK' /\ (Held' => Held)
    BY <2>2 DEF NamedOK, MergeInv, Held
  <2> QED
    BY <1>1, <2>2, <2>3, <2>4, <2>5, RequestMerges DEF MergeInv
<1> QED
  BY <1>2, <1>3, <1>4

LEMMA MergeStep ==
    ASSUME MergeInv, NamesInv, Undisturbed, Undisturbed', [WebhookNext]_allvars
    PROVE  MergeInv'
<1>1. CASE UsageNext /\ UNCHANGED webhook
  BY <1>1, UsageMerges DEF Undisturbed
<1>2. CASE TiboNext
  BY <1>2, TiboMerges DEF Undisturbed
<1>3. CASE UNCHANGED allvars
  <2>1. UNCHANGED <<state, signals, ledger, observations, estimates, post, calls, faults>>
    BY <1>3 DEF allvars, webhook, vars, tables
  <2>2. JoinInv' /\ Keeps
    BY <1>3, <2>1, JoinStep, SteadyTables DEF MergeInv
  <2>3. MergesKept /\ NamedOK' /\ (Held' => Held)
    BY <2>1 DEF MergesKept, NamedOK, MergeInv, Held
  <2> QED
    BY <2>1, <2>2, <2>3, RequestMerges DEF MergeInv
<1> QED
  BY <1>1, <1>2, <1>3 DEF WebhookNext

LEMMA MergeStart == WebhookInit => MergeInv
<1> SUFFICES ASSUME WebhookInit PROVE MergeInv
  OBVIOUS
<1>1. JoinInv
  BY JoinStart
<1>2. /\ observations = {} /\ estimates = {}
      /\ \A t \in Tweet : ledger[t] = None
      /\ \A d \in Call : calls[d] = None
  BY DEF WebhookInit, Init
<1> QED
  BY <1>1, <1>2 DEF MergeInv, MergingOK, Unmerged, NamedOK, PublicRecovery

MergedInv == NamesInv /\ (Undisturbed => MergeInv /\ TracesOK)

LEMMA MergedInvariant == WebhookSpec => []MergedInv
<1>1. WebhookInit => MergedInv
  BY NamesStart, MergeStart, TracesStart DEF MergedInv
<1>2. MergedInv /\ [WebhookNext]_allvars => MergedInv'
  <2> SUFFICES ASSUME MergedInv, [WebhookNext]_allvars PROVE MergedInv'
    OBVIOUS
  <2>1. NamesInv /\ NamesInv' /\ WebhookInv
    BY NamesStep DEF MergedInv, NamesInv
  <2>2. ASSUME Undisturbed' PROVE MergeInv' /\ TracesOK'
    <3>1. Undisturbed /\ MergeInv /\ TracesOK
      BY <2>1, <2>2, UndisturbedBefore DEF MergedInv
    <3>2. JoinInv
      BY <3>1 DEF MergeInv
    <3> QED
      BY <2>1, <2>2, <3>1, <3>2, MergeStep, TracesStep
  <2> QED
    BY <2>1, <2>2 DEF MergedInv
<1> QED
  BY <1>1, <1>2, PTL DEF WebhookSpec

\* As long as only completions are sent and the quota recovered once: if nothing
\* failed and all deliveries are answered, a recovery that a completion followed
\* has a completion in its event; two that read the same tables never both leave
\* the merge to the other.
THEOREM SomeFollowerMerges == WebhookSpec => [](Undisturbed => SomeFollowerMerged)
<1>1. MergedInv => (Undisturbed => SomeFollowerMerged)
  <2> SUFFICES ASSUME MergeInv, TracesOK, Undisturbed, NEW o \in observations,
                      NEW t \in Completion, o.at \in post[t].followed, DeliveriesOver
               PROVE  \E e \in estimates : e.obs = o.at /\ e.tweets \cap Completion # {}
    BY DEF SomeFollowerMerged, MergedInv
  <2>1. t \in Tweet /\ Follows(t) /\ JoinInv
    BY WebhookAssumption DEF Follows, MergeInv
  <2>2. PICK p \in observations, e \in estimates :
          observations = {p} /\ estimates = {e} /\ e.obs = p.at /\ Public(p)
    BY <2>1, FollowerFinds
  <2>3. ~Carried /\ ~Led(t) /\ faults = 0
    BY DEF DeliveriesOver, Carried, Led
  <2>4. e.tweets # {}
    BY <2>1, <2>2, <2>3 DEF MergeInv, MergingOK, Unmerged, PublicRecovery
  <2>5. e.tweets \subseteq Tweet
    BY <2>1, EstimateFields DEF JoinInv, WebhookInv, UsageInv, TypeOK
  <2>6. e.tweets \subseteq Completion
    BY <2>5 DEF TracesOK, Undisturbed, OnlyCompletions
  <2> QED
    BY <2>2, <2>4, <2>6
<1> QED
  BY <1>1, MergedInvariant, PTL

\* Likewise, however many deliveries a post has left: as long as nothing failed and
\* the recovery's event has no post, a completion that follows it leaves some
\* delivery at work on its way to the merge; none is put off, refused or answered in
\* favour of one that is over already.
THEOREM MergeIsUnderWay ==
    WebhookSpec =>
        [](Undisturbed /\ Unmerged /\ (\E t \in Tweet : Follows(t)) =>
              \E d \in Call : calls[d] # None /\ calls[d].pc \notin {"done", "failed"})
<1>1. MergedInv => (Undisturbed /\ Unmerged /\ (\E t \in Tweet : Follows(t)) =>
                    \E d \in Call : calls[d] # None /\ calls[d].pc \notin {"done", "failed"})
  <2> SUFFICES ASSUME MergeInv, Unmerged, NEW t \in Tweet, Follows(t)
               PROVE  \E d \in Call : calls[d] # None /\ calls[d].pc \notin {"done", "failed"}
    BY DEF MergedInv
  <2>1. Carried \/ Led(t)
    BY DEF MergeInv, MergingOK
  <2> QED
    BY <2>1 DEF Carried, Led, Carries, Leads
<1> QED
  BY <1>1, MergedInvariant, PTL
=============================================================================
