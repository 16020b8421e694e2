------------------------- MODULE DisplayNamesProofs -------------------------
(***************************************************************************)
(* Proofs about DisplayNames, for any numbers of reconciler runs and of    *)
(* webhooks, any clock and any number of revisions of the notice.          *)
(***************************************************************************)
EXTENDS DisplayNames, TLAPS

Times == 0..MaxClock
Revisions == 0..MaxRevisions

(* What an actor holds at each of its steps. *)
Plans == [at : {"planned", "promote", "event", "candidate"}, now : Times,
          key : Kinds, promote : BOOLEAN, event : Revisions \cup {None},
          input : Input \cup {None}]

Readings == [at : {"list"}, now : Times, notice : Notice, executed : BOOLEAN,
             event : Revisions \cup {None}]

\* A plan for a candidate is made from a candidate, of which "c" is now the row.
PlanOK(p, c) ==
    /\ p \in Plans
    /\ p.promote \/ p.input # None => c # None

RestOK(p, c) ==
    \/ p = Idle
    \/ /\ PlanOK(p, c)
       /\ \/ p.at = "promote" /\ p.promote
          \/ p.at = "event" /\ p.event # None
          \/ p.at = "candidate" /\ p.input # None

SeedingOK(r, c) ==
    /\ r \in [at : {"seed"}, reading : Readings, plan : Plans]
    /\ PlanOK(r.plan, c)

AskingOK(r, c) ==
    /\ r.at = "reread" /\ r = [at |-> r.at, input |-> r.input, rest |-> r.rest]
    /\ r.input \in Revisions /\ RestOK(r.rest, c)

\* A write is of an accepted name or over none, and the row it was built from is
\* the present one as long as the versions are equal.
FreshOK(fresh, row) ==
    /\ fresh \in Row \cup {None}
    /\ fresh # None => /\ row # None
                       /\ fresh.version <= row.version
                       /\ fresh.version = row.version => fresh = row

WritingOK(r, c, row) ==
    /\ r.at \in {"write", "mark"}
    /\ r = [at |-> r.at, fresh |-> r.fresh, accepted |-> r.accepted,
            input |-> r.input, rest |-> r.rest]
    /\ r.accepted \in BOOLEAN /\ r.input \in Revisions
    /\ RestOK(r.rest, c) /\ FreshOK(r.fresh, row)
    /\ r.at = "mark" => r.fresh # None
    /\ r.at = "write" => r.accepted \/ r.fresh = None \/ r.fresh.name = None

GeneratingOK(r, c) ==
    /\ r \in [at : {"generate"}, now : Times, input : Input, attempts : Nat]
    /\ c # None

ActorOK(r, c, row) ==
    \/ RestOK(r, c) \/ r \in Readings \/ SeedingOK(r, c) \/ AskingOK(r, c)
    \/ WritingOK(r, c, row) \/ GeneratingOK(r, c)

RunsOK ==
    /\ run = [a \in Actors |-> run[a]]
    /\ \A a \in Actors : ActorOK(run[a], candidate, names[EventOf(a)])

\* What the row of a candidate says is about its present kind.
CandidateOK(c) ==
    /\ c \in Candidate
    /\ (c.life = "promoted") = (c.promoted # None)
    /\ (c.input = None) = (c.status = "unprocessed")
    /\ c.status = "pending" => c.input.kind = c.kind
    /\ c.status = "accepted" => c.result = c.kind

RowOK(row, e) ==
    /\ row \in Row
    /\ row.name # None => row.name.kind = e

StateOK ==
    /\ clock \in Times /\ notice \in Notice
    /\ seeding \in Notice \cup {None} /\ evidence \subseteq Events
    /\ candidate # None => CandidateOK(candidate)
    /\ names = [e \in Events |-> names[e]]
    /\ \A e \in Events : names[e] # None => RowOK(names[e], e)

IInv == StateOK /\ RunsOK

-----------------------------------------------------------------------------
(* What an actor holds outlives the steps of the others. *)

\* What a step may make of a row: nothing, or the next version, with a name
\* where there was one and by hand where it was.
RowKept(row, next) ==
    row # None =>
        /\ next # None
        /\ next = row \/ next.version = row.version + 1
        /\ row.name # None => next.name # None
        /\ row.manual => next.manual

LEMMA RestStays ==
    ASSUME NEW p, NEW c, NEW d, RestOK(p, c), c # None => d # None
    PROVE  RestOK(p, d)
BY DEF RestOK, PlanOK

LEMMA FreshStays ==
    ASSUME NEW fresh, NEW row, NEW next, FreshOK(fresh, row), RowKept(row, next),
           row # None => row.version \in Nat
    PROVE  FreshOK(fresh, next)
BY DEF FreshOK, RowKept, Row

LEMMA ActorStays ==
    ASSUME NEW r, NEW c, NEW d, NEW row, NEW next,
           ActorOK(r, c, row), c # None => d # None, RowKept(row, next),
           row # None => row.version \in Nat
    PROVE  ActorOK(r, d, next)
<1>1. CASE RestOK(r, c)
  BY <1>1, RestStays DEF ActorOK
<1>2. CASE r \in Readings
  BY <1>2 DEF ActorOK
<1>3. CASE SeedingOK(r, c)
  BY <1>3 DEF ActorOK, SeedingOK, PlanOK
<1>4. CASE AskingOK(r, c)
  <2>1. RestOK(r.rest, d)
    BY <1>4, RestStays DEF AskingOK
  <2> QED
    BY <1>4, <2>1 DEF ActorOK, AskingOK
<1>5. CASE WritingOK(r, c, row)
  <2>1. RestOK(r.rest, d)
    BY <1>5, RestStays DEF WritingOK
  <2>2. FreshOK(r.fresh, next)
    BY <1>5, FreshStays DEF WritingOK
  <2> QED
    BY <1>5, <2>1, <2>2 DEF ActorOK, WritingOK
<1>6. CASE GeneratingOK(r, c)
  BY <1>6 DEF ActorOK, GeneratingOK
<1> QED
  BY <1>1, <1>2, <1>3, <1>4, <1>5, <1>6 DEF ActorOK

\* A step that changes what one actor holds keeps the others'.
LEMMA RunsStep ==
    ASSUME RunsOK, StateOK, NEW a \in Actors, NEW r,
           run' = [run EXCEPT ![a] = r],
           candidate # None => candidate' # None,
           \A e \in Events : RowKept(names[e], names'[e]),
           ActorOK(r, candidate', names'[EventOf(a)])
    PROVE  RunsOK'
<1>1. run' = [b \in Actors |-> run'[b]]
  BY DEF RunsOK
<1>2. ASSUME NEW b \in Actors
      PROVE  ActorOK(run'[b], candidate', names'[EventOf(b)])
  <2>1. CASE b = a
    BY <2>1 DEF RunsOK
  <2>2. CASE b # a
    <3>1. run'[b] = run[b]
      BY <2>2 DEF RunsOK
    <3>2. EventOf(b) \in Events
      BY DEF EventOf, Events, Kinds
    <3>3. names[EventOf(b)] # None => names[EventOf(b)].version \in Nat
      BY <3>2 DEF StateOK, RowOK, Row
    <3> QED
      BY <3>1, <3>2, <3>3, ActorStays DEF RunsOK
  <2> QED
    BY <2>1, <2>2
<1> QED
  BY <1>1, <1>2 DEF RunsOK

\* A step of the webhooks or the operator keeps what all actors hold.
LEMMA RunsStay ==
    ASSUME RunsOK, StateOK, UNCHANGED run,
           candidate # None => candidate' # None,
           \A e \in Events : RowKept(names[e], names'[e])
    PROVE  RunsOK'
<1>1. ASSUME NEW b \in Actors
      PROVE  ActorOK(run[b], candidate', names'[EventOf(b)])
  <2>1. EventOf(b) \in Events
    BY DEF EventOf, Events, Kinds
  <2>2. names[EventOf(b)] # None => names[EventOf(b)].version \in Nat
    BY <2>1 DEF StateOK, RowOK, Row
  <2> QED
    BY <2>1, <2>2, ActorStays DEF RunsOK
<1> QED
  BY <1>1 DEF RunsOK

LEMMA OnwardOK ==
    ASSUME NEW p, NEW c, PlanOK(p, c)
    PROVE  RestOK(Onward(p), c)
<1>1. CASE p.promote
  BY <1>1 DEF Onward, RestOK, PlanOK, Plans
<1>2. CASE ~p.promote /\ p.event # None
  BY <1>2 DEF Onward, RestOK, PlanOK, Plans
<1>3. CASE ~p.promote /\ p.event = None /\ p.input # None
  BY <1>3 DEF Onward, RestOK, PlanOK, Plans
<1>4. CASE ~p.promote /\ p.event = None /\ p.input = None
  BY <1>4 DEF Onward, RestOK
<1> QED
  BY <1>1, <1>2, <1>3, <1>4

LEMMA PlanMade ==
    ASSUME NEW r \in Readings, NEW c, c # None => c \in Candidate
    PROVE  PlanOK(Plan(r, c), c)
<1>1. PromotionDue(r, c) \in BOOLEAN /\ (PromotionDue(r, c) => c # None)
  BY DEF PromotionDue
<1>2. GenerationDue(r, c) => c # None
  BY DEF GenerationDue
<1>3. c # None => InputOf(r, c) \in Input
  BY DEF InputOf, Input, Readings, Candidate
<1>4. r.now \in Times /\ r.notice.kind \in Kinds /\ r.event \in Revisions \cup {None}
  BY DEF Readings, Notice
<1> QED
  BY <1>1, <1>2, <1>3, <1>4, NoneAssumption DEF Plan, PlanOK, Plans

-----------------------------------------------------------------------------
(* The steps. *)

Kept == \A e \in Events : RowKept(names[e], names'[e])

Preserved == StateOK' /\ RunsOK' /\ Kept

LEMMA NamesStay ==
    ASSUME UNCHANGED names
    PROVE  Kept
BY DEF Kept, RowKept

\* A seed makes or keeps a candidate that says nothing about another kind.
LEMMA SeededOK ==
    ASSUME StateOK, NEW seed \in Notice
    PROVE  Seeded(seed) # None /\ CandidateOK(Seeded(seed))
<1>1. Fresh(seed) \in Candidate /\ CandidateOK(Fresh(seed))
  BY DEF Fresh, CandidateOK, Candidate, Notice, StateOK, Times
<1>2. CASE candidate = None \/ (candidate.life = "provisional" /\ candidate.kind # seed.kind)
  BY <1>1, <1>2, NoneAssumption DEF Seeded
<1>3. CASE ~(candidate = None \/ (candidate.life = "provisional" /\ candidate.kind # seed.kind))
  <2> DEFINE c == [candidate EXCEPT !.updated = clock,
                      !.posts = IF seed.posts > @ THEN seed.posts ELSE @]
  <2>1. CandidateOK(candidate) /\ clock \in 0..MaxClock /\ seed.posts \in 0..MaxRevisions
    BY <1>3 DEF StateOK, Times, Notice
  <2>2. c \in Candidate
    BY <2>1 DEF CandidateOK, Candidate
  <2>3. CandidateOK(c)
    BY <2>1, <2>2 DEF CandidateOK, Candidate
  <2> QED
    BY <1>3, <2>2, <2>3, NoneAssumption DEF Seeded
<1> QED
  BY <1>2, <1>3

LEMMA EnvironmentStep ==
    ASSUME IInv,
           \/ \E kind \in Kinds, more \in {0, 1} : NoticeStored(kind, notice.posts + more)
           \/ SeedWritten \/ SeedFails \/ ExecutionStored
    PROVE  Preserved
<1>1. UNCHANGED <<clock, names, run>>
  BY DEF NoticeStored, SeedWritten, SeedFails, ExecutionStored
<1>2. notice' \in Notice /\ seeding' \in Notice \cup {None} /\ evidence' \subseteq Events
  BY DEF IInv, StateOK, NoticeStored, SeedWritten, SeedFails, ExecutionStored, Notice, Events
<1>3. candidate' = candidate \/ (candidate' # None /\ CandidateOK(candidate'))
  <2>1. CASE SeedWritten
    BY <2>1, SeededOK DEF IInv, StateOK, SeedWritten
  <2>2. CASE ~SeedWritten
    BY <2>2 DEF NoticeStored, SeedFails, ExecutionStored
  <2> QED
    BY <2>1, <2>2
<1>4. Kept
  BY <1>1, NamesStay
<1>5. RunsOK'
  BY <1>1, <1>3, <1>4, RunsStay DEF IInv, Kept
<1>6. StateOK'
  BY <1>1, <1>2, <1>3 DEF IInv, StateOK
<1> QED
  BY <1>4, <1>5, <1>6 DEF Preserved

LEMMA OverriddenRow ==
    ASSUME NEW e, NEW row, RowOK(row, e)
    PROVE  LET next == [row EXCEPT !.manual = TRUE, !.version = @ + 1]
           IN  RowOK(next, e) /\ RowKept(row, next) /\ next # None
<1> DEFINE next == [row EXCEPT !.manual = TRUE, !.version = @ + 1]
<1>1. row \in Row /\ row.version + 1 \in Nat
  BY DEF RowOK, Row
<1>2. ASSUME NEW by, NEW v \in Nat
      PROVE  /\ [row EXCEPT !.manual = by, !.version = v] \in
                  [manual : {by}, name : Name \cup {None},
                   input : 0..MaxRevisions \cup {None},
                   failures : SUBSET (0..MaxRevisions), version : Nat]
             /\ [row EXCEPT !.manual = by, !.version = v].name = row.name
             /\ [row EXCEPT !.manual = by, !.version = v].version = v
  BY <1>1 DEF Row
<1>3. /\ next \in [manual : {TRUE}, name : Name \cup {None},
                   input : 0..MaxRevisions \cup {None},
                   failures : SUBSET (0..MaxRevisions), version : Nat]
      /\ next.name = row.name /\ next.version = row.version + 1
  BY <1>1, <1>2
<1>4. next \in Row /\ next.manual
  <2> HIDE DEF next
  <2> QED
    BY <1>3 DEF Row
<1> HIDE DEF next
<1>5. RowOK(next, e) /\ RowKept(row, next) /\ next # None
  BY <1>3, <1>4, NoneAssumption DEF RowOK, RowKept
<1> QED
  BY <1>5 DEF next

LEMMA OverrideStep ==
    ASSUME IInv, NEW e \in Events, ManualOverride(e)
    PROVE  Preserved
<1>1. RowOK(names[e], e) /\ names[e] # None
  BY DEF IInv, StateOK, ManualOverride
<1>2. names' = [names EXCEPT ![e] = [names[e] EXCEPT !.manual = TRUE, !.version = @ + 1]]
  BY <1>1 DEF ManualOverride, IInv, StateOK
<1> DEFINE row == names[e]
           next == [row EXCEPT !.manual = TRUE, !.version = @ + 1]
<1>3. RowOK(names'[e], e) /\ RowKept(names[e], names'[e]) /\ names'[e] # None
  <2>1. RowOK(next, e) /\ RowKept(row, next) /\ next # None
    BY <1>1, OverriddenRow
  <2>2. names'[e] = next
    BY <1>2 DEF IInv, StateOK
  <2> QED
    BY <2>1, <2>2
<1>4. Kept
  BY <1>2, <1>3 DEF Kept, RowKept, IInv, StateOK
<1>5. RunsOK'
  BY <1>4, RunsStay DEF IInv, Kept, ManualOverride
<1>6. StateOK'
  BY <1>2, <1>3 DEF IInv, StateOK, ManualOverride
<1> QED
  BY <1>4, <1>5, <1>6 DEF Preserved

\* A run reads its notices, then its candidate, and writes a missing seed.
LEMMA BeginStep ==
    ASSUME IInv, NEW w \in Workers, Begin(w)
    PROVE  Preserved
<1> DEFINE r == [at |-> "list", now |-> clock' - 1, notice |-> notice,
                 executed |-> notice.kind \in evidence, event |-> EventInput(notice.posts)]
<1>1. clock' \in Times /\ clock' - 1 \in Times
  BY NamesAssumption DEF IInv, StateOK, Begin, Times, StalePending
<1>2. notice.posts \in Revisions
  BY DEF IInv, StateOK, Notice, Revisions
<1>3. EventInput(notice.posts) \in Revisions \cup {None}
  BY <1>2 DEF EventInput
<1>4. (notice.kind \in evidence) \in BOOLEAN
  OBVIOUS
<1>5. r \in Readings
  BY <1>1, <1>3, <1>4 DEF Readings, IInv, StateOK
<1>6. Kept
  BY NamesStay DEF Begin
<1>7. RunsOK'
  <2>1. ActorOK(r, candidate', names'[EventOf(w)])
    BY <1>5 DEF ActorOK
  <2>2. w \in Actors /\ run' = [run EXCEPT ![w] = r] /\ candidate' = candidate
    BY DEF Begin, Actors
  <2> HIDE DEF r
  <2> QED
    BY <1>6, <2>1, <2>2, RunsStep DEF IInv, Kept
<1>8. StateOK'
  BY <1>1 DEF IInv, StateOK, Begin
<1> QED
  BY <1>6, <1>7, <1>8 DEF Preserved

LEMMA ListStep ==
    ASSUME IInv, NEW w \in Workers, List(w)
    PROVE  Preserved
<1>1. w \in Actors /\ run[w].at = "list"
  BY DEF List, Actors
<1>2. run[w] \in Readings
  BY <1>1 DEF IInv, RunsOK, ActorOK, RestOK, SeedingOK, AskingOK, WritingOK, GeneratingOK, Idle
<1>3. PICK listed \in {candidate, None} :
        run' = [run EXCEPT ![w] =
            IF SeedMissing(@, listed)
            THEN [at |-> "seed", reading |-> @, plan |-> Plan(@, listed)]
            ELSE Onward(Plan(@, listed))]
  BY DEF List
<1> DEFINE r == IF SeedMissing(run[w], listed)
                THEN [at |-> "seed", reading |-> run[w], plan |-> Plan(run[w], listed)]
                ELSE Onward(Plan(run[w], listed))
<1>4. run' = [run EXCEPT ![w] = r]
  BY <1>1, <1>3 DEF IInv, RunsOK
<1>5. PlanOK(Plan(run[w], listed), candidate)
  <2>1. PlanOK(Plan(run[w], listed), listed)
    BY <1>2, PlanMade DEF IInv, StateOK, CandidateOK
  <2> QED
    BY <2>1 DEF PlanOK
<1>6. ActorOK(r, candidate, names[EventOf(w)])
  <2>1. CASE SeedMissing(run[w], listed)
    <3>1. SeedingOK(r, candidate)
      BY <1>2, <1>5, <2>1 DEF SeedingOK, PlanOK
    <3> QED
      BY <3>1 DEF ActorOK
  <2>2. CASE ~SeedMissing(run[w], listed)
    BY <1>5, <2>2, OnwardOK DEF ActorOK
  <2> QED
    BY <2>1, <2>2
<1>7. UNCHANGED <<clock, notice, seeding, candidate, evidence, names>>
  BY DEF List
<1>8. Kept
  BY <1>7, NamesStay
<1>9. RunsOK'
  <2> HIDE DEF r
  <2> QED
    BY <1>1, <1>4, <1>6, <1>7, <1>8, RunsStep DEF IInv, Kept
<1> QED
  BY <1>7, <1>8, <1>9 DEF IInv, StateOK, Preserved

LEMMA ReseedStep ==
    ASSUME IInv, NEW w \in Workers, Reseed(w)
    PROVE  Preserved
<1>1. w \in Actors /\ run[w].at = "seed"
  BY DEF Reseed, Actors
<1>2. SeedingOK(run[w], candidate)
  BY <1>1 DEF IInv, RunsOK, ActorOK, RestOK, Readings, AskingOK, WritingOK, GeneratingOK, Idle
<1>3. run[w].reading \in Readings /\ run[w].reading.notice \in Notice
  BY <1>2 DEF SeedingOK, Readings
<1>4. UNCHANGED <<clock, notice, seeding, evidence, names>>
  BY DEF Reseed
<1>5. Kept
  BY <1>4, NamesStay
<1>6. /\ candidate # None => candidate' # None
      /\ candidate' # None => CandidateOK(candidate')
  BY <1>3, SeededOK DEF Reseed, IInv, StateOK
<1>7. \E r : run' = [run EXCEPT ![w] = r] /\ RestOK(r, candidate')
  <2>1. CASE run' = [run EXCEPT ![w] = Onward(Plan(@.reading, candidate'))]
    <3> DEFINE r == Onward(Plan(run[w].reading, candidate'))
    <3>1. run' = [run EXCEPT ![w] = r]
      BY <1>1, <2>1 DEF IInv, RunsOK
    <3>2. PlanOK(Plan(run[w].reading, candidate'), candidate')
      BY <1>3, <1>6, PlanMade DEF CandidateOK
    <3>3. RestOK(r, candidate')
      BY <3>2, OnwardOK
    <3> QED
      BY <3>1, <3>3
  <2>2. CASE run' = [run EXCEPT ![w] = Onward(@.plan)]
    <3>1. run' = [run EXCEPT ![w] = Onward(run[w].plan)]
      BY <1>1, <2>2 DEF IInv, RunsOK
    <3>2. PlanOK(run[w].plan, candidate')
      BY <1>2, <1>6 DEF SeedingOK, PlanOK
    <3> QED
      BY <3>1, <3>2, OnwardOK
  <2> QED
    BY <2>1, <2>2 DEF Reseed
<1>8. RunsOK'
  BY <1>1, <1>5, <1>6, <1>7, RunsStep DEF IInv, Kept, ActorOK
<1>9. StateOK'
  BY <1>4, <1>6 DEF IInv, StateOK
<1> QED
  BY <1>5, <1>8, <1>9 DEF Preserved

LEMMA RowPromoted ==
    ASSUME NEW row, row # None => row \in Row,
           [kind |-> candidate.result, precomputed |-> TRUE] \in Name
    PROVE  /\ PromotedRow(row) \in Row
           /\ PromotedRow(row).name = [kind |-> candidate.result, precomputed |-> TRUE]
           /\ row # None => PromotedRow(row).version = row.version + 1
<1> DEFINE name == [kind |-> candidate.result, precomputed |-> TRUE]
           failures == IF row = None THEN {} ELSE row.failures
           version == IF row = None THEN 1 ELSE row.version + 1
<1>1. /\ failures \in SUBSET (0..MaxRevisions) /\ version \in Nat
      /\ row # None => version = row.version + 1
  BY DEF Row
<1>2. PromotedRow(row) = [manual |-> FALSE, name |-> name, input |-> None,
                          failures |-> failures, version |-> version]
  BY DEF PromotedRow
<1> HIDE DEF name, failures, version
<1>3. /\ PromotedRow(row) \in Row
      /\ PromotedRow(row).name = name /\ PromotedRow(row).version = version
  BY <1>1, <1>2 DEF Row, name
<1> QED
  BY <1>1, <1>3 DEF name

\* A promoted name is a name for the event's kind, and only where there is none.
LEMMA PromotionOK ==
    ASSUME IInv, candidate # None, NEW key \in Kinds, Promotable(key), NEW now \in Times
    PROVE  /\ CandidateOK(PromotedCandidate(key, now))
           /\ PromotedCandidate(key, now) # None
           /\ ~Protected(names[key]) =>
                 /\ RowOK(PromotedRow(names[key]), key)
                 /\ PromotedRow(names[key]) # None
                 /\ RowKept(names[key], PromotedRow(names[key]))
<1>1. CandidateOK(candidate)
  BY DEF IInv, StateOK
<1>2. key # None
  BY NoneAssumption DEF Events
<1>3. PromotedCandidate(key, now) \in Candidate
  BY <1>1 DEF PromotedCandidate, CandidateOK, Candidate, Events, Times
<1>4. CandidateOK(PromotedCandidate(key, now))
  BY <1>1, <1>2, <1>3 DEF PromotedCandidate, CandidateOK, Candidate
<1>5. ASSUME ~Protected(names[key])
      PROVE  /\ RowOK(PromotedRow(names[key]), key)
             /\ PromotedRow(names[key]) # None
             /\ RowKept(names[key], PromotedRow(names[key]))
  <2> DEFINE row == names[key]
             name == [kind |-> candidate.result, precomputed |-> TRUE]
  <2>1. row # None => row \in Row /\ ~row.manual /\ row.name = None
    BY <1>5 DEF IInv, StateOK, RowOK, Protected, Events
  <2>2. candidate.result = key
    BY <1>1 DEF Promotable, CandidateOK
  <2>3. name \in Name /\ name # None /\ name.kind = key
    <3>1. name = [kind |-> key, precomputed |-> TRUE]
      BY <2>2
    <3>2. name.kind = key
      BY <2>2
    <3>3. name \in Name
      BY <3>1 DEF Name
    <3> HIDE DEF name
    <3> QED
      BY <3>2, <3>3, NoneAssumption
  <2> HIDE DEF name
  <2>4. PromotedRow(row) \in Row /\ PromotedRow(row).name = name
        /\ (row # None => PromotedRow(row).version = row.version + 1)
    <3>1. row # None => row \in Row
      BY <2>1
    <3>2. [kind |-> candidate.result, precomputed |-> TRUE] \in Name
      BY <2>3 DEF name
    <3> HIDE DEF row
    <3> QED
      BY <3>1, <3>2, RowPromoted DEF name
  <2>5. RowOK(PromotedRow(row), key) /\ PromotedRow(row) # None
    BY <2>3, <2>4, NoneAssumption DEF RowOK
  <2> QED
    BY <2>1, <2>3, <2>4, <2>5 DEF RowKept
<1> QED
  BY <1>3, <1>4, <1>5, NoneAssumption

LEMMA Held ==
    ASSUME RunsOK, NEW a \in Actors
    PROVE  /\ run[a].at \in {"promote", "event", "candidate"} =>
                 /\ PlanOK(run[a], candidate)
                 /\ run[a].at = "promote" => run[a].promote
                 /\ run[a].at = "event" => run[a].event # None
                 /\ run[a].at = "candidate" => run[a].input # None
           /\ run[a].at = "reread" => AskingOK(run[a], candidate)
           /\ run[a].at \in {"write", "mark"} =>
                 WritingOK(run[a], candidate, names[EventOf(a)])
           /\ run[a].at = "generate" => GeneratingOK(run[a], candidate)
BY DEF RunsOK, ActorOK, RestOK, PlanOK, Readings, SeedingOK, AskingOK, WritingOK, GeneratingOK, Idle

\* A step that changes nothing but what one actor holds.
LEMMA OnlyRun ==
    ASSUME IInv, NEW a \in Actors, NEW r, run' = [run EXCEPT ![a] = r],
           UNCHANGED <<clock, notice, seeding, candidate, evidence, names>>,
           ActorOK(r, candidate, names[EventOf(a)])
    PROVE  Preserved
<1>1. Kept
  BY NamesStay
<1>2. RunsOK'
  BY <1>1, RunsStep DEF IInv, Kept
<1> QED
  BY <1>1, <1>2 DEF IInv, StateOK, Preserved

LEMMA PromoteStep ==
    ASSUME IInv, NEW w \in Workers, Promote(w)
    PROVE  Preserved
<1> DEFINE key == run[w].key
           promoted == Promotable(key) \/ candidate.promoted = key
           plan == [run[w] EXCEPT !.promote = FALSE,
                       !.event = IF promoted /\ key = "banked_distribution"
                                 THEN None ELSE @]
<1>1. w \in Actors /\ run[w].at = "promote"
  BY DEF Promote, Actors
<1>2. PlanOK(run[w], candidate) /\ candidate # None
  BY <1>1, Held DEF IInv, PlanOK
<1>3. key \in Kinds /\ key \in Events /\ run[w].now \in Times
  BY <1>2 DEF PlanOK, Plans, Events
<1>4. run' = [run EXCEPT ![w] = Onward(plan)]
  BY DEF Promote
<1>5. UNCHANGED <<clock, notice, seeding, evidence>>
  BY DEF Promote
<1>6. /\ candidate' # None /\ CandidateOK(candidate')
      /\ \A e \in Events : /\ RowKept(names[e], names'[e])
                           /\ names'[e] # None => RowOK(names'[e], e)
      /\ names' = [e \in Events |-> names'[e]]
  <2>1. CASE Promotable(key) /\ ~Protected(names[key])
    <3>1. /\ candidate' = PromotedCandidate(key, run[w].now)
          /\ names' = [names EXCEPT ![key] = PromotedRow(names[key])]
      BY <1>1, <1>3, <2>1 DEF Promote, IInv, StateOK
    <3> QED
      BY <1>2, <1>3, <2>1, <3>1, PromotionOK DEF IInv, StateOK, RowKept
  <2>2. CASE Promotable(key) /\ Protected(names[key])
    <3>1. candidate' = PromotedCandidate(key, run[w].now) /\ names' = names
      BY <1>1, <2>2 DEF Promote
    <3> QED
      BY <1>2, <1>3, <2>2, <3>1, PromotionOK DEF IInv, StateOK, RowKept
  <2>3. CASE ~Promotable(key)
    BY <1>1, <1>2, <2>3 DEF Promote, IInv, StateOK, RowKept
  <2> QED
    BY <2>1, <2>2, <2>3
<1>7. RestOK(Onward(plan), candidate')
  <2>1. PlanOK(plan, candidate')
    BY <1>2, <1>6 DEF PlanOK, Plans
  <2> QED
    BY <2>1, OnwardOK
<1>8. Kept
  BY <1>6 DEF Kept
<1>9. RunsOK'
  BY <1>1, <1>4, <1>6, <1>7, RunsStep DEF IInv, ActorOK
<1>10. StateOK'
  BY <1>5, <1>6 DEF IInv, StateOK
<1> QED
  BY <1>8, <1>9, <1>10 DEF Preserved

LEMMA PassStep ==
    ASSUME IInv, NEW w \in Workers, PromotionFails(w) \/ PassEvent(w)
    PROVE  Preserved
<1> DEFINE plan == IF run[w].at = "promote" THEN [run[w] EXCEPT !.promote = FALSE]
                   ELSE [run[w] EXCEPT !.event = None]
<1>1. w \in Actors /\ run[w].at \in {"promote", "event"}
  BY DEF PromotionFails, PassEvent, Actors
<1>2. PlanOK(run[w], candidate)
  BY <1>1, Held DEF IInv
<1>3. run' = [run EXCEPT ![w] = Onward(plan)]
  BY <1>1 DEF PromotionFails, PassEvent, IInv, RunsOK
<1>4. PlanOK(plan, candidate)
  BY <1>2 DEF PlanOK, Plans
<1>5. ActorOK(Onward(plan), candidate, names[EventOf(w)])
  BY <1>4, OnwardOK DEF ActorOK
<1> QED
  BY <1>1, <1>3, <1>5, OnlyRun DEF PromotionFails, PassEvent

LEMMA AskStep ==
    ASSUME IInv, NEW a \in Actors,
           \/ a \in Workers /\ AskAsReconciler(a)
           \/ a \in Webhooks /\ AskAsWebhook(a)
    PROVE  Preserved
<1>1. CASE a \in Workers /\ AskAsReconciler(a)
  <2> DEFINE rest == Onward([run[a] EXCEPT !.event = None])
             r == [at |-> "reread", input |-> run[a].event, rest |-> rest]
  <2>1. run[a].at = "event" /\ PlanOK(run[a], candidate) /\ run[a].event # None
    BY <1>1, Held DEF AskAsReconciler, IInv
  <2>2. run' = [run EXCEPT ![a] = r]
    BY <1>1 DEF AskAsReconciler, IInv, RunsOK
  <2>3. PlanOK([run[a] EXCEPT !.event = None], candidate)
    BY <2>1 DEF PlanOK, Plans
  <2>4. RestOK(rest, candidate) /\ run[a].event \in Revisions
    BY <2>1, <2>3, OnwardOK DEF PlanOK, Plans
  <2>5. ActorOK(r, candidate, names[EventOf(a)])
    <3> HIDE DEF rest
    <3> QED
      BY <2>4 DEF ActorOK, AskingOK
  <2> HIDE DEF r
  <2> QED
    BY <1>1, <2>2, <2>5, OnlyRun DEF AskAsReconciler
<1>2. CASE a \in Webhooks /\ AskAsWebhook(a)
  <2> DEFINE r == [at |-> "reread", input |-> notice.posts, rest |-> Idle]
  <2>1. notice.posts \in Revisions
    BY DEF IInv, StateOK, Notice, Revisions
  <2>2. ActorOK(r, candidate, names[EventOf(a)])
    BY <2>1 DEF ActorOK, AskingOK, RestOK
  <2> HIDE DEF r
  <2> QED
    BY <1>2, <2>2, OnlyRun DEF AskAsWebhook, r
<1> QED
  BY <1>1, <1>2

\* What is read again is the row as it is.
LEMMA RereadStep ==
    ASSUME IInv, NEW a \in Actors, Reread(a)
    PROVE  Preserved
<1> DEFINE row == names[EventOf(a)]
<1>1. run[a].at = "reread" /\ AskingOK(run[a], candidate)
  BY Held DEF Reread, IInv
<1>2. row # None => row \in Row
  BY DEF IInv, StateOK, RowOK, EventOf, Events, Kinds
<1>3. FreshOK(row, row)
  BY <1>2 DEF FreshOK, Row
<1>4. PICK accepted \in BOOLEAN :
        run' = [run EXCEPT ![a] =
            IF row # None /\ row.manual /\ (accepted \/ row.name = None) THEN @.rest
            ELSE [at |-> IF row # None /\ row.name # None /\ ~accepted
                         THEN "mark" ELSE "write",
                  fresh |-> row, accepted |-> accepted, input |-> @.input, rest |-> @.rest]]
  BY DEF Reread
<1> DEFINE step == IF row # None /\ row.name # None /\ ~accepted THEN "mark" ELSE "write"
           writing == [at |-> step, fresh |-> row, accepted |-> accepted,
                       input |-> run[a].input, rest |-> run[a].rest]
           r == IF row # None /\ row.manual /\ (accepted \/ row.name = None)
                THEN run[a].rest ELSE writing
<1>5. run' = [run EXCEPT ![a] = r]
  BY <1>4 DEF IInv, RunsOK
<1>6. WritingOK(writing, candidate, row)
  <2>1. /\ step \in {"write", "mark"}
        /\ step = "mark" => row # None
        /\ step = "write" => accepted \/ row = None \/ row.name = None
    OBVIOUS
  <2> HIDE DEF row, step
  <2> QED
    BY <1>1, <1>3, <1>4, <2>1 DEF WritingOK, AskingOK
<1>7. ActorOK(r, candidate, row)
  BY <1>1, <1>6 DEF ActorOK, AskingOK
<1> HIDE DEF r
<1> QED
  BY <1>5, <1>7, OnlyRun DEF Reread

LEMMA EndsStep ==
    ASSUME IInv, NEW a \in Actors, Ends(a)
    PROVE  Preserved
<1>1. ActorOK(Idle, candidate, names[EventOf(a)])
  BY DEF ActorOK, RestOK
<1> QED
  BY <1>1, OnlyRun DEF Ends

\* A generated name is for its event, is by hand only if it was, and replaces an
\* accepted one only by an accepted one.
LEMMA GeneratedOK ==
    ASSUME NEW e \in Events, NEW fresh, NEW accepted \in BOOLEAN, NEW input \in Revisions,
           fresh # None => fresh \in Row,
           accepted \/ fresh = None \/ fresh.name = None
    PROVE  /\ RowOK(Generated(e, fresh, accepted, input), e)
           /\ RowKept(fresh, Generated(e, fresh, accepted, input))
           /\ Generated(e, fresh, accepted, input) # None
<1> DEFINE manual == fresh # None /\ fresh.manual
           name == IF accepted THEN [kind |-> e, precomputed |-> FALSE] ELSE None
           failures == IF fresh = None THEN {} ELSE fresh.failures
           version == IF fresh = None THEN 1 ELSE fresh.version + 1
           row == Generated(e, fresh, accepted, input)
<1>1. /\ failures \in SUBSET (0..MaxRevisions) /\ version \in Nat
      /\ fresh # None => version = fresh.version + 1
  BY DEF Row
<1>2. manual \in BOOLEAN /\ (fresh # None => manual = fresh.manual)
  BY DEF Row
<1>3. /\ name \in Name \cup {None}
      /\ name # None => name.kind = e
      /\ accepted => name # None
  <2>1. [kind |-> e, precomputed |-> FALSE] \in Name
    BY DEF Name, Events
  <2>2. [kind |-> e, precomputed |-> FALSE].kind = e
    OBVIOUS
  <2> QED
    BY <2>1, <2>2, NoneAssumption
<1>4. row = [manual |-> manual, name |-> name, input |-> input,
             failures |-> failures, version |-> version]
  BY DEF Generated
<1> HIDE DEF manual, name, failures, version, row
<1>5. row \in Row
  BY <1>1, <1>2, <1>3, <1>4 DEF Row, Revisions
<1>6. row.name = name /\ row.version = version /\ row.manual = manual
  BY <1>4
<1>7. row # None
  BY <1>5, NoneAssumption
<1>8. RowOK(row, e)
  BY <1>3, <1>5, <1>6 DEF RowOK
<1>9. RowKept(fresh, row)
  BY <1>1, <1>2, <1>3, <1>6, <1>7 DEF RowKept
<1> QED
  BY <1>7, <1>8, <1>9 DEF row

LEMMA MarkedOK ==
    ASSUME NEW e, NEW row, RowOK(row, e), NEW input \in Revisions
    PROVE  LET next == [row EXCEPT !.failures = @ \cup {input}, !.version = @ + 1]
           IN  RowOK(next, e) /\ RowKept(row, next) /\ next # None
<1> DEFINE next == [row EXCEPT !.failures = @ \cup {input}, !.version = @ + 1]
<1>1. row \in Row
  BY DEF RowOK
<1>2. row.failures \cup {input} \in SUBSET (0..MaxRevisions) /\ row.version + 1 \in Nat
  BY <1>1 DEF Row, Revisions
<1>3. ASSUME NEW failures \in SUBSET (0..MaxRevisions), NEW v \in Nat
      PROVE  LET marked == [row EXCEPT !.failures = failures, !.version = v] IN
             /\ marked \in Row
             /\ marked.name = row.name /\ marked.version = v /\ marked.manual = row.manual
  BY <1>1 DEF Row
<1>4. /\ next \in Row
      /\ next.name = row.name /\ next.version = row.version + 1 /\ next.manual = row.manual
  BY <1>2, <1>3
<1> HIDE DEF next
<1>5. RowOK(next, e) /\ RowKept(row, next) /\ next # None
  BY <1>1, <1>4, NoneAssumption DEF RowOK, RowKept
<1> QED
  BY <1>5 DEF next

\* A step that writes one row and ends what an actor did with it.
LEMMA RowWritten ==
    ASSUME IInv, NEW a \in Actors, NEW row, RestOK(run[a].rest, candidate),
           run' = [run EXCEPT ![a] = @.rest],
           names' = [names EXCEPT ![EventOf(a)] = row],
           RowKept(names[EventOf(a)], row),
           row # None => RowOK(row, EventOf(a)),
           UNCHANGED <<clock, notice, seeding, candidate, evidence>>
    PROVE  Preserved
<1>1. EventOf(a) \in Events
  BY DEF EventOf, Events, Kinds
<1>2. run' = [run EXCEPT ![a] = run[a].rest]
  BY DEF IInv, RunsOK
<1>3. /\ names' = [e \in Events |-> names'[e]]
      /\ \A e \in Events : names'[e] = IF e = EventOf(a) THEN row ELSE names[e]
  BY <1>1 DEF IInv, StateOK
<1>4. Kept
  BY <1>3 DEF Kept, RowKept
<1>5. RunsOK'
  BY <1>2, <1>4, RunsStep DEF IInv, Kept, ActorOK
<1>6. StateOK'
  BY <1>1, <1>3 DEF IInv, StateOK
<1> QED
  BY <1>4, <1>5, <1>6 DEF Preserved

\* A write whose row is no longer the one it was built from is no write.
LEMMA WriteStep ==
    ASSUME IInv, NEW a \in Actors, WriteName(a) \/ MarkFailure(a)
    PROVE  Preserved
<1> DEFINE e == EventOf(a)
           r == run[a]
<1>1. e \in Events /\ r.at \in {"write", "mark"}
  BY DEF WriteName, MarkFailure, EventOf, Events, Kinds
<1>2. WritingOK(r, candidate, names[e])
  BY <1>1, Held DEF IInv
<1>3. RestOK(r.rest, candidate) /\ FreshOK(r.fresh, names[e]) /\ r.input \in Revisions
  BY <1>2 DEF WritingOK
<1>4. names[e] # None => RowOK(names[e], e)
  BY <1>1 DEF IInv, StateOK
<1>5. run' = [run EXCEPT ![a] = @.rest] /\ UNCHANGED <<clock, notice, seeding, candidate, evidence>>
  BY DEF WriteName, MarkFailure
<1>6. CASE ~Unchanged(names[e], r.fresh)
  <2>1. names' = [names EXCEPT ![e] = names[e]]
    BY <1>1, <1>6 DEF WriteName, MarkFailure, IInv, StateOK
  <2>2. RowKept(names[e], names[e])
    BY DEF RowKept
  <2> QED
    BY <1>3, <1>4, <1>5, <2>1, <2>2, RowWritten
<1>7. CASE Unchanged(names[e], r.fresh)
  <2>1. names[e] = r.fresh
    BY <1>3, <1>7 DEF FreshOK, Unchanged
  <2>2. CASE WriteName(a)
    <3> DEFINE row == Generated(e, r.fresh, r.accepted, r.input)
    <3>1. names' = [names EXCEPT ![e] = row]
      BY <1>7, <2>2 DEF WriteName
    <3>2. /\ r.accepted \in BOOLEAN
          /\ r.accepted \/ r.fresh = None \/ r.fresh.name = None
          /\ r.fresh # None => r.fresh \in Row
      BY <1>2, <2>2 DEF WritingOK, WriteName, FreshOK
    <3>3. RowOK(row, e) /\ RowKept(r.fresh, row) /\ row # None
      BY <1>1, <1>3, <3>2, GeneratedOK
    <3> HIDE DEF row
    <3> QED
      BY <1>3, <1>5, <2>1, <3>1, <3>3, RowWritten
  <2>3. CASE MarkFailure(a)
    <3>1. r.fresh # None /\ RowOK(names[e], e)
      BY <1>2, <1>4, <2>1, <2>3 DEF WritingOK, MarkFailure
    <3> DEFINE row == [names[e] EXCEPT !.failures = @ \cup {r.input}, !.version = @ + 1]
    <3>2. names' = [names EXCEPT ![e] = row]
      BY <1>1, <1>7, <2>3, <3>1 DEF MarkFailure, IInv, StateOK
    <3>3. RowOK(row, e) /\ RowKept(names[e], row) /\ row # None
      BY <1>3, <3>1, MarkedOK
    <3> HIDE DEF row
    <3> QED
      BY <1>3, <1>5, <3>2, <3>3, RowWritten
  <2> QED
    BY <2>2, <2>3
<1> QED
  BY <1>6, <1>7

\* A claim is for the candidate's kind, and only what was claimed is stored: an
\* accepted outcome is about the kind that the candidate still has.
LEMMA ClaimOK ==
    ASSUME CandidateOK(candidate), NEW input \in Input, NEW now \in Times,
           input.kind = candidate.kind, candidate.life = "provisional"
    PROVE  LET c == [candidate EXCEPT !.status = "pending", !.input = input, !.updated = now]
           IN  c # None /\ CandidateOK(c) /\ candidate.attempts \in Nat
<1> DEFINE c == [candidate EXCEPT !.status = "pending", !.input = input, !.updated = now]
<1>1. c \in Candidate
  BY DEF CandidateOK, Candidate, Times
<1>2. /\ c.status = "pending" /\ c.input = input /\ c.kind = candidate.kind
      /\ c.life = candidate.life /\ c.promoted = candidate.promoted
  BY DEF CandidateOK, Candidate
<1>3. candidate.attempts \in Nat
  BY DEF CandidateOK, Candidate
<1> HIDE DEF c
<1>4. c # None /\ CandidateOK(c)
  BY <1>1, <1>2, NoneAssumption DEF CandidateOK
<1> QED
  BY <1>3, <1>4 DEF c

LEMMA OutcomeOK ==
    ASSUME CandidateOK(candidate), candidate # None,
           NEW r \in [at : {"generate"}, now : Times, input : Input, attempts : Nat],
           StillClaimed(r),
           NEW outcome \in {"accepted", "settled", "failed", "rate_limited"},
           NEW retry \in Nat
    PROVE  LET c == [candidate EXCEPT !.status = outcome, !.result = r.input.kind,
                        !.attempts = r.attempts + 1, !.updated = r.now, !.retry = retry]
           IN  c # None /\ CandidateOK(c)
<1> DEFINE c == [candidate EXCEPT !.status = outcome, !.result = r.input.kind,
                    !.attempts = r.attempts + 1, !.updated = r.now, !.retry = retry]
<1>1. /\ r.input \in Input /\ r.input.kind \in Kinds
      /\ r.now \in 0..MaxClock /\ r.attempts + 1 \in Nat
  BY DEF Times, Input
<1>2. /\ candidate.status = "pending" /\ candidate.input = r.input
      /\ r.input.kind = candidate.kind
  BY DEF StillClaimed, CandidateOK
<1>3. PICK kind \in Kinds, n \in Nat, t \in 0..MaxClock :
        kind = r.input.kind /\ n = r.attempts + 1 /\ t = r.now
  BY <1>1
<1> DEFINE d == [candidate EXCEPT !.status = outcome, !.result = kind,
                    !.attempts = n, !.updated = t, !.retry = retry]
<1>4. /\ d \in Candidate
      /\ d.status = outcome /\ d.result = kind /\ d.kind = candidate.kind
      /\ d.input = candidate.input
      /\ d.life = candidate.life /\ d.promoted = candidate.promoted
  <2>1. candidate \in Candidate
    BY DEF CandidateOK
  <2>2. d \in Candidate
    BY <2>1 DEF Candidate
  <2>3. d.status = outcome /\ d.result = kind /\ d.kind = candidate.kind
    BY <2>1 DEF Candidate
  <2>4. /\ d.input = candidate.input
        /\ d.life = candidate.life /\ d.promoted = candidate.promoted
    BY <2>1 DEF Candidate
  <2> QED
    BY <2>2, <2>3, <2>4
<1>5. c = d
  BY <1>3
<1> HIDE DEF c, d
<1>6. c # None /\ CandidateOK(c)
  BY <1>2, <1>3, <1>4, <1>5, NoneAssumption DEF CandidateOK
<1> QED
  BY <1>6 DEF c

LEMMA ClaimStep ==
    ASSUME IInv, NEW w \in Workers, Claim(w)
    PROVE  Preserved
<1> DEFINE r == run[w]
<1>1. w \in Actors /\ r.at = "candidate"
  BY DEF Claim, Actors
<1>2. /\ candidate # None /\ CandidateOK(candidate)
      /\ r.input \in Input /\ r.now \in Times
  BY <1>1, Held DEF IInv, StateOK, PlanOK, Plans
<1>3. CASE ~Claimable(r.input.kind, r.now)
  <2>1. ActorOK(Idle, candidate, names[EventOf(w)])
    BY DEF ActorOK, RestOK
  <2> QED
    BY <1>1, <1>3, <2>1, OnlyRun DEF Claim
<1>4. CASE Claimable(r.input.kind, r.now)
  <2> DEFINE held == [at |-> "generate", now |-> r.now, input |-> r.input,
                      attempts |-> candidate.attempts]
  <2>1. /\ candidate' = [candidate EXCEPT !.status = "pending",
                            !.input = r.input, !.updated = r.now]
        /\ run' = [run EXCEPT ![w] = held]
    BY <1>4 DEF Claim
  <2>2. UNCHANGED <<clock, notice, seeding, evidence, names>>
    BY DEF Claim
  <2>3. r.input.kind = candidate.kind /\ candidate.life = "provisional"
    BY <1>4 DEF Claimable
  <2>4. candidate' # None /\ CandidateOK(candidate') /\ candidate.attempts \in Nat
    BY <1>2, <2>1, <2>3, ClaimOK
  <2>5. ActorOK(held, candidate', names'[EventOf(w)])
    BY <1>2, <2>4 DEF ActorOK, GeneratingOK
  <2>6. Kept
    BY <2>2, NamesStay
  <2>7. RunsOK'
    <3> HIDE DEF held
    <3> QED
      BY <1>1, <2>1, <2>4, <2>5, <2>6, RunsStep DEF IInv, Kept
  <2>8. StateOK'
    BY <2>2, <2>4 DEF IInv, StateOK
  <2> QED
    BY <2>6, <2>7, <2>8 DEF Preserved
<1> QED
  BY <1>3, <1>4

LEMMA ResultStep ==
    ASSUME IInv, NEW w \in Workers, WriteResult(w)
    PROVE  Preserved
<1> DEFINE r == run[w]
<1>1. w \in Actors /\ GeneratingOK(r, candidate)
  BY Held DEF WriteResult, Actors, IInv
<1>2. candidate # None /\ CandidateOK(candidate)
  BY <1>1 DEF GeneratingOK, IInv, StateOK
<1>3. candidate' # None /\ CandidateOK(candidate')
  <2>1. CASE ~StillClaimed(r)
    BY <1>2, <2>1 DEF WriteResult
  <2>2. CASE StillClaimed(r)
    <3>1. PICK outcome \in {"accepted", "settled", "failed", "rate_limited"} :
            candidate' = [candidate EXCEPT !.status = outcome, !.result = r.input.kind,
                             !.attempts = r.attempts + 1, !.updated = r.now,
                             !.retry = IF outcome = "rate_limited"
                                       THEN r.now + RetryDelay ELSE 0]
      BY <2>2 DEF WriteResult
    <3>2. (IF outcome = "rate_limited" THEN r.now + RetryDelay ELSE 0) \in Nat
      BY <1>1 DEF GeneratingOK, Times, RetryDelay
    <3> QED
      BY <1>1, <1>2, <2>2, <3>1, <3>2, OutcomeOK DEF GeneratingOK
  <2> QED
    BY <2>1, <2>2
<1>4. /\ run' = [run EXCEPT ![w] = Idle]
      /\ UNCHANGED <<clock, notice, seeding, evidence, names>>
  BY DEF WriteResult
<1>5. ActorOK(Idle, candidate', names'[EventOf(w)])
  BY DEF ActorOK, RestOK
<1>6. Kept
  BY <1>4, NamesStay
<1>7. RunsOK'
  BY <1>1, <1>3, <1>4, <1>5, <1>6, RunsStep DEF IInv, Kept
<1>8. StateOK'
  BY <1>3, <1>4 DEF IInv, StateOK
<1> QED
  BY <1>6, <1>7, <1>8 DEF Preserved

-----------------------------------------------------------------------------
(* The outcomes of a candidate.  Two runs never have the same time, and    *)
(* the clock is past it by the time of their next step; so a claim that    *)
(* bears the time of a run is the run's own.                               *)

\* What an actor holds goes back to a run that began at t.
Since(r, t) ==
    \/ r.at \in {"list", "promote", "event", "candidate", "generate"} /\ r.now = t
    \/ r.at = "seed" /\ (r.reading.now = t \/ r.plan.now = t)
    \/ r.at \in {"reread", "write", "mark"} /\ r.rest # Idle /\ r.rest.now = t

TimesOK ==
    /\ \A w \in Workers, t \in Times : Since(run[w], t) => t < clock
    /\ \A v, w \in Workers, t \in Times :
          Since(run[v], t) /\ Since(run[w], t) => v = w

ClaimsOK ==
    \A w \in Workers :
        /\ run[w].at = "generate"
        /\ candidate.status = "pending" /\ candidate.updated = run[w].now
        => candidate.attempts = run[w].attempts

CountInv == IInv /\ TimesOK /\ ClaimsOK

LEMMA IdleSince == \A t : ~Since(Idle, t)
BY DEF Since, Idle

LEMMA OnwardSince ==
    ASSUME NEW p \in Plans, NEW t, Since(Onward(p), t)
    PROVE  p.now = t
<1>1. CASE p.promote
  BY <1>1 DEF Onward, Since, Plans
<1>2. CASE ~p.promote /\ p.event # None
  BY <1>2 DEF Onward, Since, Plans
<1>3. CASE ~p.promote /\ p.event = None /\ p.input # None
  BY <1>3 DEF Onward, Since, Plans
<1>4. CASE ~p.promote /\ p.event = None /\ p.input = None
  BY <1>4, IdleSince DEF Onward
<1> QED
  BY <1>1, <1>2, <1>3, <1>4

LEMMA OnwardClaimsNothing ==
    ASSUME NEW p \in Plans
    PROVE  Onward(p).at # "generate"
<1>1. CASE p.promote
  BY <1>1 DEF Onward, Plans
<1>2. CASE ~p.promote /\ p.event # None
  BY <1>2 DEF Onward, Plans
<1>3. CASE ~p.promote /\ p.event = None /\ p.input # None
  BY <1>3 DEF Onward, Plans
<1>4. CASE ~p.promote /\ p.event = None /\ p.input = None
  BY <1>4 DEF Onward, Idle
<1> QED
  BY <1>1, <1>2, <1>3, <1>4

LEMMA RestSince ==
    ASSUME NEW p, NEW c, NEW t, RestOK(p, c), Since(p, t)
    PROVE  p # Idle /\ p.now = t
<1>1. p # Idle
  BY IdleSince
<1>2. p.at \in {"promote", "event", "candidate"}
  BY <1>1 DEF RestOK
<1> QED
  BY <1>1, <1>2 DEF Since

\* A step of one run goes on with the time the run has, and claims nothing.
GoesOn(w) ==
    /\ \A v \in Workers \ {w} : run'[v] = run[v]
    /\ \A t \in Times : Since(run'[w], t) => Since(run[w], t)
    /\ run'[w].at # "generate"

LEMMA PlanGoesOn ==
    ASSUME IInv, NEW w \in Workers, NEW p \in Plans, run' = [run EXCEPT ![w] = Onward(p)],
           Since(run[w], p.now)
    PROVE  GoesOn(w)
<1>1. w \in Actors /\ run'[w] = Onward(p) /\ \A v \in Workers \ {w} : run'[v] = run[v]
  BY DEF IInv, RunsOK, Actors
<1> QED
  BY <1>1, OnwardSince, OnwardClaimsNothing DEF GoesOn

\* The steps that read, seed and promote.
LEMMA ReconcilerGoesOn ==
    ASSUME IInv, NEW w \in Workers,
           List(w) \/ Reseed(w) \/ Promote(w) \/ PromotionFails(w) \/ PassEvent(w)
    PROVE  GoesOn(w)
<1> w \in Actors
  BY DEF Actors
<1>1. CASE List(w)
  <2>1. run[w] \in Readings
    BY <1>1 DEF List, IInv, RunsOK, ActorOK, RestOK, SeedingOK, AskingOK, WritingOK,
         GeneratingOK, PlanOK, Idle
  <2>2. PICK listed \in {candidate, None} :
          run' = [run EXCEPT ![w] =
              IF SeedMissing(run[w], listed)
              THEN [at |-> "seed", reading |-> run[w], plan |-> Plan(run[w], listed)]
              ELSE Onward(Plan(run[w], listed))]
    BY <1>1 DEF List, IInv, RunsOK
  <2>3. Plan(run[w], listed) \in Plans /\ Plan(run[w], listed).now = run[w].now
    <3>1. Plan(run[w], listed) \in Plans
      BY <2>1, PlanMade DEF IInv, StateOK, CandidateOK, PlanOK
    <3> QED
      BY <3>1 DEF Plan
  <2>4. Since(run[w], run[w].now)
    BY <2>1 DEF Readings, Since
  <2>5. CASE SeedMissing(run[w], listed)
    <3> DEFINE r == [at |-> "seed", reading |-> run[w], plan |-> Plan(run[w], listed)]
    <3>1. run'[w] = r /\ \A v \in Workers \ {w} : run'[v] = run[v]
      BY <2>2, <2>5 DEF IInv, RunsOK, Actors
    <3>2. \A t \in Times : Since(r, t) => t = run[w].now
      BY <2>3 DEF Since
    <3> QED
      BY <2>4, <3>1, <3>2 DEF GoesOn
  <2> QED
    BY <2>2, <2>3, <2>4, <2>5, PlanGoesOn
<1>2. CASE Reseed(w)
  <2>1. SeedingOK(run[w], candidate)
    BY <1>2 DEF Reseed, IInv, RunsOK, ActorOK, RestOK, PlanOK, Readings, AskingOK,
         WritingOK, GeneratingOK, Idle
  <2>2. /\ run[w].at = "seed" /\ run[w].reading \in Readings /\ run[w].plan \in Plans
        /\ run[w].reading.notice \in Notice
    BY <2>1 DEF SeedingOK, Readings
  <2>3. Since(run[w], run[w].reading.now) /\ Since(run[w], run[w].plan.now)
    BY <2>2 DEF Since
  <2>4. CASE run' = [run EXCEPT ![w] = Onward(run[w].plan)]
    BY <2>2, <2>3, <2>4, PlanGoesOn
  <2>5. CASE /\ candidate' = Seeded(run[w].reading.notice)
             /\ run' = [run EXCEPT ![w] = Onward(Plan(run[w].reading, candidate'))]
    <3>1. candidate' \in Candidate
      BY <2>2, <2>5, SeededOK DEF IInv, CandidateOK
    <3>2. PlanOK(Plan(run[w].reading, candidate'), candidate')
      BY <2>2, <3>1, PlanMade
    <3>3. /\ Plan(run[w].reading, candidate') \in Plans
          /\ Plan(run[w].reading, candidate').now = run[w].reading.now
      BY <3>2 DEF PlanOK, Plan
    <3> QED
      BY <2>3, <2>5, <3>3, PlanGoesOn
  <2> QED
    BY <1>2, <2>4, <2>5 DEF Reseed, IInv, RunsOK
<1>3. CASE Promote(w) \/ PromotionFails(w) \/ PassEvent(w)
  <2>1. run[w].at \in {"promote", "event"}
    BY <1>3 DEF Promote, PromotionFails, PassEvent
  <2>2. run[w] \in Plans
    BY <2>1, Held DEF IInv, PlanOK
  <2>3. Since(run[w], run[w].now)
    BY <2>1 DEF Since
  <2>4. PICK promote \in BOOLEAN, event \in Revisions \cup {None} :
          run' = [run EXCEPT ![w] = Onward([run[w] EXCEPT !.promote = promote, !.event = event])]
    <3>1. CASE Promote(w)
      <4> DEFINE key == run[w].key
                 event == IF (Promotable(key) \/ candidate.promoted = key)
                               /\ key = "banked_distribution"
                          THEN None ELSE run[w].event
      <4>1. run' = [run EXCEPT ![w] = Onward([run[w] EXCEPT !.promote = FALSE, !.event = event])]
        BY <3>1 DEF Promote, IInv, RunsOK
      <4>2. event \in Revisions \cup {None}
        BY <2>2 DEF Plans
      <4> QED
        BY <4>1, <4>2
    <3>2. CASE PromotionFails(w)
      <4>1. [run[w] EXCEPT !.promote = FALSE]
              = [run[w] EXCEPT !.promote = FALSE, !.event = run[w].event]
        BY <2>2 DEF Plans
      <4> QED
        BY <2>2, <3>2, <4>1 DEF PromotionFails, IInv, RunsOK, Plans
    <3>3. CASE PassEvent(w)
      <4>1. [run[w] EXCEPT !.event = None]
              = [run[w] EXCEPT !.promote = run[w].promote, !.event = None]
        BY <2>2 DEF Plans
      <4> QED
        BY <2>2, <3>3, <4>1 DEF PassEvent, IInv, RunsOK, Plans
    <3> QED
      BY <1>3, <3>1, <3>2, <3>3
  <2>5. PICK p : p = [run[w] EXCEPT !.promote = promote, !.event = event]
    OBVIOUS
  <2>6. p \in Plans /\ p.now = run[w].now
    BY <2>2, <2>4, <2>5 DEF Plans
  <2> QED
    BY <2>3, <2>4, <2>5, <2>6, PlanGoesOn
<1> QED
  BY <1>1, <1>2, <1>3

\* The steps that name an event, and the end of a run, keep the time, too.
LEMMA NamingGoesOn ==
    ASSUME IInv, NEW w \in Workers,
           AskAsReconciler(w) \/ Reread(w) \/ WriteName(w) \/ MarkFailure(w) \/ Ends(w)
    PROVE  GoesOn(w)
<1> w \in Actors
  BY DEF Actors
<1>1. SUFFICES \E r : /\ run' = [run EXCEPT ![w] = r] /\ r.at # "generate"
                      /\ \A t \in Times : Since(r, t) => Since(run[w], t)
  BY DEF IInv, RunsOK, GoesOn, Actors
<1>2. CASE AskAsReconciler(w)
  <2>1. run[w].at = "event" /\ run[w] \in Plans
    BY <1>2, Held DEF AskAsReconciler, IInv, PlanOK
  <2>2. PICK p : p = [run[w] EXCEPT !.event = None]
    OBVIOUS
  <2>3. p \in Plans /\ p.now = run[w].now
    BY <2>1, <2>2 DEF Plans
  <2> DEFINE r == [at |-> "reread", input |-> run[w].event, rest |-> Onward(p)]
  <2>4. run' = [run EXCEPT ![w] = r]
    BY <1>2, <2>2 DEF AskAsReconciler, IInv, RunsOK
  <2>5. \A t \in Times : Since(r, t) => Since(run[w], t)
    <3> SUFFICES ASSUME NEW t \in Times, Since(r, t) PROVE Since(run[w], t)
      OBVIOUS
    <3>1. Onward(p) # Idle /\ Onward(p).now = t
      BY DEF Since
    <3>2. Onward(p).now = p.now
      BY <2>3, <3>1 DEF Onward, Plans
    <3> QED
      BY <2>1, <2>3, <3>1, <3>2 DEF Since
  <2> QED
    BY <2>4, <2>5
<1>3. CASE Ends(w)
  BY <1>3, IdleSince DEF Ends, Idle
<1>4. CASE Reread(w) \/ WriteName(w) \/ MarkFailure(w)
  <2>1. /\ run[w].at \in {"reread", "write", "mark"}
        /\ RestOK(run[w].rest, candidate)
    BY <1>4, Held DEF Reread, WriteName, MarkFailure, IInv, AskingOK, WritingOK
  <2>2. \A t \in Times : Since(run[w].rest, t) => Since(run[w], t)
    BY <2>1, RestSince DEF Since
  <2>3. run[w].rest.at # "generate"
    BY <2>1 DEF RestOK, Idle
  <2>4. CASE run' = [run EXCEPT ![w] = run[w].rest]
    BY <2>2, <2>3, <2>4
  <2>5. CASE \E at \in {"write", "mark"}, accepted \in BOOLEAN :
               run' = [run EXCEPT ![w] =
                  [at |-> at, fresh |-> names[EventOf(w)], accepted |-> accepted,
                   input |-> run[w].input, rest |-> run[w].rest]]
    <3>1. PICK at \in {"write", "mark"}, accepted \in BOOLEAN :
               run' = [run EXCEPT ![w] =
                  [at |-> at, fresh |-> names[EventOf(w)], accepted |-> accepted,
                   input |-> run[w].input, rest |-> run[w].rest]]
      BY <2>5
    <3> DEFINE r == [at |-> at, fresh |-> names[EventOf(w)], accepted |-> accepted,
                     input |-> run[w].input, rest |-> run[w].rest]
    <3>2. \A t \in Times : Since(r, t) => Since(run[w], t)
      BY <2>1 DEF Since
    <3> QED
      BY <3>1, <3>2
  <2>6. Reread(w) => \/ run' = [run EXCEPT ![w] = run[w].rest]
                     \/ \E at \in {"write", "mark"}, accepted \in BOOLEAN :
                          run' = [run EXCEPT ![w] =
                             [at |-> at, fresh |-> names[EventOf(w)], accepted |-> accepted,
                              input |-> run[w].input, rest |-> run[w].rest]]
    <3> SUFFICES ASSUME Reread(w), run' # [run EXCEPT ![w] = run[w].rest]
                 PROVE  \E at \in {"write", "mark"}, accepted \in BOOLEAN :
                          run' = [run EXCEPT ![w] =
                             [at |-> at, fresh |-> names[EventOf(w)], accepted |-> accepted,
                              input |-> run[w].input, rest |-> run[w].rest]]
      OBVIOUS
    <3> DEFINE row == names[EventOf(w)]
               at(accepted) == IF row # None /\ row.name # None /\ ~accepted
                               THEN "mark" ELSE "write"
    <3>1. PICK accepted \in BOOLEAN :
            run' = [run EXCEPT ![w] =
                IF row # None /\ row.manual /\ (accepted \/ row.name = None) THEN run[w].rest
                ELSE [at |-> at(accepted), fresh |-> row, accepted |-> accepted,
                      input |-> run[w].input, rest |-> run[w].rest]]
      BY DEF Reread, IInv, RunsOK
    <3>2. run' = [run EXCEPT ![w] =
                [at |-> at(accepted), fresh |-> row, accepted |-> accepted,
                 input |-> run[w].input, rest |-> run[w].rest]]
      BY <3>1
    <3>3. at(accepted) \in {"write", "mark"}
      OBVIOUS
    <3> HIDE DEF at
    <3> QED
      BY <3>2, <3>3
  <2>7. WriteName(w) \/ MarkFailure(w) => run' = [run EXCEPT ![w] = run[w].rest]
    BY DEF WriteName, MarkFailure, IInv, RunsOK
  <2> QED
    BY <1>4, <2>4, <2>5, <2>6, <2>7
<1> QED
  BY <1>2, <1>3, <1>4

\* A run that begins has a time of its own.
LEMMA BeginTimes ==
    ASSUME IInv, TimesOK, NEW w \in Workers, Begin(w)
    PROVE  TimesOK'
<1>1. /\ clock \in Int /\ clock' \in Int /\ clock' > clock
      /\ \A v \in Workers \ {w} : run'[v] = run[v]
      /\ \A t \in Times : Since(run'[w], t) => t = clock' - 1
  <2>1. w \in Actors
    BY DEF Actors
  <2>2. clock \in Int /\ clock' \in Int /\ clock' > clock
    BY NamesAssumption DEF Begin, StalePending, IInv, StateOK, Times
  <2>3. run'[w].at = "list" /\ run'[w].now = clock' - 1
    BY <2>1 DEF Begin, IInv, RunsOK
  <2>4. \A v \in Workers \ {w} : run'[v] = run[v]
    BY <2>1 DEF Begin, IInv, RunsOK, Actors
  <2> QED
    BY <2>2, <2>3, <2>4 DEF Since
<1>2. ASSUME NEW v \in Workers, NEW t \in Times, Since(run'[v], t) PROVE t < clock'
  BY <1>1, <1>2 DEF TimesOK, Times
<1>3. ASSUME NEW u \in Workers, NEW v \in Workers, NEW t \in Times,
             Since(run'[u], t), Since(run'[v], t)
      PROVE  u = v
  <2>1. CASE u # w /\ v # w
    BY <1>1, <1>3, <2>1 DEF TimesOK
  <2>2. ASSUME NEW x \in Workers \ {w}, Since(run'[x], t) PROVE t # clock' - 1
    <3>1. t < clock
      BY <1>1, <2>2 DEF TimesOK
    <3> QED
      BY <1>1, <3>1 DEF Times
  <2> QED
    BY <1>1, <1>3, <2>1, <2>2
<1> QED
  BY <1>2, <1>3 DEF TimesOK, Times

LEMMA TimesKept ==
    ASSUME TimesOK, UNCHANGED clock,
           \A w \in Workers, t \in Times : Since(run'[w], t) => Since(run[w], t)
    PROVE  TimesOK'
BY DEF TimesOK, Times

\* What a step does to the candidate.
LEMMA SeedTimes ==
    ASSUME StateOK, NEW seed \in Notice, candidate' = Seeded(seed)
    PROVE  \/ candidate = None \/ candidate'.status = "unprocessed"
           \/ candidate'.updated = clock /\ candidate'.status = candidate.status
<1>1. CASE candidate = None \/ (candidate.life = "provisional" /\ candidate.kind # seed.kind)
  BY <1>1 DEF Seeded, Fresh
<1>2. CASE ~(candidate = None \/ (candidate.life = "provisional" /\ candidate.kind # seed.kind))
  <2>1. candidate \in Candidate
    BY <1>2 DEF StateOK, CandidateOK
  <2> QED
    BY <1>2, <2>1 DEF Seeded, Candidate
<1> QED
  BY <1>1, <1>2

\* The steps that claim nothing, and what they leave of a claim: it is as it
\* was, or has the time of a seed.
NoClaim ==
    /\ \A w \in Workers, t \in Times : Since(run'[w], t) => Since(run[w], t)
    /\ \A w \in Workers : run'[w].at = "generate" => run'[w] = run[w]
    /\ UNCHANGED clock
    /\ candidate # None =>
          \/ candidate' = candidate
          \/ candidate'.updated = clock /\ candidate'.status = candidate.status
          \/ candidate'.status \in {"unprocessed", "accepted"}

Uncounted ==
    candidate # None =>
        candidate'.status \in {candidate.status, "unprocessed", "pending"}

LEMMA SeedingStep ==
    ASSUME IInv,
           \/ \E kind \in Kinds, more \in {0, 1} : NoticeStored(kind, notice.posts + more)
           \/ SeedWritten \/ SeedFails \/ ExecutionStored
           \/ \E e \in Events : ManualOverride(e)
           \/ \E h \in Webhooks : AskAsWebhook(h) \/ Reread(h) \/ WriteName(h)
                                  \/ MarkFailure(h) \/ Ends(h)
    PROVE  NoClaim /\ Uncounted
<1>1. \A w \in Workers : run'[w] = run[w]
  <2>1. CASE \E h \in Webhooks : AskAsWebhook(h) \/ Reread(h) \/ WriteName(h)
                                  \/ MarkFailure(h) \/ Ends(h)
    <3>1. PICK h \in Webhooks : AskAsWebhook(h) \/ Reread(h) \/ WriteName(h)
                                  \/ MarkFailure(h) \/ Ends(h)
      BY <2>1
    <3>2. \A w \in Workers : w # h
      BY NamesAssumption
    <3>3. \A w \in Workers : w \in Actors
      BY DEF Actors
    <3> QED
      BY <3>1, <3>2, <3>3 DEF AskAsWebhook, Reread, WriteName, MarkFailure, Ends, IInv, RunsOK
  <2>2. CASE UNCHANGED run
    BY <2>2
  <2> QED
    BY <2>1, <2>2 DEF NoticeStored, SeedWritten, SeedFails, ExecutionStored, ManualOverride
<1>2. UNCHANGED clock
  BY DEF NoticeStored, SeedWritten, SeedFails, ExecutionStored, ManualOverride,
     AskAsWebhook, Reread, WriteName, MarkFailure, Ends
<1>3. CASE SeedWritten
  <2>1. seeding \in Notice /\ candidate' = Seeded(seeding)
    BY <1>3 DEF SeedWritten, IInv, StateOK
  <2> QED
    BY <1>1, <1>2, <2>1, SeedTimes DEF IInv, NoClaim, Uncounted
<1>4. CASE ~SeedWritten
  <2>1. candidate' = candidate
    BY <1>4 DEF NoticeStored, SeedFails, ExecutionStored, ManualOverride,
       AskAsWebhook, Reread, WriteName, MarkFailure, Ends
  <2> QED
    BY <1>1, <1>2, <2>1 DEF NoClaim, Uncounted
<1> QED
  BY <1>3, <1>4

LEMMA ReconcilerStep ==
    ASSUME IInv, NEW w \in Workers,
           \/ List(w) \/ Reseed(w) \/ Promote(w) \/ PromotionFails(w) \/ PassEvent(w)
           \/ AskAsReconciler(w) \/ Reread(w) \/ WriteName(w) \/ MarkFailure(w) \/ Ends(w)
    PROVE  NoClaim /\ Uncounted
<1>1. GoesOn(w)
  BY ReconcilerGoesOn, NamingGoesOn
<1>2. UNCHANGED clock
  BY DEF List, Reseed, Promote, PromotionFails, PassEvent, AskAsReconciler, Reread,
     WriteName, MarkFailure, Ends
<1>3. CASE Reseed(w) /\ candidate' # candidate
  <2>1. w \in Actors /\ run[w].at = "seed"
    BY <1>3 DEF Reseed, Actors
  <2>2. SeedingOK(run[w], candidate)
    BY <2>1 DEF IInv, RunsOK, ActorOK, RestOK, Readings, AskingOK, WritingOK,
         GeneratingOK, Idle
  <2>3. run[w].reading.notice \in Notice
    BY <2>2 DEF SeedingOK, Readings
  <2>4. candidate' = Seeded(run[w].reading.notice)
    BY <1>3 DEF Reseed
  <2>5. \/ candidate = None \/ candidate'.status = "unprocessed"
        \/ candidate'.updated = clock /\ candidate'.status = candidate.status
    BY <2>3, <2>4, SeedTimes DEF IInv
  <2> QED
    BY <1>1, <1>2, <2>5 DEF GoesOn, NoClaim, Uncounted
<1>4. CASE Promote(w) /\ candidate' # candidate
  <2>1. /\ candidate.status = "accepted"
        /\ candidate' = PromotedCandidate(run[w].key, run[w].now)
    BY <1>4 DEF Promote, Promotable
  <2>2. candidate # None => candidate \in Candidate
    BY DEF IInv, StateOK, CandidateOK
  <2>3. candidate # None => candidate'.status = candidate.status
    BY <2>1, <2>2 DEF PromotedCandidate, Candidate
  <2> QED
    BY <1>1, <1>2, <2>1, <2>3 DEF GoesOn, NoClaim, Uncounted
<1>5. CASE candidate' = candidate
  BY <1>1, <1>2, <1>5 DEF GoesOn, NoClaim, Uncounted
<1>6. Reseed(w) \/ Promote(w) \/ candidate' = candidate
  BY DEF List, PromotionFails, PassEvent, AskAsReconciler, Reread, WriteName,
     MarkFailure, Ends
<1> QED
  BY <1>3, <1>4, <1>5, <1>6

LEMMA NoClaimCounts ==
    ASSUME CountInv, NoClaim
    PROVE  TimesOK' /\ ClaimsOK'
<1>1. TimesOK'
  BY TimesKept DEF CountInv, NoClaim
<1>2. ClaimsOK'
  <2> SUFFICES ASSUME NEW w \in Workers, run'[w].at = "generate",
                      candidate'.status = "pending", candidate'.updated = run'[w].now
               PROVE  candidate'.attempts = run'[w].attempts
    BY DEF ClaimsOK
  <2>1. run'[w] = run[w]
    BY DEF NoClaim
  <2>2. GeneratingOK(run[w], candidate)
    BY <2>1, Held DEF CountInv, IInv, Actors
  <2>3. candidate # None /\ run[w].now \in Times
    BY <2>2 DEF GeneratingOK
  <2>4. run[w].now < clock
    BY <2>1, <2>3 DEF CountInv, TimesOK, Since
  <2>5. clock \in Int /\ run[w].now \in Int
    BY <2>3 DEF CountInv, IInv, StateOK, Times
  <2>6. candidate' = candidate
    BY <2>1, <2>3, <2>4, <2>5 DEF NoClaim
  <2> QED
    BY <2>1, <2>6 DEF CountInv, ClaimsOK
<1> QED
  BY <1>1, <1>2

\* A claim has the time of its run, and no other run has.
LEMMA ClaimCounts ==
    ASSUME CountInv, NEW w \in Workers, Claim(w)
    PROVE  TimesOK' /\ ClaimsOK' /\ Uncounted
<1> DEFINE r == run[w]
<1>1. w \in Actors /\ r.at = "candidate" /\ UNCHANGED clock
  BY DEF Claim, Actors
<1>2. r.now \in Times /\ Since(r, r.now) /\ candidate # None /\ candidate \in Candidate
  BY <1>1, Held DEF CountInv, IInv, StateOK, CandidateOK, PlanOK, Plans, Since
<1>3. CASE ~Claimable(r.input.kind, r.now)
  <2>1. run' = [run EXCEPT ![w] = Idle] /\ candidate' = candidate
    BY <1>3 DEF Claim
  <2>2. run'[w] = Idle /\ \A v \in Workers \ {w} : run'[v] = run[v]
    BY <1>1, <2>1 DEF CountInv, IInv, RunsOK, Actors
  <2>3. \A v \in Workers : run'[v].at = "generate" => run'[v] = run[v]
    BY <2>2 DEF Idle
  <2>4. \A v \in Workers, t \in Times : Since(run'[v], t) => Since(run[v], t)
    BY <2>2, IdleSince
  <2>5. NoClaim
    BY <1>1, <2>1, <2>3, <2>4 DEF NoClaim
  <2> QED
    BY <2>1, <2>5, NoClaimCounts DEF Uncounted
<1>4. CASE Claimable(r.input.kind, r.now)
  <2>1. /\ candidate' = [candidate EXCEPT !.status = "pending",
                            !.input = r.input, !.updated = r.now]
        /\ run' = [run EXCEPT ![w] = [at |-> "generate", now |-> r.now,
                      input |-> r.input, attempts |-> candidate.attempts]]
    BY <1>4 DEF Claim
  <2>2. /\ candidate'.status = "pending" /\ candidate'.updated = r.now
        /\ candidate'.attempts = candidate.attempts
    BY <1>2, <2>1 DEF Candidate
  <2>3. /\ run'[w].at = "generate" /\ run'[w].now = r.now
        /\ run'[w].attempts = candidate.attempts
        /\ \A v \in Workers \ {w} : run'[v] = run[v]
    BY <1>1, <2>1 DEF CountInv, IInv, RunsOK, Actors
  <2>4. TimesOK'
    <3>1. \A v \in Workers, t \in Times : Since(run'[v], t) => Since(run[v], t)
      BY <1>1, <2>3 DEF Since
    <3> QED
      BY <1>1, <3>1, TimesKept DEF CountInv
  <2>5. ClaimsOK'
    <3> SUFFICES ASSUME NEW v \in Workers \ {w}, run'[v].at = "generate"
                 PROVE  candidate'.updated # run'[v].now
      BY <2>2, <2>3 DEF ClaimsOK
    <3>1. run'[v] = run[v]
      BY <2>3
    <3>2. run[v].now # r.now
      BY <1>2, <3>1 DEF CountInv, TimesOK, Since
    <3> QED
      BY <2>2, <3>1, <3>2
  <2> QED
    BY <2>2, <2>4, <2>5 DEF Uncounted
<1> QED
  BY <1>3, <1>4

\* An outcome is stored over the claim that it was generated for.
LEMMA ResultCounts ==
    ASSUME CountInv, NEW w \in Workers, WriteResult(w)
    PROVE  /\ TimesOK' /\ ClaimsOK'
           /\ candidate # None /\ candidate' # candidate =>
                 /\ candidate.status = "pending"
                 /\ candidate'.attempts = candidate.attempts + 1
<1> DEFINE r == run[w]
<1>1. w \in Actors /\ r.at = "generate" /\ UNCHANGED clock /\ run' = [run EXCEPT ![w] = Idle]
  BY DEF WriteResult, Actors
<1>2. GeneratingOK(r, candidate) /\ candidate # None /\ candidate \in Candidate
  BY <1>1, Held DEF CountInv, IInv, StateOK, CandidateOK, GeneratingOK
<1>3. run'[w] = Idle /\ \A v \in Workers \ {w} : run'[v] = run[v]
  BY <1>1 DEF CountInv, IInv, RunsOK, Actors
<1>4. /\ \A v \in Workers : run'[v].at = "generate" => run'[v] = run[v]
      /\ \A v \in Workers, t \in Times : Since(run'[v], t) => Since(run[v], t)
  BY <1>3, IdleSince DEF Idle
<1>5. CASE candidate' = candidate
  <2>1. NoClaim
    BY <1>1, <1>4, <1>5 DEF NoClaim
  <2> QED
    BY <1>5, <2>1, NoClaimCounts
<1>6. CASE candidate' # candidate
  <2>1. PICK outcome \in {"accepted", "settled", "failed", "rate_limited"} :
          candidate' = IF StillClaimed(r)
                       THEN [candidate EXCEPT !.status = outcome,
                               !.result = r.input.kind,
                               !.attempts = r.attempts + 1, !.updated = r.now,
                               !.retry = IF outcome = "rate_limited"
                                         THEN r.now + RetryDelay ELSE 0]
                       ELSE candidate
    BY DEF WriteResult
  <2>2. StillClaimed(r)
    BY <1>6, <2>1
  <2>3. candidate'.status = outcome /\ candidate'.attempts = r.attempts + 1
    BY <1>2, <2>1, <2>2 DEF Candidate
  <2>4. candidate.status = "pending" /\ candidate.attempts = r.attempts
    BY <1>1, <2>2 DEF StillClaimed, CountInv, ClaimsOK
  <2>5. TimesOK'
    BY <1>1, <1>4, TimesKept DEF CountInv
  <2>6. ClaimsOK'
    BY <2>3 DEF ClaimsOK
  <2> QED
    BY <2>3, <2>4, <2>5, <2>6
<1> QED
  BY <1>5, <1>6

Counted ==
    candidate # None
    /\ candidate'.status \notin {candidate.status, "unprocessed", "pending"} =>
          /\ candidate.status = "pending"
          /\ candidate'.attempts = candidate.attempts + 1

LEMMA CountStep ==
    ASSUME CountInv, [NamesNext]_vars
    PROVE  TimesOK' /\ ClaimsOK' /\ Counted
<1>1. Uncounted => Counted
  BY DEF Uncounted, Counted
<1>2. CASE UNCHANGED vars
  <2>1. NoClaim /\ Uncounted
    BY <1>2 DEF vars, NoClaim, Uncounted
  <2> QED
    BY <1>1, <2>1, NoClaimCounts
<1>3. CASE NamesNext
  <2>1. CASE \/ \E kind \in Kinds, more \in {0, 1} : NoticeStored(kind, notice.posts + more)
             \/ SeedWritten \/ SeedFails \/ ExecutionStored
             \/ \E e \in Events : ManualOverride(e)
             \/ \E h \in Webhooks : AskAsWebhook(h) \/ Reread(h) \/ WriteName(h)
                                    \/ MarkFailure(h) \/ Ends(h)
    BY <1>1, <2>1, SeedingStep, NoClaimCounts DEF CountInv
  <2>2. CASE \E w \in Workers :
                \/ List(w) \/ Reseed(w) \/ Promote(w) \/ PromotionFails(w) \/ PassEvent(w)
                \/ AskAsReconciler(w) \/ Reread(w) \/ WriteName(w) \/ MarkFailure(w) \/ Ends(w)
    BY <1>1, <2>2, ReconcilerStep, NoClaimCounts DEF CountInv
  <2>3. ASSUME NEW w \in Workers, Begin(w)
        PROVE  TimesOK' /\ ClaimsOK' /\ Counted
    <3>1. candidate' = candidate /\ \A v \in Workers : run'[v].at = "generate" => run'[v] = run[v]
      <4>1. /\ candidate' = candidate
            /\ run'[w].at = "list" /\ \A v \in Workers \ {w} : run'[v] = run[v]
        BY <2>3 DEF Begin, CountInv, IInv, RunsOK, Actors
      <4> QED
        BY <4>1
    <3>2. ClaimsOK'
      BY <3>1 DEF CountInv, ClaimsOK
    <3> QED
      BY <2>3, <3>1, <3>2, BeginTimes DEF CountInv, Counted
  <2>4. CASE \E w \in Workers : Claim(w)
    BY <1>1, <2>4, ClaimCounts
  <2>5. CASE \E w \in Workers : WriteResult(w)
    BY <2>5, ResultCounts DEF Counted
  <2> QED
    BY <1>3, <2>1, <2>2, <2>3, <2>4, <2>5 DEF NamesNext, Actors
<1> QED
  BY <1>2, <1>3

-----------------------------------------------------------------------------
(* The theorems. *)

LEMMA InitInvariant == NamesInit => IInv
<1> SUFFICES ASSUME NamesInit PROVE IInv
  OBVIOUS
<1>1. notice \in Notice
  <2>1. notice.kind \in Kinds /\ notice.posts \in 0..MaxRevisions
    <3>1. notice.kind \in FirstKinds /\ notice.posts = 0
      BY DEF NamesInit
    <3>2. FirstKinds \subseteq Kinds
      BY NamesAssumption DEF Kinds
    <3>3. MaxRevisions \in Nat
      BY NamesAssumption
    <3>4. notice.kind \in Kinds
      BY <3>1, <3>2
    <3> QED
      BY <3>1, <3>3, <3>4
  <2>2. notice = [kind |-> notice.kind, posts |-> notice.posts]
    BY DEF NamesInit
  <2> QED
    BY <2>1, <2>2 DEF Notice
<1>2. StateOK
  <2>1. clock \in Times
    BY NamesAssumption DEF NamesInit, Times
  <2>2. names = [e \in Events |-> names[e]] /\ \A e \in Events : names[e] = None
    BY DEF NamesInit
  <2> QED
    BY <1>1, <2>1, <2>2 DEF NamesInit, StateOK
<1>3. RunsOK
  <2>1. run = [a \in Actors |-> run[a]] /\ \A a \in Actors : run[a] = Idle
    BY DEF NamesInit
  <2> QED
    BY <2>1 DEF RunsOK, ActorOK, RestOK
<1> QED
  BY <1>2, <1>3 DEF IInv

LEMMA StepInvariant == IInv /\ [NamesNext]_vars => IInv' /\ Kept
<1> SUFFICES ASSUME IInv, [NamesNext]_vars PROVE IInv' /\ Kept
  OBVIOUS
<1>1. CASE UNCHANGED vars
  <2>1. Kept
    BY <1>1, NamesStay DEF vars
  <2>2. RunsOK'
    BY <1>1, <2>1, RunsStay DEF vars, IInv, Kept
  <2> QED
    BY <1>1, <2>1, <2>2 DEF vars, IInv, StateOK
<1>2. CASE NamesNext
  <2>1. CASE \/ \E kind \in Kinds, more \in {0, 1} : NoticeStored(kind, notice.posts + more)
             \/ SeedWritten \/ SeedFails \/ ExecutionStored
    BY <2>1, EnvironmentStep DEF Preserved, IInv
  <2>2. CASE \E e \in Events : ManualOverride(e)
    BY <2>2, OverrideStep DEF Preserved, IInv
  <2>3. CASE \E w \in Workers : Begin(w) \/ List(w) \/ Reseed(w)
    BY <2>3, BeginStep, ListStep, ReseedStep DEF Preserved, IInv
  <2>4. CASE \E w \in Workers : Promote(w) \/ PromotionFails(w) \/ PassEvent(w)
    BY <2>4, PromoteStep, PassStep DEF Preserved, IInv
  <2>5. CASE \/ \E w \in Workers : AskAsReconciler(w)
             \/ \E h \in Webhooks : AskAsWebhook(h)
    BY <2>5, AskStep DEF Preserved, IInv, Actors
  <2>6. CASE \E w \in Workers : Claim(w) \/ WriteResult(w)
    BY <2>6, ClaimStep, ResultStep DEF Preserved, IInv
  <2>7. CASE \E a \in Actors : Reread(a) \/ WriteName(a) \/ MarkFailure(a) \/ Ends(a)
    BY <2>7, RereadStep, WriteStep, EndsStep DEF Preserved, IInv
  <2> QED
    BY <1>2, <2>1, <2>2, <2>3, <2>4, <2>5, <2>6, <2>7 DEF NamesNext
<1> QED
  BY <1>1, <1>2

\* The rows keep their types, and what they say of themselves.
THEOREM NamesTyped == NamesSpec => []NamesTypeOK
<1>1. IInv => NamesTypeOK
  BY DEF IInv, StateOK, CandidateOK, RowOK, NamesTypeOK, Times
<1> QED
  BY <1>1, InitInvariant, StepInvariant, PTL DEF NamesSpec

\* Whatever overtakes whatever: a candidate is only accepted with a name for the
\* kind that it has, and so only such a name is promoted to an event.
THEOREM NamesFit == NamesSpec => []NameFitsKind
<1>1. IInv => NameFitsKind
  BY DEF IInv, StateOK, CandidateOK, RowOK, NameFitsKind
<1> QED
  BY <1>1, InitInvariant, StepInvariant, PTL DEF NamesSpec

\* Any number of generations, promotions and manual overrides of one event, in
\* any order, leave it with a name once it has one.
THEOREM NamesStayGiven == NamesSpec => NamesKept
<1>1. IInv /\ [NamesNext]_vars =>
        [\A e \in Events : names[e] # None =>
            /\ names'[e] # None
            /\ names[e].name # None => names'[e].name # None
            /\ names[e].manual => names'[e].manual]_vars
  BY StepInvariant DEF Kept, RowKept
<1> QED
  BY <1>1, InitInvariant, StepInvariant, PTL DEF NamesSpec, NamesKept

\* However runs overlap, an outcome is stored over the claim of its own run only,
\* or over one that was made when as many attempts were counted: no outcome is
\* stored over another.
THEOREM OutcomesAreCounted == NamesSpec => OutcomesCounted
<1>1. NamesInit => CountInv
  <2> SUFFICES ASSUME NamesInit PROVE CountInv
    OBVIOUS
  <2>1. \A w \in Workers : run[w] = Idle
    BY DEF NamesInit, Actors
  <2> QED
    BY <2>1, IdleSince, InitInvariant DEF CountInv, TimesOK, ClaimsOK, Idle
<1>2. CountInv /\ [NamesNext]_vars => CountInv'
  BY StepInvariant, CountStep DEF CountInv
<1>3. CountInv /\ [NamesNext]_vars =>
        [candidate # None
         /\ candidate'.status \notin {candidate.status, "unprocessed", "pending"} =>
            /\ candidate.status = "pending"
            /\ candidate'.attempts = candidate.attempts + 1]_vars
  BY CountStep DEF Counted
<1> QED
  BY <1>1, <1>2, <1>3, PTL DEF NamesSpec, OutcomesCounted

=============================================================================
