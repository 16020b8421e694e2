---------------------------- MODULE DisplayNames ----------------------------
(***************************************************************************)
(* The display names of resets.  An official notice seeds a candidate, the *)
(* reconciler generates a name for it before the reset happens, and        *)
(* promotion makes that name the event's when evidence of the reset is     *)
(* stored.  A candidate is provisional until then and may still change its *)
(* kind with the classification of its notice.  Names of events are also   *)
(* generated after the fact: of BANKED distributions by the reconciler, of *)
(* global resets by the webhooks, which hold the monitor's evidence.       *)
(*                                                                         *)
(* One notice with its candidate, one event of each kind.  A run of the    *)
(* reconciler reads everything first and acts on what it read; runs        *)
(* overlap when one outlives its caller (curl gives up after 90 seconds)   *)
(* and any of them may be ended between two steps.  Gemini is the choice   *)
(* of an outcome, the request budget the choice to skip.                   *)
(***************************************************************************)
EXTENDS Integers, FiniteSets

CONSTANTS
    Workers,        \* runs of the reconciler in progress at one time
    Webhooks,       \* deliveries generating the name of the global reset
    FirstKinds,     \* what the notice may be classified as at first
    MaxClock,       \* bound: the clock
    MaxRevisions,   \* bound: changes of the notice's classification
    None

ASSUME NamesAssumption ==
    /\ MaxClock \in Nat /\ MaxRevisions \in Nat
    /\ FirstKinds \subseteq {"reset_execution", "banked_distribution"}
    /\ IsFiniteSet(Workers) /\ IsFiniteSet(Webhooks)
    /\ Workers \cap Webhooks = {}

Kinds == {"reset_execution", "banked_distribution"}

\* The canonical events, one of each kind.
Events == Kinds

\* Fifteen minutes, after which a pending claim is stale, and the hour of a
\* rate limit, in units of the clock.
StalePending == 1
RetryDelay == 3

Actors == Workers \cup Webhooks

\* The posts of the notice, and the kind they were classified as.
Notice == [kind : Kinds, posts : 0..MaxRevisions]

\* What the hash of a generation covers: the candidate's kind and the notice.
Input == [kind : Kinds, notice : Notice]

\* "result" is the kind that the last outcome was generated for.
Candidate ==
    [kind : Kinds, posts : 0..MaxRevisions, input : Input \cup {None},
     status : {"unprocessed", "pending", "accepted", "settled", "failed", "rate_limited"},
     result : Kinds \cup {None}, attempts : Nat, retry : Nat,
     updated : 0..MaxClock, life : {"provisional", "promoted"},
     promoted : Events \cup {None}]

\* The row of an event: a manual name or not, the accepted name of the AI (by
\* the kind it was made for, and whether a candidate's) or None, the input of
\* its last generation (a candidate's is no event's), inputs whose generation
\* failed.  "version" stands
\* for updated_at, of which no two writes of a row are equal.
Name == [kind : Kinds, precomputed : BOOLEAN]
Row == [manual : BOOLEAN, name : Name \cup {None},
        input : 0..MaxRevisions \cup {None}, failures : SUBSET (0..MaxRevisions), version : Nat]

\* None is none of the records and names that it stands beside.
ASSUME NoneAssumption ==
    /\ None \notin Events /\ None \notin Input /\ None \notin Candidate
    /\ None \notin Name /\ None \notin Row

VARIABLES
    clock,
    notice,     \* the notice as the Tibo webhook has stored it
    seeding,    \* the seed a delivery of the notice is about to write, or None
    candidate,  \* the row of reset_display_name_candidates, or None
    evidence,   \* events whose execution is stored
    names,      \* reset_display_names: the row of each event, or None
    run         \* what each actor has read and where it is

vars == <<clock, notice, seeding, candidate, evidence, names, run>>

Idle == [at |-> "idle"]

NamesInit ==
    /\ clock = 0
    /\ notice \in [kind : FirstKinds, posts : {0}]
    /\ seeding = notice
    /\ candidate = None
    /\ evidence = {}
    /\ names = [e \in Events |-> None]
    /\ run = [a \in Actors |-> Idle]

-----------------------------------------------------------------------------
(* The notice and its seed. *)

Fresh(seed) ==
    [kind |-> seed.kind, posts |-> seed.posts, input |-> None,
     status |-> "unprocessed", result |-> None, attempts |-> 0, retry |-> 0,
     updated |-> clock, life |-> "provisional", promoted |-> None]

\* upsert_reset_display_name_candidate_seed: a new kind starts a provisional
\* candidate over, and every seed advances updated_at.
Seeded(seed) ==
    IF candidate = None
      \/ (candidate.life = "provisional" /\ candidate.kind # seed.kind)
    THEN Fresh(seed)
    ELSE [candidate EXCEPT !.updated = clock,
             !.posts = IF seed.posts > @ THEN seed.posts ELSE @]

\* A delivery stores the notice again, or one more post with what they were
\* classified as now, and goes on to seed the candidate.
NoticeStored(kind, posts) ==
    /\ seeding = None /\ posts <= MaxRevisions
    /\ posts = notice.posts => kind = notice.kind
    /\ notice' = [kind |-> kind, posts |-> posts]
    /\ seeding' = notice'
    /\ UNCHANGED <<clock, candidate, evidence, names, run>>

SeedWritten ==
    /\ seeding # None
    /\ candidate' = Seeded(seeding)
    /\ seeding' = None
    /\ UNCHANGED <<clock, notice, evidence, names, run>>

\* A failed seed changes nothing of the delivery.
SeedFails ==
    /\ seeding # None
    /\ seeding' = None
    /\ UNCHANGED <<clock, notice, candidate, evidence, names, run>>

\* The webhooks store the execution of the one reset that the notice announced.
ExecutionStored ==
    /\ evidence = {}
    /\ evidence' = {notice.kind}
    /\ UNCHANGED <<clock, notice, seeding, candidate, names, run>>

\* An operator names an event that has a row.
ManualOverride(e) ==
    /\ names[e] # None /\ ~names[e].manual
    /\ names' = [names EXCEPT ![e].manual = TRUE, ![e].version = @ + 1]
    /\ UNCHANGED <<clock, notice, seeding, candidate, evidence, run>>

-----------------------------------------------------------------------------
(* A run of the reconciler: what it reads, seeds and promotes. *)

\* No generation over a name by hand, or with the same input again.
Settled(row, input) ==
    row # None /\ (row.manual \/ row.input = input
                   \/ (row.name # None /\ input \in row.failures))

\* The reconciler's generation of the BANKED event, from the row it has read: a
\* name that a candidate provided is left alone.
EventInput(posts) ==
    LET row == names["banked_distribution"] IN
    IF \/ "banked_distribution" \notin evidence
       \/ Settled(row, posts)
       \/ row # None /\ row.name # None /\ row.name.precomputed
    THEN None ELSE posts

\* The run's time, its notices, evidence and names are read together; by its
\* next step the clock of the database has moved on.
Begin(w) ==
    /\ run[w] = Idle
    /\ \E pause \in {1, StalePending + 1} :
           /\ clock + pause <= MaxClock
           /\ clock' = clock + pause
    /\ run' = [run EXCEPT ![w] =
           [at |-> "list", now |-> clock' - 1, notice |-> notice,
            executed |-> notice.kind \in evidence, event |-> EventInput(notice.posts)]]
    /\ UNCHANGED <<notice, seeding, candidate, evidence, names>>

\* With a candidate read, a run knows all that it is to do: whether to promote
\* the candidate, and the inputs to generate the event's and the candidate's
\* name from, None where there is nothing to generate.
Executed(r, c) == r.executed /\ c.kind = r.notice.kind

PromotionDue(r, c) ==
    c # None /\ c.life = "provisional" /\ c.status = "accepted" /\ Executed(r, c)

InputOf(r, c) == [kind |-> c.kind, notice |-> r.notice]

\* Still provisional, not executed, nothing to reuse, and not too early.
GenerationDue(r, c) ==
    /\ c # None /\ c.life = "provisional" /\ ~Executed(r, c)
    /\ ~(c.input = InputOf(r, c) /\ c.status \in {"accepted", "settled"})
    /\ ~(c.status = "rate_limited" /\ c.retry > r.now)

Plan(r, c) ==
    [at |-> "planned", now |-> r.now, key |-> r.notice.kind,
     promote |-> PromotionDue(r, c), event |-> r.event,
     input |-> IF GenerationDue(r, c) THEN InputOf(r, c) ELSE None]

\* The order of a run: promotion, the event, the candidate.
Onward(plan) ==
    IF plan.promote THEN [plan EXCEPT !.at = "promote"]
    ELSE IF plan.event # None THEN [plan EXCEPT !.at = "event"]
    ELSE IF plan.input # None THEN [plan EXCEPT !.at = "candidate"]
    ELSE Idle

SeedMissing(r, c) ==
    c = None \/ c.kind # r.notice.kind \/ c.posts < r.notice.posts

\* A failed listing counts as an empty one.
List(w) ==
    /\ run[w].at = "list"
    /\ \E listed \in {candidate, None} :
           run' = [run EXCEPT ![w] =
               IF SeedMissing(@, listed)
               THEN [at |-> "seed", reading |-> @, plan |-> Plan(@, listed)]
               ELSE Onward(Plan(@, listed))]
    /\ UNCHANGED <<clock, notice, seeding, candidate, evidence, names>>

\* The missing seed is written and its row taken, or the run goes on without.
Reseed(w) ==
    /\ run[w].at = "seed"
    /\ \/ /\ candidate' = Seeded(run[w].reading.notice)
          /\ run' = [run EXCEPT ![w] = Onward(Plan(@.reading, candidate'))]
       \/ /\ run' = [run EXCEPT ![w] = Onward(@.plan)]
          /\ UNCHANGED candidate
    /\ UNCHANGED <<clock, notice, seeding, evidence, names>>

\* promote_reset_display_name_candidate reads the candidate again, under its
\* locks: what it promotes is accepted and has evidence for its kind now.
Promotable(key) ==
    /\ candidate.life = "provisional" /\ candidate.promoted = None
    /\ candidate.kind = key /\ key \in evidence
    /\ candidate.status = "accepted"

\* A manual or an accepted name of the event is kept.
Protected(row) == row # None /\ (row.manual \/ row.name # None)

\* Mutant: the candidate remains provisional.
PromotedCandidate_Provisional(key, now) ==
    [candidate EXCEPT !.promoted = key, !.updated = now]

PromotedCandidate(key, now) ==
    [candidate EXCEPT !.life = "promoted", !.promoted = key, !.updated = now]

PromotedRow(row) ==
    [manual |-> FALSE,
     name |-> [kind |-> candidate.result, precomputed |-> TRUE],
     input |-> None,
     failures |-> IF row = None THEN {} ELSE row.failures,
     version |-> IF row = None THEN 1 ELSE row.version + 1]

\* An event whose candidate is promoted is not generated for in the same run.
Promote(w) ==
    /\ run[w].at = "promote"
    /\ LET key == run[w].key
           promoted == Promotable(key) \/ candidate.promoted = key
       IN  /\ IF Promotable(key)
              THEN /\ candidate' = PromotedCandidate(key, run[w].now)
                   /\ names' = IF Protected(names[key]) THEN names
                               ELSE [names EXCEPT ![key] = PromotedRow(@)]
              ELSE UNCHANGED <<candidate, names>>
           /\ run' = [run EXCEPT ![w] = Onward([@ EXCEPT !.promote = FALSE,
                  !.event = IF promoted /\ key = "banked_distribution"
                            THEN None ELSE run[w].event])]
    /\ UNCHANGED <<clock, notice, seeding, evidence>>

\* A failed promotion leaves the candidate to the next run.
PromotionFails(w) ==
    /\ run[w].at = "promote"
    /\ run' = [run EXCEPT ![w] = Onward([@ EXCEPT !.promote = FALSE])]
    /\ UNCHANGED <<clock, notice, seeding, candidate, evidence, names>>

-----------------------------------------------------------------------------
(* The name of an event that has happened: ensureResetDisplayNameForEvent. *)

\* The event an actor generates for.
EventOf(a) == IF a \in Workers THEN "banked_distribution" ELSE "reset_execution"

\* Generating from "input"; "rest" is what the actor has still to do.
AskAsReconciler(w) ==
    /\ run[w].at = "event"
    /\ run' = [run EXCEPT ![w] =
           [at |-> "reread", input |-> @.event, rest |-> Onward([@ EXCEPT !.event = None])]]
    /\ UNCHANGED <<clock, notice, seeding, candidate, evidence, names>>

\* The request budget is used up, a failure is too recent, no text of a post.
PassEvent(w) ==
    /\ run[w].at = "event"
    /\ run' = [run EXCEPT ![w] = Onward([@ EXCEPT !.event = None])]
    /\ UNCHANGED <<clock, notice, seeding, candidate, evidence, names>>

\* A webhook with the monitor's evidence regenerates a candidate's name too.
AskAsWebhook(h) ==
    /\ run[h] = Idle
    /\ "reset_execution" \in evidence
    /\ ~Settled(names["reset_execution"], notice.posts)
    /\ run' = [run EXCEPT ![h] = [at |-> "reread", input |-> notice.posts, rest |-> Idle]]
    /\ UNCHANGED <<clock, notice, seeding, candidate, evidence, names>>

\* Gemini answers, and the row is read again.  A failed regeneration marks an
\* accepted name and leaves it; a manual name ends the generation.
Reread(a) ==
    /\ run[a].at = "reread"
    /\ \E accepted \in BOOLEAN :
       LET row == names[EventOf(a)] IN
       run' = [run EXCEPT ![a] =
           IF row # None /\ row.manual /\ (accepted \/ row.name = None) THEN @.rest
           ELSE [at |-> IF row # None /\ row.name # None /\ ~accepted
                        THEN "mark" ELSE "write",
                 fresh |-> row, accepted |-> accepted, input |-> @.input, rest |-> @.rest]]
    /\ UNCHANGED <<clock, notice, seeding, candidate, evidence, names>>

\* Mutant: updates by event key alone, as the manual override does.
Unchanged_ByKey(row, fresh) == (fresh = None) = (row = None)

\* Compare and set on updated_at, or an insert that must not find a row.
Unchanged(row, fresh) ==
    IF fresh = None THEN row = None ELSE row # None /\ row.version = fresh.version

\* writeResetDisplayNameCompareAndSet with the payload built from "fresh".
Generated(e, fresh, accepted, input) ==
    [manual |-> fresh # None /\ fresh.manual,
     name |-> IF accepted THEN [kind |-> e, precomputed |-> FALSE] ELSE None,
     input |-> input,
     failures |-> IF fresh = None THEN {} ELSE fresh.failures,
     version |-> IF fresh = None THEN 1 ELSE fresh.version + 1]

WriteName(a) ==
    /\ run[a].at = "write"
    /\ LET e == EventOf(a) IN
       names' = IF Unchanged(names[e], run[a].fresh)
                THEN [names EXCEPT ![e] =
                        Generated(e, run[a].fresh, run[a].accepted, run[a].input)]
                ELSE names
    /\ run' = [run EXCEPT ![a] = @.rest]
    /\ UNCHANGED <<clock, notice, seeding, candidate, evidence>>

MarkFailure(a) ==
    /\ run[a].at = "mark"
    /\ LET e == EventOf(a) IN
       names' = IF Unchanged(names[e], run[a].fresh)
                THEN [names EXCEPT ![e].failures = @ \cup {run[a].input},
                                   ![e].version = @ + 1]
                ELSE names
    /\ run' = [run EXCEPT ![a] = @.rest]
    /\ UNCHANGED <<clock, notice, seeding, candidate, evidence>>

-----------------------------------------------------------------------------
(* The name of a candidate. *)

\* Mutant: the claim does not say which kind it is for.
Claimable_OfAnyKind(kind, now) ==
    /\ candidate.life = "provisional" /\ candidate.retry <= now
    /\ candidate.status = "pending" => candidate.updated < now - StalePending

\* The conditional update of claimResetDisplayNameCandidateGeneration.
Claimable(kind, now) ==
    /\ candidate.life = "provisional" /\ candidate.kind = kind
    /\ candidate.retry <= now
    /\ candidate.status = "pending" => candidate.updated < now - StalePending

Claim(w) ==
    /\ run[w].at = "candidate"
    /\ LET r == run[w] IN
       IF Claimable(r.input.kind, r.now)
       THEN /\ candidate' = [candidate EXCEPT !.status = "pending",
                                 !.input = r.input, !.updated = r.now]
            /\ run' = [run EXCEPT ![w] = [at |-> "generate", now |-> r.now,
                  input |-> r.input, attempts |-> candidate.attempts]]
       ELSE /\ run' = [run EXCEPT ![w] = Idle]
            /\ UNCHANGED candidate
    /\ UNCHANGED <<clock, notice, seeding, evidence, names>>

\* Mutant: the fallback goes by the hash alone.
StillClaimed_ByHash(r) ==
    candidate.life = "provisional" /\ candidate.status = "pending" /\ candidate.input = r.input

\* The claim is still this worker's: by its time, or, when a seed has touched
\* the row since, by the attempt it was made for.
StillClaimed(r) ==
    /\ candidate.life = "provisional" /\ candidate.status = "pending"
    /\ candidate.input = r.input
    /\ candidate.updated = r.now \/ candidate.attempts = r.attempts

WriteResult(w) ==
    /\ run[w].at = "generate"
    /\ LET r == run[w] IN
       \E outcome \in {"accepted", "settled", "failed", "rate_limited"} :
           candidate' = IF StillClaimed(r)
                        THEN [candidate EXCEPT !.status = outcome,
                                !.result = r.input.kind,
                                !.attempts = r.attempts + 1, !.updated = r.now,
                                !.retry = IF outcome = "rate_limited"
                                          THEN r.now + RetryDelay ELSE 0]
                        ELSE candidate
    /\ run' = [run EXCEPT ![w] = Idle]
    /\ UNCHANGED <<clock, notice, seeding, evidence, names>>

\* A run ends, after its last step or between two.
Ends(a) ==
    /\ run[a] # Idle
    /\ run' = [run EXCEPT ![a] = Idle]
    /\ UNCHANGED <<clock, notice, seeding, candidate, evidence, names>>

NamesNext ==
    \/ \E kind \in Kinds, more \in {0, 1} : NoticeStored(kind, notice.posts + more)
    \/ SeedWritten \/ SeedFails \/ ExecutionStored
    \/ \E e \in Events : ManualOverride(e)
    \/ \E w \in Workers : \/ Begin(w) \/ List(w) \/ Reseed(w) \/ Promote(w) \/ PromotionFails(w)
                          \/ AskAsReconciler(w) \/ PassEvent(w)
                          \/ Claim(w) \/ WriteResult(w)
    \/ \E h \in Webhooks : AskAsWebhook(h)
    \/ \E a \in Actors : Reread(a) \/ WriteName(a) \/ MarkFailure(a) \/ Ends(a)

NamesSpec == NamesInit /\ [][NamesNext]_vars

-----------------------------------------------------------------------------
(* Properties. *)

\* Types, and what the rows say of themselves: a candidate has an event exactly
\* when it is promoted, and a hash exactly when it has been claimed.
NamesTypeOK ==
    /\ clock \in 0..MaxClock /\ notice \in Notice
    /\ seeding \in Notice \cup {None} /\ evidence \subseteq Events
    /\ candidate \in Candidate \cup {None}
    /\ names \in [Events -> Row \cup {None}]
    /\ candidate # None =>
          /\ (candidate.life = "promoted") = (candidate.promoted # None)
          /\ (candidate.input = None) = (candidate.status = "unprocessed")

\* A name that was generated for one kind of reset never becomes the name of
\* the other, however late it arrives: not of the candidate, whose kind may
\* have changed since it was asked for, and not of the event it is promoted to.
NameFitsKind ==
    /\ candidate # None /\ candidate.status = "accepted" =>
          candidate.result = candidate.kind
    /\ \A e \in Events : names[e] # None /\ names[e].name # None =>
          names[e].name.kind = e

\* No automatic step takes a name away: an accepted one is replaced by an
\* accepted one at most ("A failed regeneration never hides an already accepted
\* name"), and one that was given by hand stays.
NamesKept ==
    [][\A e \in Events : names[e] # None =>
          /\ names'[e] # None
          /\ names[e].name # None => names'[e].name # None
          /\ names[e].manual => names'[e].manual]_vars

\* Every stored outcome is one attempt more than the row had when it was
\* stored: a worker whose claim has been taken over never stores its outcome
\* over that of the worker that took it ("a stale worker cannot overwrite a
\* reclaimed candidate result"), nor one outcome over another.
OutcomesCounted ==
    [][candidate # None
       /\ candidate'.status \notin {candidate.status, "unprocessed", "pending"} =>
          /\ candidate.status = "pending"
          /\ candidate'.attempts = candidate.attempts + 1]_vars

=============================================================================
