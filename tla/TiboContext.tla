---------------------------- MODULE TiboContext ----------------------------
(***************************************************************************)
(* The contexts of a post of Tibo: the post it replies to and the post it  *)
(* quotes.  X renders them late, so a tab may see them when the post is    *)
(* stored already.  The service worker of the extension then sends them on *)
(* their own, each set of contexts seen (a revision) until it is answered; *)
(* the webhook (app/api/webhook/tibo/route.ts) merges them into the row of *)
(* the post and classifies the post again with the posts they refer to.    *)
(* The generation of the row counts whatever such a classification depends *)
(* on; the marker says which revisions have gone into one.                 *)
(*                                                                         *)
(* One post, whose text does not change.  Whether it is itself the context *)
(* of others, reviews by an operator, answers 401 and 403, and the proof   *)
(* for formal replies are left out.                                        *)
(***************************************************************************)
EXTENDS Naturals, FiniteSets

CONSTANTS
    Item,           \* contexts: a post referred to, as reply or as quote
    KindOf,         \* "parent" or "quote"
    Seen,           \* the revisions the tabs may see: sets of items
    MaxRevisions,   \* of a post, in the worker: 3 in the code
    MaxAttempts,    \* sends of a revision: 3 in the code
    Calls,          \* bound: requests the server works on at once
    MaxPosts,       \* bound: deliveries of the post itself
    Late,           \* the posts referred to that are stored later
    MaxChanges,     \* bound: changes of posts referred to
    MaxFaults,      \* bound: failed requests and steps, restarts of the worker
    MaxResets,      \* bound: explicit retries by the user
    None

Kind == {"parent", "quote"}

ASSUME ContextConstants ==
    /\ KindOf \in [Item -> Kind]
    /\ Seen \subseteq SUBSET Item
    /\ \A s \in Seen : s # {} /\ \A i, j \in s : KindOf[i] = KindOf[j] => i = j
    /\ IsFiniteSet(Seen)
    /\ MaxRevisions \in Nat /\ MaxAttempts \in Nat \ {0} /\ Calls \in Nat
    /\ MaxPosts \in Nat /\ Late \subseteq Item /\ MaxChanges \in Nat
    /\ MaxFaults \in Nat /\ MaxResets \in Nat
    /\ None \notin Nat /\ None \notin Seen

Call == 1..Calls
Class == [full: BOOLEAN,            \* by the model, with the contexts it was given
          gen: Nat, ctx: SUBSET Item, omitted: SUBSET Item, ver: [Item -> Nat]]
Row == [stored: BOOLEAN, ctx: SUBSET Item, revs: SUBSET Seen, gen: Nat,
        marker: SUBSET Seen, class: Class]
Request == [kind: {"enrich", "post"}, snap: Seen \cup {None}, related: BOOLEAN,
            pc: {"merge", "target", "sources", "snapshot", "write", "mark"},
            known: BOOLEAN, revs: SUBSET Seen, gen: Nat, ctx: SUBSET Item,
            marked: BOOLEAN, unread: SUBSET Item,
            omitted: SUBSET Item,   \* contexts left out for what they say
            ver: [Item -> Nat]]
Job == [kind: {"enrich", "post"}, snap: Seen \cup {None}, related: BOOLEAN,
        pc: {"send", "await", "retry", "ok", "reject", "recorded"},
        slot: Call \cup {None}]

ASSUME NoneIsNoRequest == None \notin Request

VARIABLES
    row,            \* the post in tibo_signals
    ver,            \* the posts referred to there: their versions, 0 for none
    calls,          \* requests the server works on
    pending,        \* the worker's queue: attempts of each revision in it
    acked,          \* the worker's ledger: revisions accepted
    terminal,       \* the worker's ledger: revisions refused
    job,            \* the job the worker is at
    used,           \* what was used of the bounds
    done,           \* history: the contexts that went into a marked class
    followed        \* history: the versions whose change reached the row

server == <<row, ver, calls, done, followed>>
worker == <<pending, acked, terminal, job>>
vars == <<server, worker, used>>

NoVersions == [i \in Item |-> 0]

Fault == used.faults < MaxFaults /\ used' = [used EXCEPT !.faults = @ + 1]

TypeOK ==
    /\ row \in Row
    /\ ver \in [Item -> Nat]
    /\ calls \in [Call -> Request \cup {None}]
    /\ pending \in [Seen -> 0..MaxAttempts \cup {None}]
    /\ acked \subseteq Seen
    /\ terminal \subseteq Seen
    /\ job \in Job \cup {None}
    /\ used \in [posts: 0..MaxPosts, faults: 0..MaxFaults,
                 resets: 0..MaxResets, changes: 0..MaxChanges]
    /\ done \subseteq Item
    /\ followed \in [Item -> Nat]

\* A classification by rules, or by the model from the text alone.
Partial(gen) ==
    [full |-> FALSE, gen |-> gen, ctx |-> {}, omitted |-> {}, ver |-> NoVersions]

Init ==
    /\ row = [stored |-> FALSE, ctx |-> {}, revs |-> {}, gen |-> 0, marker |-> {},
              class |-> Partial(0)]
    /\ ver = [i \in Item |-> IF i \in Late THEN 0 ELSE 1]
    /\ calls = [d \in Call |-> None]
    /\ pending = [s \in Seen |-> None]
    /\ acked = {} /\ terminal = {}
    /\ job = None
    /\ used = [posts |-> 0, faults |-> 0, resets |-> 0, changes |-> 0]
    /\ done = {}
    /\ followed = NoVersions

----------------------------------------------------------------------------
(* The service worker.  Its jobs, of posts and of contexts, form one chain. *)

NewJob(kind, s, related) ==
    [kind |-> kind, snap |-> s, related |-> related, pc |-> "send", slot |-> None]

Pending == {s \in Seen : pending[s] # None}
Recorded == acked \cup terminal

\* A post may have so many revisions, sent or to be sent.
Room == Cardinality(Recorded) + Cardinality(Pending) < MaxRevisions

\* enqueueSourceContextEnrichment: a tab has seen contexts of the post.  A
\* revision that is known is not sent again; a new one is stored first.
Enqueue(s) ==
    /\ job = None
    /\ s \notin Recorded \cup Pending
    /\ Room
    /\ pending' = [pending EXCEPT ![s] = 0]
    /\ job' = NewJob("enrich", s, TRUE)
    /\ UNCHANGED <<server, acked, terminal, used>>

\* Mutant: a revision is retried for ever.
Due_Any(s) == pending[s] # None

\* A revision in the queue that has attempts left.
Due(s) == pending[s] # None /\ pending[s] < MaxAttempts

\* retryPendingTweet, when no post is due: the alarm takes up a revision whose
\* delay is over.
RetryDue(s) ==
    /\ job = None
    /\ Due(s)
    /\ job' = NewJob("enrich", s, TRUE)
    /\ UNCHANGED <<server, pending, acked, terminal, used>>

\* The post itself is delivered, or delivered again, as TiboOutbox says; a tab
\* that has seen its relation says so.
PostTweet(related) ==
    /\ job = None
    /\ used.posts < MaxPosts
    /\ used' = [used EXCEPT !.posts = @ + 1]
    /\ job' = NewJob("post", None, related)
    /\ UNCHANGED <<server, pending, acked, terminal>>

Free(d) == calls[d] = None /\ \A e \in 1..(d - 1) : calls[e] # None

NewRequest(j) ==
    [kind |-> j.kind, snap |-> j.snap, related |-> j.related,
     pc |-> IF j.kind = "enrich" THEN "merge"
            ELSE IF j.related THEN "target" ELSE "snapshot",
     known |-> FALSE, revs |-> {}, gen |-> 0, ctx |-> {}, marked |-> FALSE,
     unread |-> {}, omitted |-> {}, ver |-> NoVersions]

Send(d) ==
    /\ job # None /\ job.pc = "send"
    /\ Free(d)
    /\ calls' = [calls EXCEPT ![d] = NewRequest(job)]
    /\ job' = [job EXCEPT !.pc = "await", !.slot = d]
    /\ UNCHANGED <<row, ver, done, followed, pending, acked, terminal, used>>

\* The request fails, before it arrives or after: the server may go on with it.
RequestFails ==
    /\ job # None /\ job.pc \in {"send", "await"}
    /\ Fault
    /\ job' = [job EXCEPT !.pc = "retry", !.slot = None]
    /\ UNCHANGED <<server, pending, acked, terminal>>

\* Mutant: a revision that has used up its attempts leaves the queue.
Failed_Dropped(s) == IF pending[s] + 1 < MaxAttempts THEN pending[s] + 1 ELSE None

\* The attempts of a revision that has failed; the last one leaves it where it
\* is, for an explicit retry.
Failed(s) == pending[s] + 1

\* recordSourceContextPendingFailure; what becomes of a post is TiboOutbox's.
RecordFailure ==
    /\ job # None /\ job.pc = "retry"
    /\ pending' = IF job.kind = "enrich" /\ pending[job.snap] # None
                  THEN [pending EXCEPT ![job.snap] = Failed(job.snap)]
                  ELSE pending
    /\ job' = None
    /\ UNCHANGED <<server, acked, terminal, used>>

\* addSourceContextRevisionToLedger, or addSourceContextTerminalRevision: a
\* revision that would be one too many is not written down.
Record ==
    /\ job # None /\ job.pc \in {"ok", "reject"}
    /\ IF job.kind = "post"
       THEN job' = None /\ UNCHANGED <<acked, terminal>>
       ELSE LET news == /\ job.snap \notin Recorded
                        /\ Cardinality(Recorded) < MaxRevisions
            IN  /\ acked' = IF news /\ job.pc = "ok" THEN acked \cup {job.snap} ELSE acked
                /\ terminal' = IF news /\ job.pc = "reject" THEN terminal \cup {job.snap}
                               ELSE terminal
                /\ job' = [job EXCEPT !.pc = "recorded", !.slot = None]
    /\ UNCHANGED <<server, pending, used>>

\* removeSourceContextPending, once it is written down.
Forget ==
    /\ job # None /\ job.pc = "recorded"
    /\ pending' = [pending EXCEPT ![job.snap] = None]
    /\ job' = None
    /\ UNCHANGED <<server, acked, terminal, used>>

\* resetSourceContextPendingRetries, for an explicit retry of the post.
ResetRetries ==
    /\ used.resets < MaxResets
    /\ \E s \in Seen : pending[s] \notin {None, 0}
    /\ used' = [used EXCEPT !.resets = @ + 1]
    /\ pending' = [s \in Seen |-> IF pending[s] = None THEN None ELSE 0]
    /\ UNCHANGED <<server, acked, terminal, job>>

\* Chrome stops the worker and starts it again.
Restart ==
    /\ job # None
    /\ Fault
    /\ job' = None
    /\ UNCHANGED <<server, pending, acked, terminal>>

----------------------------------------------------------------------------
(* The server.                                                             *)

At(d, pc) == calls[d] # None /\ calls[d].pc = pc

Goto(d, c) == calls' = [calls EXCEPT ![d] = c] /\ UNCHANGED job

\* The request is answered: 200, 409 or 503; the answer reaches a job that
\* still waits for it.
Answer(d, answer) ==
    /\ calls' = [calls EXCEPT ![d] = None]
    /\ job' = IF job # None /\ job.pc = "await" /\ job.slot = d
              THEN [job EXCEPT !.pc = answer] ELSE job

Elsewhere == UNCHANGED <<pending, acked, terminal, used>>

\* Mutant: contexts that were merged before need nothing more.
Merged_Enough(d) == Answer(d, "ok")

\* Whether they were classified is still to be seen.
Merged(d) == Goto(d, [calls[d] EXCEPT !.pc = "target"])

Conflicts(s) ==
    \E i \in s, j \in row.ctx : KindOf[i] = KindOf[j] /\ i # j

\* merge_tibo_source_context_enrichment.  The trigger on the row counts the
\* change.  As there are two kinds of context, three revisions are never merged.
Merge(d) ==
    /\ At(d, "merge")
    /\ LET s == calls[d].snap
       IN  IF ~row.stored THEN Answer(d, "retry") /\ UNCHANGED row
           ELSE IF s \in row.revs THEN Merged(d) /\ UNCHANGED row
           ELSE IF Conflicts(s) THEN Answer(d, "reject") /\ UNCHANGED row
           ELSE IF s \subseteq row.ctx THEN Merged(d) /\ UNCHANGED row
           ELSE /\ row' = [row EXCEPT !.ctx = @ \cup s, !.revs = @ \cup {s},
                                      !.gen = @ + 1]
                /\ Goto(d, [calls[d] EXCEPT !.pc = "target"])
    /\ UNCHANGED <<ver, done, followed>>
    /\ Elsewhere

\* hasRetryableTiboEvidenceOmission: a post referred to was not found, or the
\* lookup failed; it may be there the next time.
Retryable(c) == \E i \in c.ctx \ c.omitted : c.ver[i] = 0

\* Nothing was left out.
Complete(c) == c.unread = {} /\ c.omitted = {} /\ ~Retryable(c)

\* What follows when the evidence is read: one that may be completed later, or
\* the marker set, ends an enrichment; contexts left out for good do not.  Of the
\* contexts of a post nothing is told apart unless they are complete.
Assessed(d, c) ==
    IF c.unread # {} THEN Goto(d, [c EXCEPT !.pc = "sources"])
    ELSE IF c.kind = "enrich" /\ Retryable(c) THEN Answer(d, "retry")
    ELSE IF c.kind = "enrich" /\ c.marked THEN Answer(d, "ok")
    ELSE Goto(d, IF c.kind = "enrich" \/ Complete(c)
                 THEN [c EXCEPT !.pc = "write", !.marked = FALSE]
                 ELSE [c EXCEPT !.pc = "write", !.marked = FALSE, !.ctx = {},
                                !.omitted = {}, !.ver = NoVersions])

\* loadStoredTiboEvidence reads the row first ...
ReadTarget(d) ==
    /\ At(d, "target")
    /\ IF row.stored
       THEN Assessed(d, [calls[d] EXCEPT
                !.known = TRUE, !.revs = row.revs, !.gen = row.gen,
                !.ctx = row.ctx, !.marked = row.revs \subseteq row.marker,
                !.unread = row.ctx])
       ELSE Goto(d, [calls[d] EXCEPT !.pc = "snapshot"])
    /\ UNCHANGED <<row, ver, done, followed>>
    /\ Elsewhere

\* ... and then the posts it refers to, one by one.  One is used; or left out
\* whether it is there or not, because it is not verified, not what the row says of
\* it, or over a limit; or the lookup fails.
ReadSource(d, i) ==
    /\ At(d, "sources") /\ i \in calls[d].unread
    /\ LET c == [calls[d] EXCEPT !.unread = @ \ {i}]
       IN  \/ Assessed(d, [c EXCEPT !.ver[i] = ver[i]]) /\ UNCHANGED used
           \/ Assessed(d, [c EXCEPT !.omitted = @ \cup {i}]) /\ UNCHANGED used
           \/ Assessed(d, [c EXCEPT !.ver[i] = 0]) /\ Fault
    /\ UNCHANGED <<row, ver, done, followed, pending, acked, terminal>>

\* loadTiboSourceContextRevisionSnapshot, for a post that shows no relation or
\* whose evidence could not be read.
ReadSnapshot(d) ==
    /\ At(d, "snapshot")
    /\ Goto(d, [calls[d] EXCEPT !.known = row.stored, !.revs = row.revs,
                                !.gen = row.gen, !.ctx = {}, !.pc = "write"])
    /\ UNCHANGED <<row, ver, done, followed>>
    /\ Elsewhere

\* Mutant: only the revisions are compared.
Unchanged_Revisions(c) == row.stored /\ row.revs = c.revs

\* The row is as it was read: its revisions and its generation.
Unchanged(c) == row.stored /\ row.revs = c.revs /\ row.gen = c.gen

\* The classification of a request; the model has answered, or not.
Classified(c, ai) ==
    IF ai /\ c.ctx # {}
    THEN [full |-> TRUE, gen |-> c.gen, ctx |-> c.ctx, omitted |-> c.omitted,
          ver |-> c.ver]
    ELSE Partial(c.gen)

\* Gemini has classified the post; without it, an enrichment fails and a post
\* is classified by rules.  A new row is inserted, an old one updated if it is
\* unchanged.  An enrichment goes on to the marker whatever was left out of it, a
\* post only if nothing was.
Write(d) ==
    /\ At(d, "write")
    /\ \E ai \in BOOLEAN :
        LET c == calls[d]
            class == Classified(c, ai)
        IN  IF \/ c.kind = "enrich" /\ ~ai
               \/ IF c.known THEN ~Unchanged(c) ELSE row.stored
            THEN Answer(d, "retry") /\ UNCHANGED row
            ELSE /\ row' = [row EXCEPT !.stored = TRUE, !.class = class]
                 /\ IF class.full THEN Goto(d, [c EXCEPT !.pc = "mark"])
                    ELSE Answer(d, "ok")
    /\ UNCHANGED <<ver, done, followed>>
    /\ Elsewhere

\* The marker is set if the row is still unchanged.
Mark(d) ==
    /\ At(d, "mark")
    /\ IF Unchanged(calls[d])
       THEN /\ row' = [row EXCEPT !.marker = row.revs]
            /\ done' = done \cup row.ctx
            /\ Answer(d, "ok")
       ELSE Answer(d, "retry") /\ UNCHANGED <<row, done>>
    /\ UNCHANGED <<ver, followed>>
    /\ Elsewhere

\* The database fails, or the server ends.  A post whose evidence cannot be
\* read goes on without it.
StepFails(d) ==
    /\ calls[d] # None
    /\ Fault
    /\ \/ Answer(d, "retry")
       \/ /\ calls[d].kind = "post" /\ At(d, "target")
          /\ Goto(d, [calls[d] EXCEPT !.pc = "snapshot"])
    /\ UNCHANGED <<row, ver, done, followed, pending, acked, terminal>>

\* A post referred to is stored.
SourceStored(i) ==
    /\ ver[i] = 0
    /\ ver' = [ver EXCEPT ![i] = 1]
    /\ UNCHANGED <<row, calls, done, followed, worker, used>>

\* Mutant: the trigger leaves the generation.
Invalidated_MarkerOnly(i) == [row EXCEPT !.marker = {}]

\* The trigger on a post i that the row refers to.
Invalidated(i) == [row EXCEPT !.gen = @ + 1, !.marker = {}]

\* A post referred to, or one it refers to in its turn, changes.  The trigger
\* follows the snapshots of contexts; a change of a post that is named only in the
\* older fields of a quote does not reach the row.
SourceChanges(i) ==
    /\ ver[i] > 0
    /\ used.changes < MaxChanges
    /\ used' = [used EXCEPT !.changes = @ + 1]
    /\ ver' = [ver EXCEPT ![i] = @ + 1]
    /\ \/ /\ i \in row.ctx
          /\ row' = Invalidated(i)
          /\ followed' = [followed EXCEPT ![i] = ver'[i]]
       \/ UNCHANGED <<row, followed>>
    /\ UNCHANGED <<calls, done, worker>>

Work ==
    \/ \E s \in Seen : Enqueue(s) \/ RetryDue(s)
    \/ \E related \in BOOLEAN : PostTweet(related)
    \/ \E d \in Call : Send(d)
    \/ RequestFails \/ RecordFailure \/ Record \/ Forget
    \/ ResetRetries \/ Restart

Serve(d) ==
    \/ Merge(d) \/ ReadTarget(d) \/ ReadSnapshot(d) \/ Write(d) \/ Mark(d)
    \/ \E i \in Item : ReadSource(d, i)
    \/ StepFails(d)

Next ==
    \/ Work
    \/ \E d \in Call : Serve(d)
    \/ \E i \in Item : SourceStored(i) \/ SourceChanges(i)

Spec == Init /\ [][Next]_vars

----------------------------------------------------------------------------
(* Properties.                                                             *)

\* While the marker covers the revisions of the post, the classification of the row
\* is none that was begun before the last change counted: whichever requests
\* overlapped, and whatever changed while the model was at work.  One made with the
\* contexts was made with all the row has, each left out for what it says or as
\* recent as the last change of it that the trigger followed.
MarkedIsCurrent ==
    row.marker # {} /\ row.marker = row.revs =>
        /\ row.class.gen = row.gen
        /\ row.class.full =>
              /\ row.class.ctx = row.ctx
              /\ \A i \in row.ctx \ row.class.omitted :
                    row.class.ver[i] > 0 /\ row.class.ver[i] >= followed[i]

\* A revision the worker takes as accepted, and never sends again, has gone
\* into a classification that was completed, whatever answer ended its sending:
\* each of its contexts was used or left out for what it says, none for want of it.
AckedWasClassified == \A s \in acked : s \subseteq done

\* What the server has merged the worker still sends or has written down: a
\* revision whose classification is not complete is not forgotten.
MergedIsTracked == row.revs \subseteq Pending \cup Recorded

=============================================================================
