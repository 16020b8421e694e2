------------------------- MODULE TiboContextProofs -------------------------
(***************************************************************************)
(* The safety properties of TiboContext, for any contexts and revisions    *)
(* and any bounds.  Three invariants: of the worker and its requests, of   *)
(* the row and what requests have read of it, and of the marker and the    *)
(* acknowledgements; each is inductive given those before it.              *)
(***************************************************************************)
EXTENDS TiboContext, FiniteSetTheorems, TLAPS

\* The job at hand is of a revision in the queue, with attempts left until it
\* is answered; the queue and the ledger keep to the limit.
WorkerOK ==
    /\ job # None /\ job.kind = "enrich" =>
        /\ job.snap \in Seen
        /\ pending[job.snap] # None
        /\ job.pc \in {"send", "await", "retry"} => pending[job.snap] < MaxAttempts
        /\ job.pc = "recorded" => job.snap \in Recorded
    /\ job # None /\ job.pc = "recorded" => job.kind = "enrich"
    /\ Cardinality(Pending \cup Recorded) <= MaxRevisions

\* A request under way is of a revision that is tracked; the one that is waited
\* for is that of the job.
CallsTracked ==
    /\ \A d \in Call : calls[d] # None =>
        /\ calls[d].kind = "enrich" => calls[d].snap \in Pending \cup Recorded
        /\ calls[d].pc = "merge" => calls[d].kind = "enrich"
    /\ job # None /\ job.pc = "await" =>
        /\ job.slot \in Call
        /\ calls[job.slot] # None
        /\ calls[job.slot].kind = job.kind
        /\ calls[job.slot].snap = job.snap

\* What a request has read of a row of its generation is still so, but for the
\* changes the trigger did not follow.
Fresh(c) ==
    /\ c.gen <= row.gen
    /\ c.known => row.stored
    /\ c.ctx # {} => c.known
    /\ c.ctx # {} /\ c.gen = row.gen =>
        /\ c.ctx = row.ctx
        /\ \A i \in c.ctx \ (c.unread \cup c.omitted) :
              c.ver[i] > 0 => c.ver[i] >= followed[i]

\* A request that is to classify with contexts has found those it was not to leave
\* out; one that is to set the marker has written the class, or one was written
\* after it that is not older.
Sound(c) ==
    /\ Fresh(c)
    /\ c.pc = "write" /\ c.ctx # {} => c.unread = {} /\ ~Retryable(c)
    /\ c.pc = "mark" => c.known /\ row.class.gen >= c.gen

CallsSound == \A d \in Call : calls[d] # None => Sound(calls[d])

\* A full class of the row's generation is of its contexts, as recent as the last
\* change that was followed; the marker covers the revisions only beside a class of
\* the row's generation.
RowOK ==
    /\ row.marker \subseteq row.revs
    /\ row.revs # {} => row.stored
    /\ row.class.gen <= row.gen
    /\ \A i \in Item : followed[i] <= ver[i]
    /\ row.class.full /\ row.class.gen = row.gen =>
        /\ row.class.ctx = row.ctx
        /\ \A i \in row.ctx \ row.class.omitted :
              row.class.ver[i] > 0 /\ row.class.ver[i] >= followed[i]
    /\ row.marker # {} /\ row.marker = row.revs => row.class.gen = row.gen

\* An enrichment works on contexts that are merged, keeps them until it
\* classifies, and takes the marker as set only if they went into a class.
Justified(c) ==
    c.kind = "enrich" =>
        /\ c.pc # "merge" => c.snap \subseteq row.ctx /\ row.stored
        /\ c.pc # "snapshot"
        /\ c.pc \in {"sources", "write"} => c.ctx # {}
        /\ c.marked => c.snap \subseteq done

CallsJustified == \A d \in Call : calls[d] # None => Justified(calls[d])

MarkerOK ==
    /\ \A s \in row.revs : s \subseteq row.ctx
    /\ row.ctx # {} => row.revs # {}
    /\ row.revs \subseteq row.marker => row.ctx \subseteq done

AcksOK ==
    /\ job # None /\ job.pc = "ok" /\ job.kind = "enrich" => job.snap \subseteq done
    /\ AckedWasClassified

----------------------------------------------------------------------------
(* Types, and the worker.                                                  *)

\* A step of the server answers a request or takes it further, as the request
\* it is; the worker sees no more of it than the answer.
LEMMA AssessedMoves ==
    ASSUME TypeOK, NEW d \in Call, NEW c \in Request, Assessed(d, c)
    PROVE  \/ Answer(d, "retry")
           \/ Answer(d, "ok")
           \/ \E e \in Request : /\ e.kind = c.kind /\ e.snap = c.snap
                                 /\ e.pc # "merge" /\ Goto(d, e)
<1> DEFINE Reading == [c EXCEPT !.pc = "sources"]
           Writing == [c EXCEPT !.pc = "write", !.marked = FALSE]
           Bare == [c EXCEPT !.pc = "write", !.marked = FALSE, !.ctx = {},
                             !.omitted = {}, !.ver = NoVersions]
<1>1. Reading \in Request /\ Reading.kind = c.kind /\ Reading.snap = c.snap
       /\ Reading.pc # "merge"
  BY DEF Request
<1>2. NoVersions \in [Item -> Nat]
  BY DEF NoVersions
<1>3. /\ Writing \in Request /\ Writing.kind = c.kind /\ Writing.snap = c.snap
      /\ Writing.pc # "merge"
  BY DEF Request
<1>4. /\ Bare \in Request /\ Bare.kind = c.kind /\ Bare.snap = c.snap
      /\ Bare.pc # "merge"
  BY <1>2 DEF Request
<1>5. \/ Answer(d, "retry") \/ Answer(d, "ok") \/ Goto(d, Reading)
      \/ Goto(d, Writing) \/ Goto(d, Bare)
  BY DEF Assessed
<1>. QED
  BY <1>1, <1>3, <1>4, <1>5

\* A post referred to is used as it is, left out, or missing; the rest of the request
\* is as it was.
LEMMA SourceAssessed ==
    ASSUME TypeOK, NEW d \in Call, NEW i \in Item, ReadSource(d, i)
    PROVE  \E c \in Request :
              /\ Assessed(d, c)
              /\ c.kind = calls[d].kind /\ c.snap = calls[d].snap
              /\ c.known = calls[d].known /\ c.gen = calls[d].gen
              /\ c.ctx = calls[d].ctx /\ c.marked = calls[d].marked
              /\ c.unread = calls[d].unread \ {i}
              /\ calls[d].omitted \subseteq c.omitted
              /\ \A j \in Item \ {i} : c.ver[j] = calls[d].ver[j]
              /\ i \in c.omitted \/ c.ver[i] \in {0, ver[i]}
<1>1. calls[d] \in Request
  BY DEF ReadSource, At, TypeOK
<1>2. CASE Assessed(d, [calls[d] EXCEPT !.unread = @ \ {i}, !.ver[i] = ver[i]])
  <2> DEFINE C == [calls[d] EXCEPT !.unread = @ \ {i}, !.ver[i] = ver[i]]
  <2>1. C \in Request
    BY <1>1 DEF Request, TypeOK
  <2>. QED
    BY <1>1, <1>2, <2>1 DEF Request
<1>3. CASE Assessed(d, [calls[d] EXCEPT !.unread = @ \ {i}, !.omitted = @ \cup {i}])
  <2> DEFINE C == [calls[d] EXCEPT !.unread = @ \ {i}, !.omitted = @ \cup {i}]
  <2>1. C \in Request
    BY <1>1 DEF Request
  <2>. QED
    BY <1>1, <1>3, <2>1 DEF Request
<1>4. CASE Assessed(d, [calls[d] EXCEPT !.unread = @ \ {i}, !.ver[i] = 0])
  <2> DEFINE C == [calls[d] EXCEPT !.unread = @ \ {i}, !.ver[i] = 0]
  <2>1. C \in Request
    BY <1>1 DEF Request
  <2>. QED
    BY <1>1, <1>4, <2>1 DEF Request
<1>. QED
  BY <1>1, <1>2, <1>3, <1>4 DEF ReadSource, Request

LEMMA ServeMoves ==
    ASSUME TypeOK, NEW d \in Call, Serve(d)
    PROVE  /\ UNCHANGED <<pending, acked, terminal>>
           /\ calls[d] \in Request
           /\ \/ \E a \in {"ok", "reject", "retry"} : Answer(d, a)
              \/ \E e \in Request : /\ e.kind = calls[d].kind
                                     /\ e.snap = calls[d].snap
                                     /\ e.pc # "merge"
                                     /\ Goto(d, e)
<1>0. calls[d] # None => calls[d] \in Request
  BY DEF TypeOK
<1>1. CASE Merge(d)
  <2> DEFINE E == [calls[d] EXCEPT !.pc = "target"]
  <2>1. calls[d] \in Request
    BY <1>0, <1>1 DEF Merge, At
  <2>2. E \in Request /\ E.kind = calls[d].kind /\ E.snap = calls[d].snap
       /\ E.pc # "merge"
    BY <2>1 DEF Request
  <2>3. Answer(d, "retry") \/ Answer(d, "reject") \/ Goto(d, E)
    BY <1>1 DEF Merge, Merged
  <2>. QED
    BY <1>1, <2>1, <2>2, <2>3 DEF Merge, Elsewhere
<1>2. CASE ReadTarget(d)
  <2> DEFINE C == [calls[d] EXCEPT
                !.known = TRUE, !.revs = row.revs, !.gen = row.gen,
                !.ctx = row.ctx, !.marked = row.revs \subseteq row.marker,
                !.unread = row.ctx]
             E == [calls[d] EXCEPT !.pc = "snapshot"]
  <2>1. calls[d] \in Request
    BY <1>0, <1>2 DEF ReadTarget, At
  <2>2. E \in Request /\ E.kind = calls[d].kind /\ E.snap = calls[d].snap
       /\ E.pc # "merge"
    BY <2>1 DEF Request
  <2>3. C \in Request /\ C.kind = calls[d].kind /\ C.snap = calls[d].snap
    BY <2>1 DEF Request, TypeOK, Row
  <2>4. Assessed(d, C) \/ Goto(d, E)
    BY <1>2 DEF ReadTarget
  <2>5. CASE Assessed(d, C)
    <3> HIDE DEF C
    <3>. QED
      BY <1>2, <2>1, <2>3, <2>5, AssessedMoves DEF ReadTarget, Elsewhere
  <2>. QED
    BY <1>2, <2>1, <2>2, <2>4, <2>5 DEF ReadTarget, Elsewhere
<1>3. CASE ReadSnapshot(d)
  <2> DEFINE E == [calls[d] EXCEPT !.known = row.stored, !.revs = row.revs,
                                !.gen = row.gen, !.ctx = {}, !.pc = "write"]
  <2>1. calls[d] \in Request
    BY <1>0, <1>3 DEF ReadSnapshot, At
  <2>2. E \in Request /\ E.kind = calls[d].kind /\ E.snap = calls[d].snap
       /\ E.pc # "merge"
    BY <2>1 DEF Request, TypeOK, Row
  <2>. QED
    BY <1>3, <2>1, <2>2 DEF ReadSnapshot, Elsewhere
<1>4. CASE Write(d)
  <2> DEFINE E == [calls[d] EXCEPT !.pc = "mark"]
  <2>1. calls[d] \in Request
    BY <1>0, <1>4 DEF Write, At
  <2>2. E \in Request /\ E.kind = calls[d].kind /\ E.snap = calls[d].snap
       /\ E.pc # "merge"
    BY <2>1 DEF Request
  <2>3. Answer(d, "retry") \/ Answer(d, "ok") \/ Goto(d, E)
    BY <1>4 DEF Write
  <2>. QED
    BY <1>4, <2>1, <2>2, <2>3 DEF Write, Elsewhere
<1>5. CASE Mark(d)
  BY <1>0, <1>5 DEF Mark, At, Elsewhere
<1>6. ASSUME NEW i \in Item, ReadSource(d, i)
      PROVE  /\ UNCHANGED <<pending, acked, terminal>>
             /\ calls[d] \in Request
             /\ \/ \E a \in {"ok", "reject", "retry"} : Answer(d, a)
                \/ \E e \in Request : /\ e.kind = calls[d].kind
                                       /\ e.snap = calls[d].snap
                                       /\ e.pc # "merge"
                                       /\ Goto(d, e)
  <2>1. calls[d] \in Request
    BY <1>0, <1>6 DEF ReadSource, At
  <2>2. PICK c \in Request :
            Assessed(d, c) /\ c.kind = calls[d].kind /\ c.snap = calls[d].snap
    BY <1>6, SourceAssessed
  <2>. QED
    BY <1>6, <2>1, <2>2, AssessedMoves DEF ReadSource
<1>7. CASE StepFails(d)
  <2> DEFINE E == [calls[d] EXCEPT !.pc = "snapshot"]
  <2>1. calls[d] \in Request
    BY <1>0, <1>7 DEF StepFails
  <2>2. E \in Request /\ E.kind = calls[d].kind /\ E.snap = calls[d].snap
       /\ E.pc # "merge"
    BY <2>1 DEF Request
  <2>. QED
    BY <1>7, <2>1, <2>2 DEF StepFails
<1>. QED
  BY <1>1, <1>2, <1>3, <1>4, <1>5, <1>6, <1>7 DEF Serve

\* The contexts that are merged are of a revision.
LEMMA ServeTyped ==
    ASSUME ContextConstants, TypeOK, CallsTracked, NEW d \in Call, Serve(d)
    PROVE  /\ row' \in Row
           /\ ver' = ver /\ followed' = followed
           /\ done' \subseteq Item
           /\ used' \in [posts: 0..MaxPosts, faults: 0..MaxFaults,
                         resets: 0..MaxResets, changes: 0..MaxChanges]
<1> USE DEF TypeOK
<1>0. calls[d] # None => calls[d] \in Request
  OBVIOUS
<1>1. CASE Merge(d)
  <2> DEFINE s == calls[d].snap
             R == [row EXCEPT !.ctx = @ \cup s, !.revs = @ \cup {s}, !.gen = @ + 1]
  <2>1. UNCHANGED <<ver, followed, done, used>>
    BY <1>1 DEF Merge, Elsewhere
  <2>2. row' = row \/ row' = R
    BY <1>1 DEF Merge
  <2>3. s \in Seen
    BY <1>0, <1>1 DEF Merge, At, CallsTracked, Pending, Recorded
  <2>4. s \subseteq Item
    BY <2>3 DEF ContextConstants
  <2>5. /\ row.ctx \cup s \in SUBSET Item
        /\ row.revs \cup {s} \in SUBSET Seen
        /\ row.gen + 1 \in Nat
    BY <2>3, <2>4 DEF Row
  <2>6. R \in Row
    BY <2>5 DEF Row
  <2>. QED
    BY <2>1, <2>2, <2>6
<1>2. CASE ReadTarget(d)
  BY <1>2 DEF ReadTarget, Elsewhere
<1>3. CASE ReadSnapshot(d)
  BY <1>3 DEF ReadSnapshot, Elsewhere
<1>4. CASE Write(d)
  <2>1. UNCHANGED <<ver, followed, done, used>>
    BY <1>4 DEF Write, Elsewhere
  <2>2. calls[d] \in Request
    BY <1>0, <1>4 DEF Write, At
  <2>3. ASSUME NEW g \in Nat  PROVE Partial(g) \in Class
    BY DEF Partial, Class, NoVersions
  <2>4. ASSUME NEW ai \in BOOLEAN  PROVE Classified(calls[d], ai) \in Class
    BY <2>2, <2>3 DEF Classified, Class, Request
  <2>5. \/ row' = row
        \/ \E ai \in BOOLEAN :
             row' = [row EXCEPT !.stored = TRUE, !.class = Classified(calls[d], ai)]
    BY <1>4 DEF Write
  <2>6. ASSUME NEW k \in Class
        PROVE  [row EXCEPT !.stored = TRUE, !.class = k] \in Row
    BY DEF Row
  <2>7. CASE row' # row
    <3>1. PICK ai \in BOOLEAN :
             row' = [row EXCEPT !.stored = TRUE, !.class = Classified(calls[d], ai)]
      BY <2>5, <2>7
    <3>2. Classified(calls[d], ai) \in Class
      BY <2>4
    <3>. QED
      BY <2>1, <2>6, <3>1, <3>2
  <2>. QED
    BY <2>1, <2>7
<1>5. CASE Mark(d)
  BY <1>5 DEF Mark, Elsewhere, Row
<1>6. CASE \E i \in Item : ReadSource(d, i)
  <2>1. /\ UNCHANGED <<row, ver, followed, done>>
        /\ UNCHANGED used \/ Fault
    BY <1>6 DEF ReadSource
  <2>. QED
    BY <2>1 DEF Fault, ContextConstants
<1>7. CASE StepFails(d)
  BY <1>7 DEF StepFails, Fault, ContextConstants
<1>. QED
  BY <1>1, <1>2, <1>3, <1>4, <1>5, <1>6, <1>7 DEF Serve

\* Requests stay typed and tracked, and the worker as it must be, when the
\* server takes a step.
LEMMA ServeTracked ==
    ASSUME ContextConstants, TypeOK, WorkerOK, CallsTracked,
           NEW d \in Call, Serve(d)
    PROVE  TypeOK' /\ WorkerOK' /\ CallsTracked'
<1>1. /\ UNCHANGED <<pending, acked, terminal>>
      /\ calls[d] \in Request
      /\ \/ \E a \in {"ok", "reject", "retry"} : Answer(d, a)
         \/ \E e \in Request : /\ e.kind = calls[d].kind
                                /\ e.snap = calls[d].snap
                                /\ e.pc # "merge"
                                /\ Goto(d, e)
  BY ServeMoves
<1>2. Pending' = Pending /\ Recorded' = Recorded
  BY <1>1 DEF Pending, Recorded
<1>3. /\ row' \in Row
      /\ ver' = ver /\ followed' = followed
      /\ done' \subseteq Item
      /\ used' \in [posts: 0..MaxPosts, faults: 0..MaxFaults,
                    resets: 0..MaxResets, changes: 0..MaxChanges]
  BY ServeTyped
<1>4. ASSUME NEW a \in {"ok", "reject", "retry"}, Answer(d, a)
      PROVE  TypeOK' /\ WorkerOK' /\ CallsTracked'
  <2>1. job' \in Job \cup {None} /\ calls' \in [Call -> Request \cup {None}]
    BY <1>4 DEF Answer, TypeOK, Job
  <2>2. TypeOK'
    BY <1>1, <1>3, <2>1 DEF TypeOK
  <2>3. \/ job' = job
        \/ job # None /\ job.pc = "await" /\ job' = [job EXCEPT !.pc = a]
    BY <1>4 DEF Answer
  <2>4. WorkerOK'
    BY <1>1, <1>2, <2>3 DEF WorkerOK, TypeOK, Job
  <2>5. CallsTracked'
    BY <1>2, <1>4 DEF CallsTracked, Answer, TypeOK, Job
  <2>. QED
    BY <2>2, <2>4, <2>5
<1>5. ASSUME NEW e \in Request, e.kind = calls[d].kind, e.snap = calls[d].snap,
             e.pc # "merge", Goto(d, e)
      PROVE  TypeOK' /\ WorkerOK' /\ CallsTracked'
  <2>1. TypeOK'
    BY <1>1, <1>3, <1>5 DEF TypeOK, Goto
  <2>2. WorkerOK'
    BY <1>1, <1>2, <1>5 DEF WorkerOK, Goto
  <2>3. calls[d] # None /\ e # None
    BY <1>1, <1>5, NoneIsNoRequest
  <2>4. CallsTracked'
    BY <1>2, <1>5, <2>3 DEF CallsTracked, Goto, TypeOK
  <2>. QED
    BY <2>1, <2>2, <2>4
<1>. QED
  BY <1>1, <1>4, <1>5

LEMMA FiniteTracked ==
    ASSUME ContextConstants, TypeOK
    PROVE  /\ IsFiniteSet(Pending) /\ Cardinality(Pending) \in Nat
           /\ IsFiniteSet(Recorded) /\ Cardinality(Recorded) \in Nat
           /\ IsFiniteSet(Pending \cup Recorded)
           /\ Cardinality(Pending \cup Recorded) \in Nat
           /\ Cardinality(Pending \cup Recorded)
                <= Cardinality(Pending) + Cardinality(Recorded)
<1>1. Pending \in SUBSET Seen /\ Recorded \in SUBSET Seen
  BY DEF TypeOK, Pending, Recorded
<1>2. IsFiniteSet(Seen)
  BY DEF ContextConstants
<1>3. /\ IsFiniteSet(Pending) /\ IsFiniteSet(Recorded)
      /\ IsFiniteSet(Pending \cap Recorded)
  <2>1. Pending \cap Recorded \in SUBSET Seen
    BY <1>1
  <2> HIDE DEF Pending, Recorded
  <2>. QED
    BY <1>1, <1>2, <2>1, FS_Subset
<1>4. /\ Cardinality(Pending) \in Nat /\ Cardinality(Recorded) \in Nat
      /\ Cardinality(Pending \cap Recorded) \in Nat
  BY <1>3, FS_CardinalityType
<1>5. /\ IsFiniteSet(Pending \cup Recorded)
      /\ Cardinality(Pending \cup Recorded)
           = Cardinality(Pending) + Cardinality(Recorded)
               - Cardinality(Pending \cap Recorded)
  BY <1>3, FS_Union
<1>6. Cardinality(Pending \cup Recorded) \in Nat
  BY <1>5, FS_CardinalityType
<1>. QED
  BY <1>3, <1>4, <1>5, <1>6

\* Whatever is in the queue or in the ledger stays in one of them; a revision
\* that has been answered finds room in the ledger.
LEMMA WorkTracked ==
    ASSUME ContextConstants, TypeOK, WorkerOK, CallsTracked, Work
    PROVE  /\ TypeOK' /\ WorkerOK' /\ CallsTracked'
           /\ Pending \cup Recorded \subseteq Pending' \cup Recorded'
<1> DEFINE Goal == /\ TypeOK' /\ WorkerOK' /\ CallsTracked'
                   /\ Pending \cup Recorded \subseteq Pending' \cup Recorded'
<1>0. MaxAttempts \in Nat /\ MaxAttempts > 0 /\ None \notin Nat /\ None \notin Seen
  BY DEF ContextConstants
<1>1. ASSUME NEW s \in Seen, Enqueue(s)
      PROVE  Goal
  <2>1. /\ s \notin Pending \cup Recorded
        /\ pending' = [pending EXCEPT ![s] = 0]
        /\ job' = NewJob("enrich", s, TRUE)
        /\ UNCHANGED <<row, ver, calls, done, followed, acked, terminal, used>>
    BY <1>1 DEF Enqueue, server
  <2>2. Pending' = Pending \cup {s} /\ Recorded' = Recorded
    BY <1>0, <2>1 DEF Pending, Recorded, TypeOK
  <2>3. Cardinality(Pending' \cup Recorded') <= MaxRevisions
    <3>1. Pending' \cup Recorded' = (Pending \cup Recorded) \cup {s}
      BY <2>2
    <3>2. Cardinality(Pending' \cup Recorded') = Cardinality(Pending \cup Recorded) + 1
      BY <2>1, <3>1, FiniteTracked, FS_AddElement
    <3>3. Cardinality(Recorded) + Cardinality(Pending) < MaxRevisions
      BY <1>1 DEF Enqueue, Room
    <3>. QED
      BY <3>2, <3>3, FiniteTracked DEF ContextConstants
  <2>4. job' \in Job /\ job'.kind = "enrich" /\ job'.snap = s /\ job'.pc = "send"
    BY <2>1 DEF NewJob, Job
  <2>5. /\ 0 \in 0..MaxAttempts
        /\ pending' \in [Seen -> 0..MaxAttempts \cup {None}]
        /\ pending'[s] = 0
    BY <1>0, <2>1 DEF TypeOK
  <2>6. TypeOK'
    BY <2>1, <2>4, <2>5 DEF TypeOK
  <2>7. WorkerOK'
    BY <1>0, <2>3, <2>4, <2>5 DEF WorkerOK
  <2>8. CallsTracked'
    BY <2>1, <2>2, <2>4 DEF CallsTracked
  <2>. QED
    BY <2>2, <2>6, <2>7, <2>8
<1>2. ASSUME NEW s \in Seen, RetryDue(s)
      PROVE  Goal
  <2>1. /\ pending[s] # None /\ pending[s] < MaxAttempts
        /\ job' = NewJob("enrich", s, TRUE)
        /\ UNCHANGED <<row, ver, calls, done, followed, pending, acked, terminal, used>>
    BY <1>2 DEF RetryDue, Due, server
  <2>2. Pending' = Pending /\ Recorded' = Recorded
    BY <2>1 DEF Pending, Recorded
  <2>3. job' \in Job /\ job'.kind = "enrich" /\ job'.snap = s /\ job'.pc = "send"
    BY <2>1 DEF NewJob, Job
  <2>4. TypeOK'
    BY <2>1, <2>3 DEF TypeOK
  <2>5. WorkerOK'
    BY <2>1, <2>2, <2>3 DEF WorkerOK
  <2>6. CallsTracked'
    BY <2>1, <2>2, <2>3 DEF CallsTracked
  <2>. QED
    BY <2>2, <2>4, <2>5, <2>6
<1>3. ASSUME NEW related \in BOOLEAN, PostTweet(related)
      PROVE  Goal
  <2>1. /\ job' = NewJob("post", None, related)
        /\ UNCHANGED <<row, ver, calls, done, followed, pending, acked, terminal>>
        /\ used.posts < MaxPosts /\ used' = [used EXCEPT !.posts = @ + 1]
    BY <1>3 DEF PostTweet, server
  <2>2. Pending' = Pending /\ Recorded' = Recorded
    BY <2>1 DEF Pending, Recorded
  <2>3. job' \in Job /\ job'.kind = "post" /\ job'.pc = "send"
    BY <2>1 DEF NewJob, Job
  <2>4. TypeOK'
    BY <2>1, <2>3 DEF TypeOK, ContextConstants
  <2>. QED
    BY <2>1, <2>2, <2>3, <2>4 DEF WorkerOK, CallsTracked
<1>4. ASSUME NEW d \in Call, Send(d)
      PROVE  Goal
  <2> DEFINE E == NewRequest(job)
  <2>1. /\ job # None /\ job.pc = "send" /\ job \in Job
        /\ calls[d] = None
        /\ calls' = [calls EXCEPT ![d] = E]
        /\ job' = [job EXCEPT !.pc = "await", !.slot = d]
        /\ UNCHANGED <<row, ver, done, followed, pending, acked, terminal, used>>
    BY <1>4 DEF Send, Free, TypeOK
  <2>2. Pending' = Pending /\ Recorded' = Recorded
    BY <2>1 DEF Pending, Recorded
  <2>3. /\ E \in Request /\ E.kind = job.kind /\ E.snap = job.snap
        /\ E.pc = "merge" => job.kind = "enrich"
    BY <2>1 DEF NewRequest, NoVersions, Request, Job
  <2>4. E # None
    BY <2>3, NoneIsNoRequest
  <2> HIDE DEF E
  <2>5. TypeOK'
    BY <2>1, <2>3 DEF TypeOK, Job
  <2>6. WorkerOK'
    BY <2>1, <2>2 DEF WorkerOK, Job
  <2>7. job.kind = "enrich" => job.snap \in Pending \cup Recorded
    BY <2>1 DEF WorkerOK, Pending
  <2>8. CallsTracked'
    BY <2>1, <2>2, <2>3, <2>4, <2>7 DEF CallsTracked, TypeOK, Job
  <2>. QED
    BY <2>2, <2>5, <2>6, <2>8
<1>5. CASE RequestFails
  <2>1. /\ job # None /\ job.pc \in {"send", "await"} /\ job \in Job
        /\ job' = [job EXCEPT !.pc = "retry", !.slot = None]
        /\ UNCHANGED <<row, ver, calls, done, followed, pending, acked, terminal>>
    BY <1>5 DEF RequestFails, TypeOK, server
  <2>2. Pending' = Pending /\ Recorded' = Recorded
    BY <2>1 DEF Pending, Recorded
  <2>3. used' \in [posts: 0..MaxPosts, faults: 0..MaxFaults,
                  resets: 0..MaxResets, changes: 0..MaxChanges]
    BY <1>5 DEF RequestFails, Fault, TypeOK, ContextConstants
  <2>4. job' \in Job
    BY <2>1 DEF Job
  <2>5. TypeOK'
    BY <2>1, <2>3, <2>4 DEF TypeOK
  <2>. QED
    BY <2>1, <2>2, <2>5 DEF WorkerOK, CallsTracked, Job
<1>6. CASE RecordFailure
  <2>1. /\ job # None /\ job.pc = "retry" /\ job \in Job
        /\ job' = None
        /\ UNCHANGED <<row, ver, calls, done, followed, acked, terminal, used>>
        /\ \/ pending' = pending
           \/ /\ job.kind = "enrich" /\ pending[job.snap] # None
              /\ pending' = [pending EXCEPT ![job.snap] = pending[job.snap] + 1]
    BY <1>6 DEF RecordFailure, Failed, TypeOK, server
  <2>2. /\ pending' \in [Seen -> 0..MaxAttempts \cup {None}]
        /\ Pending' = Pending /\ Recorded' = Recorded
    BY <1>0, <2>1 DEF Pending, Recorded, TypeOK, WorkerOK
  <2>. QED
    BY <2>1, <2>2 DEF TypeOK, WorkerOK, CallsTracked
<1>7. CASE Record
  <2>1. /\ job # None /\ job.pc \in {"ok", "reject"} /\ job \in Job
        /\ UNCHANGED <<row, ver, calls, done, followed, pending, used>>
    BY <1>7 DEF Record, TypeOK, server
  <2>2. CASE job.kind = "post"
    <3>1. job' = None /\ UNCHANGED <<acked, terminal>>
      BY <1>7, <2>2 DEF Record
    <3>2. Pending' = Pending /\ Recorded' = Recorded
      BY <2>1, <3>1 DEF Pending, Recorded
    <3>. QED
      BY <2>1, <3>1, <3>2 DEF TypeOK, WorkerOK, CallsTracked
  <2>3. CASE job.kind = "enrich"
    <3>1. job.snap \in Seen /\ job.snap \in Pending
      BY <2>1, <2>3 DEF WorkerOK, Pending
    <3>2. job.snap \notin Recorded => Cardinality(Recorded) < MaxRevisions
      <4>. SUFFICES ASSUME job.snap \notin Recorded
                    PROVE  Cardinality(Recorded) < MaxRevisions
        OBVIOUS
      <4>1. Cardinality(Recorded \cup {job.snap}) = Cardinality(Recorded) + 1
        BY FiniteTracked, FS_AddElement
      <4>2. Recorded \cup {job.snap} \in SUBSET (Pending \cup Recorded)
        BY <3>1
      <4>3. Cardinality(Recorded \cup {job.snap}) <= Cardinality(Pending \cup Recorded)
        BY <4>2, FiniteTracked, FS_Subset
      <4>. QED
        BY <4>1, <4>3, FiniteTracked DEF WorkerOK, ContextConstants
    <3>3. /\ job' = [job EXCEPT !.pc = "recorded", !.slot = None]
          /\ acked' \subseteq Seen /\ terminal' \subseteq Seen
          /\ Recorded' = Recorded \cup {job.snap}
      BY <1>7, <2>1, <2>3, <3>1, <3>2 DEF Record, Recorded, TypeOK
    <3>4. /\ Pending' = Pending
          /\ Pending' \cup Recorded' = Pending \cup Recorded
      BY <2>1, <3>1, <3>3 DEF Pending
    <3>5. TypeOK'
      BY <2>1, <3>3 DEF TypeOK, Job
    <3>6. WorkerOK'
      BY <2>1, <2>3, <3>1, <3>3, <3>4 DEF WorkerOK, Job, Pending
    <3>7. CallsTracked'
      BY <2>1, <3>3, <3>4 DEF CallsTracked, Job
    <3>. QED
      BY <3>4, <3>5, <3>6, <3>7
  <2>. QED
    BY <2>1, <2>2, <2>3 DEF Job
<1>8. CASE Forget
  <2>1. /\ job # None /\ job.pc = "recorded"
        /\ pending' = [pending EXCEPT ![job.snap] = None]
        /\ job' = None
        /\ UNCHANGED <<row, ver, calls, done, followed, acked, terminal, used>>
    BY <1>8 DEF Forget, server
  <2>2. job.snap \in Recorded /\ job.snap \in Seen
    BY <2>1 DEF WorkerOK
  <2>3. Recorded' = Recorded /\ Pending' \cup Recorded' = Pending \cup Recorded
    BY <2>1, <2>2 DEF Pending, Recorded, TypeOK
  <2>. QED
    BY <2>1, <2>3 DEF TypeOK, WorkerOK, CallsTracked
<1>9. CASE ResetRetries
  <2>1. /\ pending' = [s \in Seen |-> IF pending[s] = None THEN None ELSE 0]
        /\ UNCHANGED <<row, ver, calls, done, followed, acked, terminal, job>>
    BY <1>9 DEF ResetRetries, server
  <2>2. Pending' = Pending /\ Recorded' = Recorded
    BY <1>0, <2>1 DEF Pending, Recorded
  <2>3. TypeOK'
    BY <1>0, <1>9, <2>1 DEF ResetRetries, TypeOK, ContextConstants
  <2>. QED
    BY <1>0, <2>1, <2>2, <2>3 DEF WorkerOK, CallsTracked
<1>10. CASE Restart
  <2>1. job' = None /\ UNCHANGED <<row, ver, calls, done, followed, pending, acked, terminal>>
    BY <1>10 DEF Restart, server
  <2>2. Pending' = Pending /\ Recorded' = Recorded
    BY <2>1 DEF Pending, Recorded
  <2>3. TypeOK'
    BY <1>10, <2>1 DEF Restart, Fault, TypeOK, ContextConstants
  <2>. QED
    BY <2>1, <2>2, <2>3 DEF WorkerOK, CallsTracked
<1>. QED
  BY <1>1, <1>2, <1>3, <1>4, <1>5, <1>6, <1>7, <1>8, <1>9, <1>10 DEF Work

----------------------------------------------------------------------------
(* The row, and what requests have read of it.                             *)

\* What is sound stays so when nothing it depends on is written ...
LEMMA SoundStays ==
    ASSUME UNCHANGED <<row, followed>>, NEW c \in Request, Sound(c)
    PROVE  Sound(c)'
BY DEF Sound, Fresh, Retryable

\* ... and the other requests stay sound when one takes a step.
LEMMA OthersSound ==
    ASSUME TypeOK, CallsSound, NEW d \in Call, NEW x \in Request \cup {None},
           calls' = [calls EXCEPT ![d] = x],
           x # None => Sound(x)',
           \A c \in Request : Sound(c) => Sound(c)'
    PROVE  CallsSound'
<1>1. ASSUME NEW e \in Call, calls'[e] # None
      PROVE  Sound(calls[e])'
  <2>1. CASE e = d
    <3>1. calls'[e] = x
      BY <2>1 DEF TypeOK
    <3>. QED
      BY <1>1, <3>1 DEF Sound, Fresh
  <2>2. CASE e # d
    <3>1. calls'[e] = calls[e] /\ calls[e] \in Request
      BY <1>1, <2>2 DEF TypeOK
    <3>2. PICK c \in Request : c = calls[e]
      BY <3>1
    <3>3. Sound(c)
      BY <1>1, <3>1, <3>2 DEF CallsSound
    <3>4. Sound(c)'
      BY <3>3
    <3>. QED
      BY <3>1, <3>2, <3>4 DEF Sound, Fresh
  <2>. QED
    BY <2>1, <2>2
<1>. QED
  BY <1>1 DEF CallsSound

LEMMA AssessedSound ==
    ASSUME TypeOK, NEW d \in Call, NEW c \in Request, Assessed(d, c), Fresh(c),
           UNCHANGED <<row, followed>>
    PROVE  \E x \in Request \cup {None} :
               /\ calls' = [calls EXCEPT ![d] = x]
               /\ x # None => Sound(x)'
<1> DEFINE Reading == [c EXCEPT !.pc = "sources"]
           Writing == [c EXCEPT !.pc = "write", !.marked = FALSE]
           Bare == [c EXCEPT !.pc = "write", !.marked = FALSE, !.ctx = {},
                             !.omitted = {}, !.ver = NoVersions]
<1>1. Reading \in Request /\ Sound(Reading)
  BY DEF Request, Sound, Fresh
<1>2. Bare \in Request /\ Sound(Bare)
  <2>1. NoVersions \in [Item -> Nat]
    BY DEF NoVersions
  <2>2. /\ Bare \in Request /\ Bare.ctx = {} /\ Bare.pc = "write"
        /\ Bare.gen = c.gen /\ Bare.known = c.known
    BY <2>1 DEF Request
  <2> HIDE DEF Bare
  <2>. QED
    BY <2>2 DEF Sound, Fresh
<1>3. Writing \in Request
  BY DEF Request
<1>4. c.unread = {} /\ ~Retryable(c) => Sound(Writing)
  BY DEF Request, Sound, Fresh, Retryable
<1>5. \/ calls' = [calls EXCEPT ![d] = None]
      \/ calls' = [calls EXCEPT ![d] = Reading]
      \/ calls' = [calls EXCEPT ![d] = Bare]
      \/ c.unread = {} /\ ~Retryable(c) /\ calls' = [calls EXCEPT ![d] = Writing]
  BY DEF Assessed, Goto, Answer, Complete
<1>6. PICK x \in Request \cup {None} :
         calls' = [calls EXCEPT ![d] = x] /\ (x # None => Sound(x))
  <2> HIDE DEF Reading, Writing, Bare
  <2>. QED
    BY <1>1, <1>2, <1>3, <1>4, <1>5
<1>7. x # None => Sound(x)'
  BY <1>6, SoundStays
<1>. QED
  BY <1>6, <1>7

LEMMA MergeSound ==
    ASSUME TypeOK, CallsTracked, RowOK, CallsSound, NEW d \in Call, Merge(d)
    PROVE  RowOK' /\ CallsSound'
<1> DEFINE s == calls[d].snap
           R == [row EXCEPT !.ctx = @ \cup s, !.revs = @ \cup {s}, !.gen = @ + 1]
           E == [calls[d] EXCEPT !.pc = "target"]
<1>1. calls[d] # None /\ calls[d] \in Request /\ UNCHANGED <<ver, followed>>
  BY DEF Merge, At, TypeOK
<1>2. E \in Request
  BY <1>1 DEF Request
<1>3. Sound(E)
  BY <1>1 DEF CallsSound, Sound, Fresh, Request
<1>4. PICK x \in {None, E} : calls' = [calls EXCEPT ![d] = x]
  BY DEF Merge, Merged, Goto, Answer
<1>5. x \in Request \cup {None} /\ (x # None => Sound(x))
  BY <1>2, <1>3, <1>4
<1>6. CASE row' = row
  <2>1. x # None => Sound(x)'
    BY <1>1, <1>5, <1>6, SoundStays
  <2>2. \A c \in Request : Sound(c) => Sound(c)'
    BY <1>1, <1>6, SoundStays
  <2>3. CallsSound'
    BY <1>4, <1>5, <2>1, <2>2, OthersSound
  <2>. QED
    BY <1>1, <1>6, <2>3 DEF RowOK
<1>7. CASE row' = R /\ s \notin row.revs /\ row.stored
  <2>1. /\ row'.gen = row.gen + 1 /\ row'.class = row.class /\ row'.stored
        /\ row'.marker = row.marker /\ row'.revs = row.revs \cup {s}
    BY <1>7 DEF TypeOK, Row
  <2>2. row.gen \in Nat /\ row.class.gen \in Nat
    BY DEF TypeOK, Row, Class
  <2>3. \A c \in Request : Sound(c) => Sound(c)'
    BY <1>1, <2>1, <2>2 DEF Sound, Fresh, Request, Retryable
  <2>4. CallsSound'
    BY <1>4, <1>5, <2>3, OthersSound
  <2>5. RowOK'
    BY <1>1, <1>7, <2>1, <2>2 DEF RowOK
  <2>. QED
    BY <2>4, <2>5
<1>. QED
  BY <1>6, <1>7 DEF Merge

LEMMA ReadSound ==
    ASSUME TypeOK, RowOK, CallsSound, NEW d \in Call,
           \/ ReadTarget(d) \/ ReadSnapshot(d) \/ StepFails(d)
           \/ \E i \in Item : ReadSource(d, i)
    PROVE  RowOK' /\ CallsSound'
<1>1. /\ calls[d] # None /\ calls[d] \in Request
      /\ UNCHANGED <<row, ver, followed>>
  BY DEF ReadTarget, ReadSnapshot, StepFails, ReadSource, At, TypeOK
<1>2. Sound(calls[d]) /\ Fresh(calls[d])
  BY <1>1 DEF CallsSound, Sound
<1> DEFINE Goal == \E x \in Request \cup {None} :
               /\ calls' = [calls EXCEPT ![d] = x]
               /\ x # None => Sound(x)'
           E == [calls[d] EXCEPT !.pc = "snapshot"]
<1>3. ASSUME NEW e \in Request, Sound(e), Goto(d, e)
      PROVE  Goal
  BY <1>1, <1>3, SoundStays DEF Goto
<1>4. E \in Request /\ Sound(E)
  BY <1>1, <1>2 DEF Request, Sound, Fresh
<1>5. ASSUME ReadTarget(d)  PROVE Goal
  <2> DEFINE C == [calls[d] EXCEPT
                !.known = TRUE, !.revs = row.revs, !.gen = row.gen,
                !.ctx = row.ctx, !.marked = row.revs \subseteq row.marker,
                !.unread = row.ctx]
  <2>1. C \in Request
    BY <1>1 DEF Request, TypeOK, Row
  <2>2. C.known /\ C.gen = row.gen /\ C.ctx = row.ctx /\ C.unread = row.ctx
    BY <1>1 DEF Request
  <2>3. (row.stored /\ Assessed(d, C)) \/ Goto(d, E)
    BY <1>5 DEF ReadTarget
  <2> HIDE DEF C
  <2>5. CASE row.stored /\ Assessed(d, C)
    <3>1. Fresh(C)
      BY <2>2, <2>5 DEF Fresh, TypeOK, Row
    <3>. QED
      BY <1>1, <2>1, <2>5, <3>1, AssessedSound
  <2>6. CASE Goto(d, E)
    <3> HIDE DEF E
    <3>. QED
      BY <1>3, <1>4, <2>6
  <2>. QED
    BY <2>3, <2>5, <2>6
<1>6. ASSUME ReadSnapshot(d)  PROVE Goal
  <2> DEFINE C == [calls[d] EXCEPT !.known = row.stored, !.revs = row.revs,
                                !.gen = row.gen, !.ctx = {}, !.pc = "write"]
  <2>1. C \in Request
    BY <1>1 DEF Request, TypeOK, Row
  <2>2. /\ C.gen = row.gen /\ C.ctx = {} /\ C.pc = "write"
        /\ C.known = row.stored
    BY <1>1 DEF Request
  <2>3. Goto(d, C)
    BY <1>6 DEF ReadSnapshot
  <2> HIDE DEF C
  <2>4. Sound(C)
    BY <2>2 DEF Sound, Fresh, TypeOK, Row
  <2>. QED
    BY <1>3, <2>1, <2>3, <2>4
<1>7. ASSUME StepFails(d)  PROVE Goal
  <2>1. Goto(d, E) \/ calls' = [calls EXCEPT ![d] = None]
    BY <1>7 DEF StepFails, Answer
  <2> HIDE DEF E
  <2>. QED
    BY <1>3, <1>4, <2>1
<1>8. ASSUME NEW i \in Item, ReadSource(d, i)
      PROVE  Goal
  <2>1. PICK c \in Request :
              /\ Assessed(d, c)
              /\ c.known = calls[d].known /\ c.gen = calls[d].gen
              /\ c.ctx = calls[d].ctx /\ c.unread = calls[d].unread \ {i}
              /\ calls[d].omitted \subseteq c.omitted
              /\ \A j \in Item \ {i} : c.ver[j] = calls[d].ver[j]
              /\ i \in c.omitted \/ c.ver[i] \in {0, ver[i]}
    BY <1>8, SourceAssessed
  <2>2. c.ctx \subseteq Item
    BY DEF Request
  <2>3. ASSUME c.ctx # {}, c.gen = row.gen,
               NEW j \in c.ctx \ (c.unread \cup c.omitted), c.ver[j] > 0
        PROVE  c.ver[j] >= followed[j]
    <3>1. CASE j = i
      BY <2>1, <2>2, <2>3, <3>1 DEF RowOK, TypeOK
    <3>2. CASE j # i
      BY <1>2, <2>1, <2>2, <2>3, <3>2 DEF Fresh
    <3>. QED
      BY <3>1, <3>2
  <2>4. Fresh(c)
    BY <1>2, <2>1, <2>3 DEF Fresh
  <2>. QED
    BY <1>1, <2>1, <2>4, AssessedSound
<1>9. PICK x \in Request \cup {None} :
               /\ calls' = [calls EXCEPT ![d] = x]
               /\ x # None => Sound(x)'
  BY <1>5, <1>6, <1>7, <1>8
<1>10. \A c \in Request : Sound(c) => Sound(c)'
  BY <1>1, SoundStays
<1>11. CallsSound'
  BY <1>9, <1>10, OthersSound
<1>. QED
  BY <1>1, <1>11 DEF RowOK

\* A class is written only if the row is as it was read, so it is of the row's
\* generation; or into a row that is not there, which no other request knows.
LEMMA WriteSound ==
    ASSUME TypeOK, RowOK, CallsSound, NEW d \in Call, Write(d)
    PROVE  RowOK' /\ CallsSound'
<1>1. /\ calls[d] # None /\ calls[d] \in Request /\ calls[d].pc = "write"
      /\ UNCHANGED <<ver, followed>>
  BY DEF Write, At, TypeOK
<1>2. Sound(calls[d]) /\ Fresh(calls[d])
  BY <1>1 DEF CallsSound, Sound
<1> DEFINE K(ai) == Classified(calls[d], ai)
           E == [calls[d] EXCEPT !.pc = "mark"]
<1>3. CASE row' = row /\ calls' = [calls EXCEPT ![d] = None]
  <2>1. \A c \in Request : Sound(c) => Sound(c)'
    BY <1>1, <1>3, SoundStays
  <2>2. CallsSound'
    BY <1>3, <2>1, OthersSound
  <2>. QED
    BY <1>1, <1>3, <2>2 DEF RowOK
<1>4. ASSUME NEW ai \in BOOLEAN,
             IF calls[d].known THEN Unchanged(calls[d]) ELSE ~row.stored,
             row' = [row EXCEPT !.stored = TRUE, !.class = K(ai)],
             \/ calls' = [calls EXCEPT ![d] = None]
             \/ K(ai).full /\ calls' = [calls EXCEPT ![d] = E]
      PROVE  RowOK' /\ CallsSound'
  <2>1. /\ row'.gen = row.gen /\ row'.ctx = row.ctx /\ row'.revs = row.revs
        /\ row'.marker = row.marker /\ row'.class = K(ai) /\ row'.stored
        /\ row.gen \in Nat
    BY <1>4 DEF TypeOK, Row
  <2>2. /\ K(ai).gen = calls[d].gen
        /\ K(ai).full => /\ K(ai).ctx = calls[d].ctx /\ K(ai).ver = calls[d].ver
                         /\ K(ai).omitted = calls[d].omitted /\ calls[d].ctx # {}
    BY DEF Classified, Partial
  <2>3. K(ai).full => calls[d].known
    BY <1>2, <2>2 DEF Fresh
  <2>4. calls[d].known => calls[d].gen = row.gen
    BY <1>4 DEF Unchanged
  <2>5. /\ K(ai).gen <= row.gen
        /\ row.stored => K(ai).gen = row.gen
    BY <1>2, <1>4, <2>2, <2>4 DEF Fresh
  <2>6. K(ai).full =>
           /\ K(ai).ctx = row.ctx
           /\ \A i \in row.ctx \ K(ai).omitted :
                 K(ai).ver[i] > 0 /\ K(ai).ver[i] >= followed[i]
    <3>1. calls[d].ver \in [Item -> Nat] /\ calls[d].ctx \subseteq Item
      BY <1>1 DEF Request
    <3>. QED
      BY <1>1, <1>2, <2>2, <2>3, <2>4, <3>1 DEF Sound, Fresh, Retryable
  <2> HIDE DEF K
  <2>7. RowOK'
    BY <1>1, <2>1, <2>5, <2>6 DEF RowOK
  <2>8. \A c \in Request : Sound(c) => Sound(c)'
    BY <1>1, <2>1, <2>5 DEF Sound, Fresh, Retryable
  <2>9. CASE calls' = [calls EXCEPT ![d] = None]
    BY <2>7, <2>8, <2>9, OthersSound
  <2>10. CASE K(ai).full /\ calls' = [calls EXCEPT ![d] = E]
    <3>1. /\ E \in Request /\ E.known /\ E.gen = row.gen /\ E.pc = "mark"
          /\ E.ctx = calls[d].ctx /\ E.ver = calls[d].ver
          /\ E.unread = calls[d].unread /\ E.omitted = calls[d].omitted
      BY <1>1, <2>3, <2>4, <2>10 DEF Request
    <3> HIDE DEF E
    <3>2. PICK x \in Request : x = E
      BY <3>1
    <3>3. K(ai).gen = row.gen
      BY <2>2, <2>3, <2>4, <2>10
    <3>4. Fresh(x)'
      BY <1>1, <1>2, <2>1, <2>3, <2>4, <2>10, <3>1, <3>2 DEF Fresh
    <3>5. Sound(x)'
      BY <2>1, <3>1, <3>2, <3>3, <3>4 DEF Sound
    <3>6. CallsSound'
      BY <2>8, <2>10, <3>2, <3>5, OthersSound
    <3>. QED
      BY <2>7, <3>6
  <2>. QED
    BY <1>4, <2>9, <2>10
<1>5. \/ row' = row /\ calls' = [calls EXCEPT ![d] = None]
      \/ \E ai \in BOOLEAN :
            /\ IF calls[d].known THEN Unchanged(calls[d]) ELSE ~row.stored
            /\ row' = [row EXCEPT !.stored = TRUE, !.class = K(ai)]
            /\ \/ calls' = [calls EXCEPT ![d] = None]
               \/ K(ai).full /\ calls' = [calls EXCEPT ![d] = E]
  BY DEF Write, Goto, Answer
<1>. QED
  BY <1>3, <1>4, <1>5

LEMMA MarkSound ==
    ASSUME TypeOK, RowOK, CallsSound, NEW d \in Call, Mark(d)
    PROVE  RowOK' /\ CallsSound'
<1>1. /\ calls[d] # None /\ calls[d].pc = "mark" /\ calls[d] \in Request
      /\ UNCHANGED <<ver, followed>>
  BY DEF Mark, At, TypeOK
<1>2. calls' = [calls EXCEPT ![d] = None]
  BY DEF Mark, Answer
<1>3. Sound(calls[d])
  BY <1>1 DEF CallsSound
<1>4. CASE row' = row
  <2>1. \A c \in Request : Sound(c) => Sound(c)'
    BY <1>1, <1>4, SoundStays
  <2>2. CallsSound'
    BY <1>2, <2>1, OthersSound
  <2>. QED
    BY <1>1, <1>4, <2>2 DEF RowOK
<1>5. CASE Unchanged(calls[d]) /\ row' = [row EXCEPT !.marker = row.revs]
  <2>1. /\ row'.gen = row.gen /\ row'.ctx = row.ctx /\ row'.revs = row.revs
        /\ row'.marker = row.revs /\ row'.class = row.class
        /\ row'.stored = row.stored
        /\ row.gen \in Nat /\ row.class.gen \in Nat /\ calls[d].gen = row.gen
    BY <1>5 DEF TypeOK, Row, Class, Unchanged
  <2>2. row.class.gen = row.gen
    BY <1>1, <1>3, <2>1 DEF Sound, RowOK
  <2>3. RowOK'
    BY <1>1, <2>1, <2>2 DEF RowOK
  <2>4. \A c \in Request : Sound(c) => Sound(c)'
    BY <1>1, <2>1 DEF Sound, Fresh, Retryable
  <2>5. CallsSound'
    BY <1>2, <2>4, OthersSound
  <2>. QED
    BY <2>3, <2>5
<1>. QED
  BY <1>4, <1>5 DEF Mark

\* A change of a post referred to counts in the generation if the trigger follows it;
\* what was read of another is not older than what was followed.
LEMMA SourceSound ==
    ASSUME TypeOK, RowOK, CallsSound, NEW i \in Item,
           SourceStored(i) \/ SourceChanges(i)
    PROVE  RowOK' /\ CallsSound'
<1>1. calls' = calls
  BY DEF SourceStored, SourceChanges, worker
<1>2. /\ row.gen \in Nat /\ row.class.gen \in Nat
      /\ ver \in [Item -> Nat] /\ followed \in [Item -> Nat]
      /\ \A j \in Item : ver'[j] >= ver[j]
  BY DEF SourceStored, SourceChanges, TypeOK, Row, Class
<1>3. CASE UNCHANGED <<row, followed>>
  <2>1. \A j \in Item : followed'[j] <= ver'[j]
    BY <1>2, <1>3 DEF RowOK, SourceStored, SourceChanges, TypeOK
  <2>2. RowOK'
    BY <1>3, <2>1 DEF RowOK
  <2>3. \A c \in Request : Sound(c) => Sound(c)'
    BY <1>3, SoundStays
  <2>. QED
    BY <1>1, <2>2, <2>3 DEF CallsSound, TypeOK
<1>4. CASE /\ row' = [row EXCEPT !.gen = @ + 1, !.marker = {}]
           /\ followed' = [followed EXCEPT ![i] = ver'[i]]
           /\ i \in row.ctx
  <2>1. /\ row'.gen = row.gen + 1 /\ row'.marker = {} /\ row'.class = row.class
        /\ row'.ctx = row.ctx /\ row'.revs = row.revs /\ row'.stored = row.stored
    BY <1>4 DEF TypeOK, Row
  <2>2. \A j \in Item : followed'[j] <= ver'[j]
    BY <1>2, <1>4 DEF RowOK, SourceStored, SourceChanges, TypeOK
  <2>3. RowOK'
    BY <1>2, <2>1, <2>2 DEF RowOK
  <2>4. ASSUME NEW c \in Request, Sound(c)  PROVE Sound(c)'
    BY <1>2, <2>1, <2>4 DEF Sound, Fresh, Request, Retryable
  <2>. QED
    BY <1>1, <2>3, <2>4 DEF CallsSound, TypeOK
<1>. QED
  BY <1>3, <1>4 DEF SourceStored, SourceChanges, Invalidated

\* The worker's steps begin requests, which have read nothing.
LEMMA WorkSound ==
    ASSUME TypeOK, RowOK, CallsSound, Work
    PROVE  RowOK' /\ CallsSound'
<1>1. UNCHANGED <<row, ver, followed>>
  BY DEF Work, Enqueue, RetryDue, PostTweet, Send, RequestFails, RecordFailure,
         Record, Forget, ResetRetries, Restart, server
<1>2. \A c \in Request : Sound(c) => Sound(c)'
  BY <1>1, SoundStays
<1>3. CASE calls' = calls
  BY <1>1, <1>2, <1>3 DEF CallsSound, RowOK, TypeOK
<1>4. ASSUME NEW d \in Call, Send(d)
      PROVE  RowOK' /\ CallsSound'
  <2> DEFINE E == NewRequest(job)
  <2>1. /\ job \in Job /\ calls' = [calls EXCEPT ![d] = E]
    BY <1>4 DEF Send, TypeOK
  <2>2. E \in Request
    BY <2>1 DEF NewRequest, NoVersions, Request, Job
  <2>3. ~E.known /\ E.gen = 0 /\ E.ctx = {} /\ E.pc # "mark"
    BY DEF NewRequest
  <2> HIDE DEF E
  <2>4. PICK x \in Request : x = E
    BY <2>2
  <2>5. row'.gen \in Nat
    BY <1>1 DEF TypeOK, Row
  <2>7. Sound(x)'
    BY <2>3, <2>4, <2>5 DEF Sound, Fresh
  <2>6. CallsSound'
    BY <1>2, <2>1, <2>4, <2>7, OthersSound
  <2>. QED
    BY <1>1, <2>6 DEF RowOK
<1>5. calls' = calls \/ \E d \in Call : Send(d)
  BY DEF Work, Enqueue, RetryDue, PostTweet, RequestFails, RecordFailure,
         Record, Forget, ResetRetries, Restart, server
<1>. QED
  BY <1>3, <1>4, <1>5

----------------------------------------------------------------------------
(* What went into a class, and what the worker is told of it.              *)

\* What is justified stays so when the row and the classes only grow.
LEMMA OthersJustified ==
    ASSUME TypeOK, CallsJustified, NEW d \in Call, NEW x \in Request \cup {None},
           calls' = [calls EXCEPT ![d] = x],
           x # None => Justified(x)',
           row.ctx \subseteq row'.ctx, row.stored => row'.stored, done \subseteq done'
    PROVE  CallsJustified'
<1>1. ASSUME NEW e \in Call, calls'[e] # None
      PROVE  Justified(calls[e])'
  <2>1. CASE e = d
    <3>1. calls'[e] = x
      BY <2>1 DEF TypeOK
    <3>. QED
      BY <1>1, <3>1 DEF Justified
  <2>2. CASE e # d
    <3>1. calls'[e] = calls[e]
      BY <2>2 DEF TypeOK
    <3>2. Justified(calls[e])
      BY <1>1, <3>1 DEF CallsJustified
    <3>. QED
      BY <3>1, <3>2 DEF Justified
  <2>. QED
    BY <2>1, <2>2
<1>. QED
  BY <1>1 DEF CallsJustified

\* An answer "ok" reaches the worker only for contexts that went into a class.
LEMMA AnswerJustified ==
    ASSUME TypeOK, CallsTracked, AcksOK, NEW d \in Call, NEW a, Answer(d, a),
           UNCHANGED acked, done \subseteq done',
           a = "ok" /\ calls[d].kind = "enrich" => calls[d].snap \subseteq done'
    PROVE  AcksOK'
<1>1. AckedWasClassified'
  BY DEF AcksOK, AckedWasClassified
<1>2. CASE job' = job
  BY <1>1, <1>2 DEF AcksOK
<1>3. CASE /\ job # None /\ job.pc = "await" /\ job.slot = d
           /\ job' = [job EXCEPT !.pc = a]
  <2>1. /\ job'.kind = job.kind /\ job'.snap = job.snap /\ job'.pc = a
        /\ calls[d].kind = job.kind /\ calls[d].snap = job.snap
    BY <1>3 DEF CallsTracked, TypeOK, Job
  <2>. QED
    BY <1>1, <2>1 DEF AcksOK
<1>. QED
  BY <1>2, <1>3 DEF Answer

LEMMA GotoJustified ==
    ASSUME AcksOK, UNCHANGED <<job, acked>>, done \subseteq done'
    PROVE  AcksOK'
BY DEF AcksOK, AckedWasClassified

Justifying == MarkerOK /\ CallsJustified /\ AcksOK

LEMMA AssessedJustified ==
    ASSUME TypeOK, CallsTracked, Justifying, NEW d \in Call, NEW c \in Request,
           Assessed(d, c), UNCHANGED <<row, done, acked>>,
           c.kind = calls[d].kind, c.snap = calls[d].snap,
           c.kind = "enrich" => /\ c.snap \subseteq row.ctx /\ row.stored
                                /\ c.ctx # {}
                                /\ c.marked => c.snap \subseteq done
    PROVE  Justifying'
<1> DEFINE Reading == [c EXCEPT !.pc = "sources"]
           Writing == [c EXCEPT !.pc = "write", !.marked = FALSE]
           Bare == [c EXCEPT !.pc = "write", !.marked = FALSE, !.ctx = {},
                             !.omitted = {}, !.ver = NoVersions]
<1>1. MarkerOK'
  BY DEF Justifying, MarkerOK
<1>2. ASSUME NEW a, Answer(d, a), a = "ok" /\ c.kind = "enrich" => c.marked
      PROVE  Justifying'
  <2>1. calls' = [calls EXCEPT ![d] = None]
    BY <1>2 DEF Answer
  <2>2. CallsJustified'
    BY <2>1, OthersJustified DEF Justifying
  <2>3. AcksOK'
    BY <1>2, AnswerJustified DEF Justifying
  <2>. QED
    BY <1>1, <2>2, <2>3 DEF Justifying
<1>3. ASSUME NEW e \in Request, Justified(e), Goto(d, e)
      PROVE  Justifying'
  <2>1. Justified(e)'
    BY <1>3 DEF Justified
  <2>2. CallsJustified'
    BY <1>3, <2>1, OthersJustified DEF Justifying, Goto
  <2>3. AcksOK'
    BY <1>3, GotoJustified DEF Justifying, Goto
  <2>. QED
    BY <1>1, <2>2, <2>3 DEF Justifying
<1>4. Reading \in Request /\ Justified(Reading)
  BY DEF Request, Justified
<1>5. NoVersions \in [Item -> Nat]
  BY DEF NoVersions
<1>6. Writing \in Request /\ Justified(Writing)
  BY DEF Request, Justified
<1>7. c.kind # "enrich" => Bare \in Request /\ Justified(Bare)
  BY <1>5 DEF Request, Justified
<1>8. \/ Answer(d, "retry")
      \/ c.kind = "enrich" /\ c.marked /\ Answer(d, "ok")
      \/ Goto(d, Reading)
      \/ Goto(d, Writing)
      \/ c.kind # "enrich" /\ Goto(d, Bare)
  BY DEF Assessed
<1>10. \/ \E a : Answer(d, a) /\ (a = "ok" /\ c.kind = "enrich" => c.marked)
       \/ \E e \in Request : Justified(e) /\ Goto(d, e)
  <2> HIDE DEF Reading, Writing, Bare
  <2>. QED
    BY <1>4, <1>6, <1>7, <1>8
<1>11. CASE \E e \in Request : Justified(e) /\ Goto(d, e)
  <2>1. PICK e \in Request : Justified(e) /\ Goto(d, e)
    BY <1>11
  <2>. QED
    BY <1>3, <2>1
<1>12. CASE \E a : Answer(d, a) /\ (a = "ok" /\ c.kind = "enrich" => c.marked)
  BY <1>2, <1>12
<1>. QED
  BY <1>10, <1>11, <1>12

\* A revision that is merged has its contexts in the row, and is not covered by
\* the marker.
LEMMA MergeJustified ==
    ASSUME ContextConstants, TypeOK, CallsTracked, RowOK, Justifying,
           NEW d \in Call, Merge(d)
    PROVE  Justifying'
<1> DEFINE s == calls[d].snap
           R == [row EXCEPT !.ctx = @ \cup s, !.revs = @ \cup {s}, !.gen = @ + 1]
           E == [calls[d] EXCEPT !.pc = "target"]
<1>1. /\ calls[d] # None /\ calls[d] \in Request /\ calls[d].pc = "merge"
      /\ calls[d].kind = "enrich" /\ UNCHANGED <<done, acked>>
  BY DEF Merge, At, TypeOK, CallsTracked, Elsewhere
<1>2. /\ E \in Request /\ E.kind = "enrich" /\ E.snap = s /\ E.pc = "target"
      /\ E.marked = calls[d].marked
  BY <1>1 DEF Request
<1>3. calls[d].marked => s \subseteq done
  BY <1>1 DEF Justifying, CallsJustified, Justified
<1>4. CASE (Answer(d, "retry") \/ Answer(d, "reject")) /\ row' = row
  <2>1. calls' = [calls EXCEPT ![d] = None]
    BY <1>4 DEF Answer
  <2>2. CallsJustified'
    BY <1>1, <1>4, <2>1, OthersJustified DEF Justifying
  <2>3. PICK a \in {"retry", "reject"} : Answer(d, a)
    BY <1>4
  <2>4. AcksOK'
    BY <1>1, <2>3, AnswerJustified DEF Justifying
  <2>. QED
    BY <1>1, <1>4, <2>2, <2>4 DEF Justifying, MarkerOK
<1>5. CASE /\ Goto(d, E)
           /\ row.stored
           /\ \/ row' = row /\ s \subseteq row.ctx
              \/ row' = R /\ s \notin row.revs
  <2>1. /\ row.ctx \subseteq row'.ctx /\ s \subseteq row'.ctx
        /\ row'.stored = row.stored
    <3>1. CASE row' = row /\ s \subseteq row.ctx
      BY <3>1
    <3>2. CASE row' = R
      <4>1. row'.ctx = row.ctx \cup s /\ row'.stored = row.stored
        BY <3>2 DEF TypeOK, Row
      <4>. QED
        BY <4>1
    <3>. QED
      BY <1>5, <3>1, <3>2
  <2>2. PICK x \in Request : x = E
    BY <1>2
  <2> HIDE DEF E
  <2>3. Justified(x)'
    BY <1>1, <1>2, <1>3, <1>5, <2>1, <2>2 DEF Justified
  <2>4. calls' = [calls EXCEPT ![d] = x]
    BY <1>5, <2>2 DEF Goto
  <2>5. CallsJustified'
    BY <1>1, <2>1, <2>3, <2>4, OthersJustified DEF Justifying
  <2>6. AcksOK'
    BY <1>1, <1>5, GotoJustified DEF Justifying, Goto
  <2>7. MarkerOK'
    <3>1. CASE row' = row
      BY <1>1, <3>1 DEF Justifying, MarkerOK
    <3>2. CASE row' = R /\ s \notin row.revs
      <4>1. /\ row'.ctx = row.ctx \cup s /\ row'.revs = row.revs \cup {s}
            /\ row'.marker = row.marker
        BY <3>2 DEF TypeOK, Row
      <4>2. s \notin row'.marker
        BY <3>2, <4>1 DEF RowOK
      <4>. QED
        BY <4>1, <4>2 DEF Justifying, MarkerOK
    <3>. QED
      BY <1>5, <3>1, <3>2
  <2>. QED
    BY <2>5, <2>6, <2>7 DEF Justifying
<1>6. \/ (Answer(d, "retry") \/ Answer(d, "reject")) /\ row' = row
      \/ /\ Goto(d, E)
         /\ row.stored
         /\ \/ row' = row /\ s \subseteq row.ctx
            \/ row' = R /\ s \notin row.revs
  BY DEF Merge, Merged, Justifying, MarkerOK
<1>. QED
  BY <1>4, <1>5, <1>6

LEMMA ReadJustified ==
    ASSUME ContextConstants, TypeOK, CallsTracked, Justifying, NEW d \in Call,
           \/ ReadTarget(d) \/ ReadSnapshot(d) \/ StepFails(d)
           \/ \E i \in Item : ReadSource(d, i)
    PROVE  Justifying'
<1>1. /\ calls[d] # None /\ calls[d] \in Request
      /\ UNCHANGED <<row, done, acked>>
  BY DEF ReadTarget, ReadSnapshot, StepFails, ReadSource, At, TypeOK, Elsewhere
<1>2. Justified(calls[d])
  BY <1>1 DEF Justifying, CallsJustified
<1>3. MarkerOK'
  BY <1>1 DEF Justifying, MarkerOK
<1>4. ASSUME NEW e \in Request, e.kind # "enrich", Goto(d, e)
      PROVE  Justifying'
  <2>1. Justified(e)'
    BY <1>4 DEF Justified
  <2>2. CallsJustified'
    BY <1>1, <1>4, <2>1, OthersJustified DEF Justifying, Goto
  <2>3. AcksOK'
    BY <1>1, <1>4, GotoJustified DEF Justifying, Goto
  <2>. QED
    BY <1>3, <2>2, <2>3 DEF Justifying
<1>5. calls[d].kind = "enrich" => /\ calls[d].snap \in Seen
                                  /\ calls[d].snap # {}
  BY <1>1 DEF CallsTracked, Pending, Recorded, TypeOK, ContextConstants
<1>6. ASSUME ReadTarget(d)  PROVE Justifying'
  <2> DEFINE C == [calls[d] EXCEPT
                !.known = TRUE, !.revs = row.revs, !.gen = row.gen,
                !.ctx = row.ctx, !.marked = row.revs \subseteq row.marker,
                !.unread = row.ctx]
             E == [calls[d] EXCEPT !.pc = "snapshot"]
  <2>1. /\ C \in Request /\ C.kind = calls[d].kind /\ C.snap = calls[d].snap
        /\ C.ctx = row.ctx /\ C.marked = (row.revs \subseteq row.marker)
    BY <1>1 DEF Request, TypeOK, Row
  <2>2. calls[d].pc = "target"
    BY <1>6 DEF ReadTarget, At
  <2>3. calls[d].kind = "enrich" => /\ calls[d].snap \subseteq row.ctx /\ row.stored
    BY <1>2, <2>2 DEF Justified
  <2>4. (row.stored /\ Assessed(d, C)) \/ (~row.stored /\ Goto(d, E))
    BY <1>6 DEF ReadTarget
  <2>5. E \in Request /\ E.kind = calls[d].kind
    BY <1>1 DEF Request
  <2> HIDE DEF C, E
  <2>6. CASE row.stored /\ Assessed(d, C)
    <3>1. calls[d].kind = "enrich" /\ C.marked => calls[d].snap \subseteq done
      BY <2>1, <2>3 DEF Justifying, MarkerOK
    <3>2. calls[d].kind = "enrich" => row.ctx # {}
      BY <1>5, <2>3
    <3>. QED
      BY <1>1, <2>1, <2>3, <2>6, <3>1, <3>2, AssessedJustified
  <2>7. CASE ~row.stored /\ Goto(d, E)
    <3>1. calls[d].kind # "enrich"
      BY <2>3, <2>7
    <3>. QED
      BY <1>4, <2>5, <2>7, <3>1
  <2>. QED
    BY <2>4, <2>6, <2>7
<1>7. ASSUME ReadSnapshot(d)  PROVE Justifying'
  <2> DEFINE C == [calls[d] EXCEPT !.known = row.stored, !.revs = row.revs,
                                !.gen = row.gen, !.ctx = {}, !.pc = "write"]
  <2>1. C \in Request /\ C.kind = calls[d].kind
    BY <1>1 DEF Request, TypeOK, Row
  <2>2. Goto(d, C)
    BY <1>7 DEF ReadSnapshot
  <2>3. calls[d].kind # "enrich"
    BY <1>2, <1>7 DEF ReadSnapshot, At, Justified
  <2> HIDE DEF C
  <2>. QED
    BY <1>4, <2>1, <2>2, <2>3
<1>8. ASSUME StepFails(d)  PROVE Justifying'
  <2> DEFINE E == [calls[d] EXCEPT !.pc = "snapshot"]
  <2>1. E \in Request /\ E.kind = calls[d].kind
    BY <1>1 DEF Request
  <2>2. Answer(d, "retry") \/ (calls[d].kind = "post" /\ Goto(d, E))
    BY <1>8 DEF StepFails
  <2> HIDE DEF E
  <2>3. CASE Answer(d, "retry")
    <3>1. calls' = [calls EXCEPT ![d] = None]
      BY <2>3 DEF Answer
    <3>2. CallsJustified'
      BY <1>1, <3>1, OthersJustified DEF Justifying
    <3>3. PICK a \in {"retry"} : Answer(d, a)
      BY <2>3
    <3>4. AcksOK'
      BY <1>1, <3>3, AnswerJustified DEF Justifying
    <3>. QED
      BY <1>3, <3>2, <3>4 DEF Justifying
  <2>. QED
    BY <1>4, <2>1, <2>2, <2>3
<1>9. ASSUME NEW i \in Item, ReadSource(d, i)
      PROVE  Justifying'
  <2>1. PICK c \in Request :
              /\ Assessed(d, c)
              /\ c.kind = calls[d].kind /\ c.snap = calls[d].snap
              /\ c.ctx = calls[d].ctx /\ c.marked = calls[d].marked
    BY <1>9, SourceAssessed
  <2>5. calls[d].pc = "sources"
    BY <1>9 DEF ReadSource, At
  <2>6. c.kind = "enrich" => /\ c.snap \subseteq row.ctx /\ row.stored
                             /\ c.ctx # {}
                             /\ c.marked => c.snap \subseteq done
    BY <1>2, <2>1, <2>5 DEF Justified
  <2>. QED
    BY <1>1, <2>1, <2>6, AssessedJustified
<1>. QED
  BY <1>6, <1>7, <1>8, <1>9

LEMMA WriteJustified ==
    ASSUME TypeOK, CallsTracked, Justifying, NEW d \in Call, Write(d)
    PROVE  Justifying'
<1> DEFINE K(ai) == Classified(calls[d], ai)
           E == [calls[d] EXCEPT !.pc = "mark"]
<1>1. /\ calls[d] # None /\ calls[d] \in Request /\ calls[d].pc = "write"
      /\ UNCHANGED <<done, acked>>
  BY DEF Write, At, TypeOK, Elsewhere
<1>2. Justified(calls[d])
  BY <1>1 DEF Justifying, CallsJustified
<1>3. /\ row'.ctx = row.ctx /\ row'.revs = row.revs /\ row'.marker = row.marker
      /\ row.stored => row'.stored
  BY DEF Write, TypeOK, Row
<1>4. MarkerOK'
  BY <1>1, <1>3 DEF Justifying, MarkerOK
<1>5. ASSUME NEW a, Answer(d, a), a = "ok" => calls[d].kind # "enrich"
      PROVE  Justifying'
  <2>1. calls' = [calls EXCEPT ![d] = None]
    BY <1>5 DEF Answer
  <2>2. CallsJustified'
    BY <1>1, <1>3, <2>1, OthersJustified DEF Justifying
  <2>3. AcksOK'
    BY <1>1, <1>5, AnswerJustified DEF Justifying
  <2>. QED
    BY <1>4, <2>2, <2>3 DEF Justifying
<1>6. ASSUME Goto(d, E)
      PROVE  Justifying'
  <2>1. /\ E \in Request /\ E.kind = calls[d].kind /\ E.snap = calls[d].snap
        /\ E.pc = "mark" /\ E.marked = calls[d].marked
    BY <1>1 DEF Request
  <2>2. PICK x \in Request : x = E
    BY <2>1
  <2> HIDE DEF E
  <2>3. Justified(x)'
    BY <1>1, <1>2, <1>3, <2>1, <2>2 DEF Justified
  <2>4. calls' = [calls EXCEPT ![d] = x]
    BY <1>6, <2>2 DEF Goto
  <2>5. CallsJustified'
    BY <1>1, <1>3, <2>3, <2>4, OthersJustified DEF Justifying
  <2>6. AcksOK'
    BY <1>1, <1>6, GotoJustified DEF Justifying, Goto
  <2>. QED
    BY <1>4, <2>5, <2>6 DEF Justifying
<1>7. \/ \E a : Answer(d, a) /\ (a = "ok" => calls[d].kind # "enrich")
      \/ Goto(d, E)
  <2>1. calls[d].kind = "enrich" => calls[d].ctx # {}
    BY <1>1, <1>2 DEF Justified
  <2>2. \/ Answer(d, "retry")
        \/ \E ai \in BOOLEAN : /\ calls[d].kind = "enrich" => ai
                               /\ ~K(ai).full /\ Answer(d, "ok")
        \/ Goto(d, E)
    BY DEF Write
  <2>3. ASSUME NEW ai \in BOOLEAN, calls[d].kind = "enrich" => ai, ~K(ai).full
        PROVE  calls[d].kind # "enrich"
    BY <2>1, <2>3 DEF Classified
  <2> HIDE DEF K, E
  <2>. QED
    BY <2>2, <2>3
<1>8. CASE \E a : Answer(d, a) /\ (a = "ok" => calls[d].kind # "enrich")
  BY <1>5, <1>8
<1>. QED
  BY <1>6, <1>7, <1>8

LEMMA MarkJustified ==
    ASSUME TypeOK, CallsTracked, Justifying, NEW d \in Call, Mark(d)
    PROVE  Justifying'
<1>1. /\ calls[d] # None /\ calls[d].pc = "mark" /\ UNCHANGED acked
      /\ calls' = [calls EXCEPT ![d] = None]
  BY DEF Mark, At, Answer, Elsewhere
<1>2. calls[d].kind = "enrich" => calls[d].snap \subseteq row.ctx
  BY <1>1 DEF Justifying, CallsJustified, Justified
<1>3. ASSUME NEW a, Answer(d, a),
             row'.ctx = row.ctx, row'.stored = row.stored, done \subseteq done',
             a = "ok" => row.ctx \subseteq done'
      PROVE  CallsJustified' /\ AcksOK'
  <2>1. CallsJustified'
    BY <1>1, <1>3, OthersJustified DEF Justifying
  <2>2. AcksOK'
    BY <1>1, <1>2, <1>3, AnswerJustified DEF Justifying
  <2>. QED
    BY <2>1, <2>2
<1>4. CASE UNCHANGED <<row, done>> /\ Answer(d, "retry")
  <2>1. \E a : Answer(d, a) /\ a # "ok"
    BY <1>4
  <2>2. CallsJustified' /\ AcksOK'
    BY <1>3, <1>4, <2>1
  <2>. QED
    BY <1>4, <2>2 DEF Justifying, MarkerOK
<1>5. CASE /\ row' = [row EXCEPT !.marker = row.revs]
           /\ done' = done \cup row.ctx /\ Answer(d, "ok")
  <2>1. /\ row'.ctx = row.ctx /\ row'.stored = row.stored
        /\ row'.revs = row.revs /\ row'.marker = row.revs
    BY <1>5 DEF TypeOK, Row
  <2>2. CallsJustified' /\ AcksOK'
    BY <1>3, <1>5, <2>1
  <2>. QED
    BY <1>5, <2>1, <2>2 DEF Justifying, MarkerOK
<1>. QED
  BY <1>4, <1>5 DEF Mark

LEMMA SourceJustified ==
    ASSUME TypeOK, Justifying, NEW i \in Item, SourceStored(i) \/ SourceChanges(i)
    PROVE  Justifying'
<1>1. UNCHANGED <<calls, done, job, acked>>
  BY DEF SourceStored, SourceChanges, worker
<1>2. /\ row'.ctx = row.ctx /\ row'.revs = row.revs /\ row'.stored = row.stored
      /\ row'.marker = row.marker \/ row'.marker = {}
  BY DEF SourceStored, SourceChanges, Invalidated, TypeOK, Row
<1>3. MarkerOK'
  BY <1>1, <1>2 DEF Justifying, MarkerOK
<1>4. CallsJustified'
  BY <1>1, <1>2 DEF Justifying, CallsJustified, Justified
<1>5. AcksOK'
  BY <1>1, GotoJustified DEF Justifying
<1>. QED
  BY <1>3, <1>4, <1>5 DEF Justifying

\* The worker writes down as accepted what was answered "ok".
LEMMA WorkJustified ==
    ASSUME TypeOK, WorkerOK, Justifying, Work
    PROVE  Justifying'
<1>1. UNCHANGED <<row, done>>
  BY DEF Work, Enqueue, RetryDue, PostTweet, Send, RequestFails, RecordFailure,
         Record, Forget, ResetRetries, Restart, server
<1>2. MarkerOK'
  BY <1>1 DEF Justifying, MarkerOK
<1>3. CallsJustified'
  <2>1. CASE calls' = calls
    BY <1>1, <2>1 DEF Justifying, CallsJustified, Justified
  <2>2. ASSUME NEW d \in Call, Send(d)
        PROVE  CallsJustified'
    <3> DEFINE E == NewRequest(job)
    <3>1. job \in Job /\ calls' = [calls EXCEPT ![d] = E]
      BY <2>2 DEF Send, TypeOK
    <3>2. E \in Request
      BY <3>1 DEF NewRequest, NoVersions, Request, Job
    <3>3. E.kind = "enrich" => E.pc = "merge" /\ E.marked = FALSE
      BY DEF NewRequest
    <3> HIDE DEF E
    <3>4. PICK x \in Request : x = E
      BY <3>2
    <3>5. Justified(x)'
      BY <3>3, <3>4 DEF Justified
    <3>. QED
      BY <1>1, <3>1, <3>4, <3>5, OthersJustified DEF Justifying
  <2>3. calls' = calls \/ \E d \in Call : Send(d)
    BY DEF Work, Enqueue, RetryDue, PostTweet, RequestFails, RecordFailure,
           Record, Forget, ResetRetries, Restart, server
  <2>. QED
    BY <2>1, <2>2, <2>3
<1>4. AcksOK'
  <2>1. CASE Record
    <3>1. acked' \subseteq acked \cup IF job.pc = "ok" /\ job.kind = "enrich"
                                     THEN {job.snap} ELSE {}
      BY <2>1 DEF Record, TypeOK, Job
    <3>2. job # None /\ job \in Job
      BY <2>1 DEF Record, TypeOK
    <3>3. AckedWasClassified'
      BY <1>1, <3>1, <3>2 DEF Justifying, AcksOK, AckedWasClassified
    <3>4. job' = None \/ job'.pc = "recorded"
      BY <2>1, <3>2 DEF Record, Job
    <3>. QED
      BY <3>3, <3>4 DEF AcksOK
  <2>2. CASE acked' = acked /\ (job' = job \/ job' = None \/ job'.pc # "ok")
    BY <1>1, <2>2 DEF Justifying, AcksOK, AckedWasClassified
  <2>3. \/ Record
        \/ acked' = acked /\ (job' = job \/ job' = None \/ job'.pc # "ok")
    <3>1. ASSUME \/ \E s \in Seen : Enqueue(s) \/ RetryDue(s)
                 \/ \E related \in BOOLEAN : PostTweet(related)
          PROVE  acked' = acked /\ job'.pc # "ok"
      BY <3>1 DEF Enqueue, RetryDue, PostTweet, NewJob
    <3>2. ASSUME (\E d \in Call : Send(d)) \/ RequestFails
          PROVE  acked' = acked /\ job'.pc # "ok"
      BY <3>2 DEF Send, RequestFails, TypeOK, Job
    <3>3. ASSUME RecordFailure \/ Forget \/ ResetRetries \/ Restart
          PROVE  acked' = acked /\ (job' = job \/ job' = None)
      BY <3>3 DEF RecordFailure, Forget, ResetRetries, Restart
    <3>. QED
      BY <3>1, <3>2, <3>3 DEF Work
  <2>. QED
    BY <2>1, <2>2, <2>3
<1>. QED
  BY <1>2, <1>3, <1>4 DEF Justifying

----------------------------------------------------------------------------
(* The theorems.                                                           *)

IInv ==
    /\ TypeOK /\ WorkerOK /\ CallsTracked /\ MergedIsTracked
    /\ RowOK /\ CallsSound
    /\ Justifying

LEMMA InitInvariant ==
    ASSUME ContextConstants, Init
    PROVE  IInv
<1>1. row \in Row
  BY DEF Init, Row, Class, Partial, NoVersions
<1>2. TypeOK
  BY <1>1 DEF Init, TypeOK, ContextConstants, NoVersions
<1>3. Pending = {} /\ Recorded = {}
  BY DEF Init, Pending, Recorded
<1>4. Cardinality(Pending \cup Recorded) = 0
  BY <1>3, FS_EmptySet
<1>5. WorkerOK /\ CallsTracked /\ MergedIsTracked
  BY <1>4 DEF Init, WorkerOK, CallsTracked, MergedIsTracked, ContextConstants
<1>6. RowOK /\ CallsSound
  BY DEF Init, RowOK, CallsSound, Partial, NoVersions
<1>7. Justifying
  BY DEF Init, Justifying, MarkerOK, CallsJustified, AcksOK, AckedWasClassified
<1>. QED
  BY <1>2, <1>5, <1>6, <1>7 DEF IInv

LEMMA NextInvariant ==
    ASSUME ContextConstants, IInv, Next
    PROVE  IInv'
<1> USE DEF IInv
<1>1. CASE Work
  <2>1. /\ TypeOK' /\ WorkerOK' /\ CallsTracked'
        /\ Pending \cup Recorded \subseteq Pending' \cup Recorded'
    BY <1>1, WorkTracked
  <2>2. row' = row
    BY <1>1 DEF Work, Enqueue, RetryDue, PostTweet, Send, RequestFails,
                RecordFailure, Record, Forget, ResetRetries, Restart, server
  <2>3. MergedIsTracked'
    BY <2>1, <2>2 DEF MergedIsTracked
  <2>4. RowOK' /\ CallsSound'
    BY <1>1, WorkSound
  <2>5. Justifying'
    BY <1>1, WorkJustified
  <2>. QED
    BY <2>1, <2>3, <2>4, <2>5
<1>2. ASSUME NEW d \in Call, Serve(d)
      PROVE  IInv'
  <2>1. TypeOK' /\ WorkerOK' /\ CallsTracked'
    BY <1>2, ServeTracked
  <2>2. Pending' = Pending /\ Recorded' = Recorded
    BY <1>2, ServeMoves DEF Pending, Recorded
  <2>3. row'.revs \subseteq row.revs \cup (Pending \cup Recorded)
    <3>1. CASE Merge(d)
      <4>1. calls[d] # None /\ calls[d].snap \in Pending \cup Recorded
        BY <3>1 DEF Merge, At, CallsTracked
      <4>2. row'.revs = row.revs \/ row'.revs = row.revs \cup {calls[d].snap}
        BY <3>1 DEF Merge, TypeOK, Row
      <4>. QED
        BY <4>1, <4>2
    <3>2. CASE Write(d)
      BY <3>2 DEF Write, TypeOK, Row
    <3>3. CASE Mark(d)
      BY <3>3 DEF Mark, TypeOK, Row
    <3>4. CASE \/ ReadTarget(d) \/ ReadSnapshot(d) \/ StepFails(d)
               \/ \E i \in Item : ReadSource(d, i)
      BY <3>4 DEF ReadTarget, ReadSnapshot, StepFails, ReadSource
    <3>. QED
      BY <1>2, <3>1, <3>2, <3>3, <3>4 DEF Serve
  <2>4. MergedIsTracked'
    BY <2>2, <2>3 DEF MergedIsTracked
  <2>5. RowOK' /\ CallsSound'
    BY <1>2, MergeSound, ReadSound, WriteSound, MarkSound DEF Serve
  <2>6. Justifying'
    BY <1>2, MergeJustified, ReadJustified, WriteJustified, MarkJustified DEF Serve
  <2>. QED
    BY <2>1, <2>4, <2>5, <2>6
<1>3. ASSUME NEW i \in Item, SourceStored(i) \/ SourceChanges(i)
      PROVE  IInv'
  <2>1. UNCHANGED <<calls, pending, acked, terminal, job, done>>
    BY <1>3 DEF SourceStored, SourceChanges, worker
  <2>2. /\ row' \in Row /\ row'.revs = row.revs
    <3>1. [row EXCEPT !.gen = @ + 1, !.marker = {}] \in Row
      <4>1. row.gen + 1 \in Nat /\ {} \in SUBSET Seen
        BY DEF TypeOK, Row
      <4>. QED
        BY <4>1 DEF TypeOK, Row
    <3>. QED
      BY <1>3, <3>1 DEF SourceStored, SourceChanges, Invalidated, TypeOK, Row
  <2>3. /\ ver' \in [Item -> Nat] /\ followed' \in [Item -> Nat]
        /\ used' \in [posts: 0..MaxPosts, faults: 0..MaxFaults,
                      resets: 0..MaxResets, changes: 0..MaxChanges]
    BY <1>3 DEF SourceStored, SourceChanges, TypeOK, ContextConstants
  <2>4. TypeOK'
    BY <2>1, <2>2, <2>3 DEF TypeOK
  <2>5. Pending' = Pending /\ Recorded' = Recorded
    BY <2>1 DEF Pending, Recorded
  <2>6. WorkerOK' /\ CallsTracked' /\ MergedIsTracked'
    BY <2>1, <2>2, <2>5 DEF WorkerOK, CallsTracked, MergedIsTracked
  <2>7. RowOK' /\ CallsSound'
    BY <1>3, SourceSound
  <2>8. Justifying'
    BY <1>3, SourceJustified
  <2>. QED
    BY <2>4, <2>6, <2>7, <2>8
<1>. QED
  BY <1>1, <1>2, <1>3 DEF Next

LEMMA StutterInvariant ==
    ASSUME IInv, UNCHANGED vars
    PROVE  IInv'
<1> USE DEF vars, server, worker
<1>1. TypeOK' /\ RowOK' /\ CallsSound' /\ MarkerOK' /\ CallsJustified' /\ AcksOK'
  BY DEF IInv, TypeOK, RowOK, CallsSound, Sound, Fresh, Retryable, Justifying, MarkerOK,
         CallsJustified, Justified, AcksOK, AckedWasClassified
<1>2. Pending' = Pending /\ Recorded' = Recorded
  BY DEF Pending, Recorded
<1>3. WorkerOK' /\ CallsTracked' /\ MergedIsTracked'
  BY <1>2 DEF IInv, WorkerOK, CallsTracked, MergedIsTracked
<1>. QED
  BY <1>1, <1>3 DEF IInv, Justifying

THEOREM InvariantHolds == Spec => []IInv
<1>1. Init => IInv
  BY InitInvariant, ContextConstants
<1>2. IInv /\ [Next]_vars => IInv'
  BY NextInvariant, StutterInvariant, ContextConstants
<1>. QED
  BY <1>1, <1>2, PTL DEF Spec

\* The rows, the requests, the queue and the ledger stay typed; an answered
\* revision always finds room in the ledger, so its attempts stay within their bound.
THEOREM ContextTyped == Spec => []TypeOK
<1>1. IInv => TypeOK
  BY DEF IInv
<1>. QED
  BY <1>1, InvariantHolds, PTL

\* Under a marker that covers the revisions of a post, its classification is none
\* begun before the last change counted; one with contexts is of all the row has,
\* each left out for what it says or as recent as the last change of it followed.
THEOREM MarkersCurrent == Spec => []MarkedIsCurrent
<1>1. IInv => MarkedIsCurrent
  BY DEF IInv, RowOK, MarkedIsCurrent
<1>. QED
  BY <1>1, InvariantHolds, PTL

\* What the worker takes as accepted went into a completed classification.
THEOREM AcksClassified == Spec => []AckedWasClassified
<1>1. IInv => AckedWasClassified
  BY DEF IInv, Justifying, AcksOK
<1>. QED
  BY <1>1, InvariantHolds, PTL

\* What the server has merged is in the worker's queue or in its ledger.
THEOREM MergedTracked == Spec => []MergedIsTracked
<1>1. IInv => MergedIsTracked
  BY DEF IInv
<1>. QED
  BY <1>1, InvariantHolds, PTL

=============================================================================
