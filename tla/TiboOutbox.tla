----------------------------- MODULE TiboOutbox -----------------------------
(***************************************************************************)
(* The service worker of the Tibo monitor extension: how a tweet that a    *)
(* content script saw reaches the webhook.  Everything the worker must not *)
(* forget is in chrome.storage.local: the pending tweets with their retry  *)
(* state, the ids already processed, and the quarantine.  What it is doing *)
(* is in memory only and goes with the worker, which Chrome may stop at    *)
(* any time.                                                               *)
(*                                                                         *)
(* Jobs (a posted tweet, or the alarm that retries one) run one at a time  *)
(* on a promise chain.  The explicit retry of a tweet and the clearing of  *)
(* the authentication quarantine do not take part in it: between their     *)
(* read and their write, and between those of a job, the others may write. *)
(* Updates of the pending tweets have a chain of their own: each is atomic.*)
(***************************************************************************)
EXTENDS Naturals, Sequences, FiniteSets, SequencesExt

CONSTANTS
    Tweet,
    Payload,        \* what two timelines may show of the same tweet
    MaxAttempts,    \* MAX_PENDING_RETRY_ATTEMPTS
    MaxPending,     \* MAX_PENDING_TWEET_PAYLOADS
    MaxProcessed,   \* the length of the list of processed ids
    MaxPosts,       \* bound on the posts of the content scripts
    MaxExplicit,    \* bound on the explicit retries and clearings
    MaxFaults,      \* bound on the failed calls of storage and the restarts
    None

VARIABLES
    pending,    \* storage: tibo_pending_tweet_payloads, by tweet
    processed,  \* storage: tibo_processed_tweet_ids
    quarantine, \* storage: tibo_quarantined_tweet_ids, why by tweet
    jobs,       \* the jobs that wait on processQueue
    run,        \* the job that runs, or None
    user,       \* the explicit operations under way, or None, by number
    posts, explicit,
    faults, restarts,   \* failed calls of storage, restarts of the worker
    owed,       \* history: tweets stored and not answered for
    accepted,   \* history: tweets the server has accepted and classified
    sends,      \* history: requests for each tweet since it was last settled
    changes     \* history: counts of attempts started again since then

storage == <<pending, processed, quarantine>>
memory  == <<jobs, run, user>>
bounds  == <<posts, explicit, faults, restarts>>
history == <<owed, accepted, sends, changes>>
vars == <<pending, processed, quarantine, jobs, run, user, posts, explicit,
          faults, restarts, owed, accepted, sends, changes>>

\* The order of the pending tweets is of no use: the alarm goes by their times.
Entry == [payload: Payload, attempts: 0..MaxAttempts,
          waiting: BOOLEAN,     \* nextAttemptAt is still to come
          exhausted: BOOLEAN]
Why == {"none", "auth_blocked", "rejected"}
Job == [kind: {"post"}, tweet: Tweet, payload: Payload] \cup [kind: {"alarm"}]
Run == [pc: {"read", "sent", "fail", "readQuarantine", "quarantine", "store",
             "verify", "drop"},
        tweet: Tweet, payload: Payload,
        known: Seq(Tweet),          \* processedIds, as read
        held: [Tweet -> Why],       \* the quarantine, as read
        why: Why]
User == [op: {"retry", "clear"}, pc: {"write", "drop"}, tweet: Tweet \cup {None},
         known: Seq(Tweet), held: [Tweet -> Why]]

NoQuarantine == [t \in Tweet |-> "none"]
NoUser == [n \in 1..MaxExplicit |-> None]

ASSUME TiboOutboxAssumption ==
    /\ {MaxAttempts, MaxPending, MaxProcessed} \subseteq Nat \ {0}
    /\ {MaxPosts, MaxExplicit, MaxFaults} \subseteq Nat
    /\ None \notin Tweet /\ None \notin Entry /\ None \notin Run /\ None \notin User
    /\ IsFiniteSet(Tweet)

Stored(q) == {t \in Tweet : q[t] # None}

Pending(t) == pending[t] # None
Exhausted(t) == pending[t] # None /\ pending[t].exhausted

TypeOK ==
    /\ pending \in [Tweet -> Entry \cup {None}]
    /\ Cardinality(Stored(pending)) <= MaxPending
    /\ processed \in Seq(Tweet) /\ Len(processed) <= MaxProcessed
    /\ \A i, j \in DOMAIN processed : processed[i] = processed[j] => i = j
    /\ quarantine \in [Tweet -> Why]
    /\ jobs \in Seq(Job)
    /\ run \in Run \cup {None} /\ user \in [1..MaxExplicit -> User \cup {None}]
    /\ posts \in 0..MaxPosts /\ explicit \in 0..MaxExplicit
    /\ faults \in 0..MaxFaults /\ restarts \in 0..MaxFaults
    /\ owed \subseteq Tweet /\ accepted \subseteq Tweet
    /\ sends \in [Tweet -> Nat] /\ changes \in [Tweet -> Nat]

Init ==
    /\ pending = [t \in Tweet |-> None] /\ processed = <<>> /\ quarantine = NoQuarantine
    /\ jobs = <<>> /\ run = None /\ user = NoUser
    /\ posts = 0 /\ explicit = 0 /\ faults = 0 /\ restarts = 0
    /\ owed = {} /\ accepted = {}
    /\ sends = [t \in Tweet |-> 0] /\ changes = [t \in Tweet |-> 0]

----------------------------------------------------------------------------
(* The pending tweets.                                                     *)

Fresh(p) == [payload |-> p, attempts |-> 0, waiting |-> FALSE, exhausted |-> FALSE]

Without(q, t) == [q EXCEPT ![t] = None]

\* q with e for the tweet, if it has an entry or there is room for one.
Put(q, t, e) ==
    IF q[t] # None \/ Cardinality(Stored(q)) < MaxPending THEN [q EXCEPT ![t] = e] ELSE q

\* Mutant: every post starts the count of attempts again.
Persisted_AlwaysFresh(t, p) == Put(pending, t, Fresh(p))

\* persistPendingTweet: only a changed payload starts again.
Persisted(t, p) ==
    IF Pending(t) /\ pending[t].payload = p THEN pending
    ELSE Put(pending, t, Fresh(p))

\* Whether the post starts the count of the tweet's attempts again.
Restarted(t, p) == IF Pending(t) /\ pending[t].payload # p THEN 1 ELSE 0

\* Mutant: the last attempt is one later.
Failed_OneMore(e) ==
    LET n == e.attempts + 1
    IN  [e EXCEPT !.attempts = n, !.exhausted = n > MaxAttempts,
                  !.waiting = n <= MaxAttempts]

\* One attempt more, and a delay to the next or no next.
Failed(e) ==
    LET n == e.attempts + 1
    IN  [e EXCEPT !.attempts = n, !.exhausted = n >= MaxAttempts,
                  !.waiting = n < MaxAttempts]

\* What the next failure is counted on: the entry may have been removed since.
Current(t, p) == IF Pending(t) THEN [pending[t] EXCEPT !.payload = p] ELSE Fresh(p)

\* Mutant: a tweet that failed for the last time is given up.
FailureRecorded_Dropped(t, p) ==
    LET e == Failed(Current(t, p))
    IN  IF e.exhausted THEN Without(pending, t) ELSE Put(pending, t, e)

\* recordPendingFailure
FailureRecorded(t, p) == Put(pending, t, Failed(Current(t, p)))

Due(e) == e # None /\ ~e.exhausted /\ ~e.waiting

----------------------------------------------------------------------------
(* What puts a job on the chain.                                           *)

\* A content script posts a tweet it sees, whatever it posted before.
PostTweet(t, p) ==
    /\ posts < MaxPosts
    /\ posts' = posts + 1
    /\ jobs' = Append(jobs, [kind |-> "post", tweet |-> t, payload |-> p])
    /\ UNCHANGED <<storage, run, user, explicit, faults, restarts, history>>

\* The alarm.  Its period is long: none comes while another still waits.
Alarm ==
    /\ [kind |-> "alarm"] \notin {jobs[i] : i \in DOMAIN jobs}
    /\ jobs' = Append(jobs, [kind |-> "alarm"])
    /\ UNCHANGED <<storage, run, user, bounds, history>>

\* The retry delay of a tweet is over.
Tick ==
    /\ \E t \in Tweet :
        Pending(t) /\ pending[t].waiting /\ pending' = [pending EXCEPT ![t].waiting = FALSE]
    /\ UNCHANGED <<processed, quarantine, memory, bounds, history>>

----------------------------------------------------------------------------
(* A job.                                                                  *)

Working(t, p) == [pc |-> "read", tweet |-> t, payload |-> p, known |-> <<>>,
                  held |-> NoQuarantine, why |-> "none"]

At(pc) == run # None /\ run.pc = pc

\* A call of storage fails.
Fault == faults + restarts < MaxFaults /\ faults' = faults + 1

\* The job goes on at pc, and what it has read is of no further use.
Goto(pc) == run' = [Working(run.tweet, run.payload) EXCEPT !.pc = pc]

\* The tweet of a post is stored before anything is sent.
StartPost ==
    /\ run = None /\ jobs # <<>> /\ Head(jobs).kind = "post"
    /\ LET t == Head(jobs).tweet
           p == Head(jobs).payload
       IN  /\ pending' = Persisted(t, p)
           /\ changes' = [changes EXCEPT ![t] = @ + Restarted(t, p)]
           /\ IF pending'[t] # None
              THEN /\ owed' = owed \cup {t}
                   /\ run' = IF Due(pending'[t]) THEN Working(t, p) ELSE None
              ELSE UNCHANGED <<owed, run>>
    /\ jobs' = Tail(jobs)
    /\ UNCHANGED <<processed, quarantine, user, bounds, accepted, sends>>

\* The tweet cannot be stored, and nothing is sent.
StorePostFails ==
    /\ run = None /\ jobs # <<>> /\ Head(jobs).kind = "post"
    /\ Fault
    /\ jobs' = Tail(jobs)
    /\ UNCHANGED <<storage, run, user, posts, explicit, restarts, history>>

\* Mutant: only one pending tweet is looked at, due or not.
StartAlarm_HeadOnly ==
    /\ run = None /\ jobs # <<>> /\ Head(jobs).kind = "alarm"
    /\ LET t == CHOOSE t \in Tweet : Pending(t) \/ Stored(pending) = {}
       IN  run' = IF Due(pending[t]) THEN Working(t, pending[t].payload) ELSE None
    /\ jobs' = Tail(jobs)
    /\ UNCHANGED <<storage, user, bounds, history>>

\* The alarm retries one tweet that is due, if there is one.
StartAlarm ==
    /\ run = None /\ jobs # <<>> /\ Head(jobs).kind = "alarm"
    /\ \/ (\A t \in Tweet : ~Due(pending[t])) /\ UNCHANGED run
       \/ \E t \in Tweet : Due(pending[t]) /\ run' = Working(t, pending[t].payload)
    /\ jobs' = Tail(jobs)
    /\ UNCHANGED <<storage, user, bounds, history>>

\* The processed ids and the quarantine are read, and the request is sent
\* unless they say that there is nothing to send.
Dispatch ==
    /\ At("read")
    /\ LET t == run.tweet
       IN  \/ /\ \/ t \in ToSet(processed)
                 \/ quarantine[t] # "none"
              /\ Goto("drop")
              /\ owed' = owed \ {t}
              /\ UNCHANGED sends
           \/ /\ t \notin ToSet(processed) /\ quarantine[t] = "none"
              /\ run' = [run EXCEPT !.pc = "sent", !.known = processed]
              /\ sends' = [sends EXCEPT ![t] = @ + 1]
              /\ UNCHANGED owed
    /\ UNCHANGED <<storage, jobs, user, bounds, accepted, changes>>

\* There is no secret to send with.
NoSecret ==
    /\ At("read")
    /\ run.tweet \notin ToSet(processed) /\ quarantine[run.tweet] = "none"
    /\ Goto("fail")
    /\ UNCHANGED <<storage, jobs, user, bounds, history>>

\* Storage throws: executePostTweetWithRecovery counts a failure, if it can.
Throw ==
    /\ run # None /\ run.pc # "sent"
    /\ Fault
    /\ IF run.pc = "fail" THEN run' = None ELSE Goto("fail")
    /\ UNCHANGED <<storage, jobs, user, posts, explicit, restarts, history>>

\* Mutant: a tweet saved with a rule fallback counts as processed.
Answered_FallbackDone ==
    /\ At("sent")
    /\ run' = [run EXCEPT !.pc = "store"]
    /\ UNCHANGED <<storage, jobs, user, bounds, history>>

\* No answer, a retryable status, or a tweet saved without classification.
Answered_Again ==
    /\ At("sent")
    /\ Goto("fail")
    /\ UNCHANGED <<storage, jobs, user, bounds, history>>

\* The server has accepted the tweet; the worker may not get to read that.
Answered_Accepted(lost) ==
    /\ At("sent")
    /\ accepted' = accepted \cup {run.tweet}
    /\ IF lost THEN Goto("fail") /\ UNCHANGED owed
       ELSE run' = [run EXCEPT !.pc = "store"] /\ owed' = owed \ {run.tweet}
    /\ UNCHANGED <<storage, jobs, user, bounds, sends, changes>>

\* The server has refused the tweet, or the secret.
Answered_Refused(why) ==
    /\ At("sent")
    /\ run' = [Working(run.tweet, run.payload) EXCEPT !.pc = "readQuarantine", !.why = why]
    /\ owed' = owed \ {run.tweet}
    /\ UNCHANGED <<storage, jobs, user, bounds, accepted, sends, changes>>

\* recordPendingFailure
RecordFailure ==
    /\ At("fail")
    /\ pending' = FailureRecorded(run.tweet, run.payload)
    /\ run' = None
    /\ UNCHANGED <<processed, quarantine, jobs, user, bounds, history>>

\* quarantineTweet: read, then write all entries.
QuarantineRead ==
    /\ At("readQuarantine")
    /\ run' = [run EXCEPT !.pc = "quarantine", !.held = quarantine]
    /\ UNCHANGED <<storage, jobs, user, bounds, history>>

QuarantineWrite ==
    /\ At("quarantine")
    /\ quarantine' = [run.held EXCEPT ![run.tweet] = run.why]
    /\ Goto("drop")
    /\ UNCHANGED <<pending, processed, jobs, user, bounds, history>>

\* The id joins the processed ids read before the request, the oldest leaves.
Store ==
    /\ At("store")
    /\ LET ids == Append(run.known, run.tweet)
       IN  processed' = IF Len(ids) > MaxProcessed THEN Tail(ids) ELSE ids
    /\ Goto("verify")
    /\ UNCHANGED <<pending, quarantine, jobs, user, bounds, history>>

Verify ==
    /\ At("verify")
    /\ Goto(IF run.tweet \in ToSet(processed) THEN "drop" ELSE "fail")
    /\ UNCHANGED <<storage, jobs, user, bounds, history>>

\* removePendingTweet, and the end of the job.
Drop ==
    /\ At("drop")
    /\ pending' = Without(pending, run.tweet)
    /\ sends' = [sends EXCEPT ![run.tweet] = 0]
    /\ changes' = [changes EXCEPT ![run.tweet] = 0]
    /\ run' = None
    /\ UNCHANGED <<processed, quarantine, jobs, user, bounds, owed, accepted>>

----------------------------------------------------------------------------
(* What the user asks for, beside the chain.                               *)

Asked(op, pc, t, known, held) ==
    [op |-> op, pc |-> pc, tweet |-> t, known |-> known, held |-> held]

\* The operation starts, whatever others are under way.
Ask(u) ==
    /\ explicit < MaxExplicit
    /\ explicit' = explicit + 1
    /\ user' = [user EXCEPT ![explicit + 1] = u]

Asking(n, op, pc) == user[n] # None /\ user[n].op = op /\ user[n].pc = pc

\* The ids without one that is among them: no id is there twice.
Removed(ids, t) == RemoveAt(ids, CHOOSE i \in DOMAIN ids : ids[i] = t)

\* retryTweet: read both lists,
RetryRead(t) ==
    /\ Ask(Asked("retry", "write", t, processed, quarantine))
    /\ UNCHANGED <<storage, jobs, run, posts, faults, restarts, history>>

\* write back those that held the tweet, without it,
RetryWrite(n) ==
    /\ Asking(n, "retry", "write")
    /\ LET u == user[n]
       IN  /\ processed' = IF u.tweet \in ToSet(u.known)
                           THEN Removed(u.known, u.tweet) ELSE processed
           /\ quarantine' = IF u.held[u.tweet] # "none"
                            THEN [u.held EXCEPT ![u.tweet] = "none"] ELSE quarantine
           /\ user' = [user EXCEPT ![n] = Asked("retry", "drop", u.tweet, <<>>, NoQuarantine)]
    /\ UNCHANGED <<pending, jobs, run, bounds, history>>

\* and forget its pending payload: the tabs are told to post it again.
RetryDrop(n) ==
    /\ Asking(n, "retry", "drop")
    /\ LET t == user[n].tweet
       IN  /\ pending' = Without(pending, t)
           /\ owed' = owed \ {t}
           /\ sends' = [sends EXCEPT ![t] = 0]
           /\ changes' = [changes EXCEPT ![t] = 0]
    /\ user' = [user EXCEPT ![n] = None]
    /\ UNCHANGED <<processed, quarantine, jobs, run, bounds, accepted>>

\* clearAuthBlockedQuarantine: read,
ClearRead ==
    /\ Ask(Asked("clear", "write", None, <<>>, quarantine))
    /\ UNCHANGED <<storage, jobs, run, posts, faults, restarts, history>>

\* and write back the others, if any entry was blocked.
ClearWrite(n) ==
    /\ Asking(n, "clear", "write")
    /\ LET held == user[n].held
       IN  quarantine' = IF \E t \in Tweet : held[t] = "auth_blocked"
                         THEN [t \in Tweet |-> IF held[t] = "auth_blocked" THEN "none"
                                               ELSE held[t]]
                         ELSE quarantine
    /\ user' = [user EXCEPT ![n] = None]
    /\ UNCHANGED <<pending, processed, jobs, run, bounds, history>>

\* Storage throws, and what is left of the operation is not done.
AskFails(n) ==
    /\ user[n] # None
    /\ Fault
    /\ user' = [user EXCEPT ![n] = None]
    /\ UNCHANGED <<storage, jobs, run, posts, explicit, restarts, history>>

\* Chrome stops the worker; only what is in storage is there when it starts.
Restart ==
    /\ faults + restarts < MaxFaults
    /\ restarts' = restarts + 1
    /\ jobs' = <<>> /\ run' = None /\ user' = NoUser
    /\ UNCHANGED <<storage, posts, explicit, faults, history>>

----------------------------------------------------------------------------
Answer ==
    \/ Answered_Again
    \/ \E lost \in BOOLEAN : Answered_Accepted(lost)
    \/ \E why \in Why \ {"none"} : Answered_Refused(why)

Worker ==
    \/ StartPost \/ StorePostFails \/ StartAlarm \/ Dispatch \/ NoSecret \/ Throw
    \/ Answer \/ RecordFailure
    \/ QuarantineRead \/ QuarantineWrite \/ Store \/ Verify \/ Drop

Explicit ==
    \/ \E t \in Tweet : RetryRead(t)
    \/ ClearRead
    \/ \E n \in 1..MaxExplicit : RetryWrite(n) \/ RetryDrop(n) \/ ClearWrite(n) \/ AskFails(n)

Next ==
    \/ \E t \in Tweet, p \in Payload : PostTweet(t, p)
    \/ Alarm \/ Tick \/ Worker \/ Explicit \/ Restart

Spec == Init /\ [][Next]_vars

\* The worker's promises settle, its alarm is periodic and time passes; no
\* tab, user, server or browser owes it anything else.
FairSpec == Spec /\ WF_vars(Worker) /\ WF_vars(Alarm) /\ WF_vars(Tick)

----------------------------------------------------------------------------
(* Properties.                                                             *)

\* A tweet that was stored, and that the server has neither accepted nor
\* refused and nobody asked to start afresh, is still in storage: across
\* restarts, failures and answers that come late (persistPendingTweet,
\* recordPendingFailure, removePendingTweet).
NothingForgotten == \A t \in owed : Pending(t)

\* Until a tweet is settled or explicitly retried it is sent at most
\* MaxAttempts times for each payload it was shown with in turn, and once more
\* for every time that an attempt could not be counted, the worker being
\* stopped or storage not taking the failure (persistPendingTweet,
\* recordPendingFailure and the guards of enqueuePostTweet).
SendsBounded ==
    \A t \in Tweet : sends[t] <= MaxAttempts * (1 + changes[t]) + faults + restarts

\* Only a tweet the server has accepted and classified is taken as
\* processed, whatever stale copy of the list is written back.
AckedOnlyIfAccepted == ToSet(processed) \subseteq accepted

\* A pending tweet is settled in the end or has used up its attempts, also
\* when those before it fail for ever: none holds up the others.
Settles == \A t \in Tweet : []<>(~Pending(t) \/ Exhausted(t))
=============================================================================
