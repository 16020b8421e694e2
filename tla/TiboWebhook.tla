---------------------------- MODULE TiboWebhook ----------------------------
(***************************************************************************)
(* The webhook of the extension (app/api/webhook/tibo/route.ts), at work   *)
(* on the tables of CodexUsage while the usage webhook is at work on them. *)
(* A delivery classifies a post, weighs it against what the monitor saw,   *)
(* stores it, and makes a completed reset the property of one event: the   *)
(* post claims its event in the ledger, confirms the recovery and is       *)
(* merged into the estimate of the event.  Each of these is a request to   *)
(* the database of its own; deliveries and the monitor's requests          *)
(* interleave between them, and any of them may fail or be repeated.       *)
(*                                                                         *)
(* A post has one version, is classified the same way each time, and is    *)
(* made between two readings of the monitor; two completions are more than *)
(* five minutes apart, and posts and recoveries lie in the windows that    *)
(* relate them.                                                            *)
(***************************************************************************)
EXTENDS CodexUsage

CONSTANTS
    Completion,     \* the posts that say a reset was made
    Notice,         \* official notices; all other posts are teasers
    Calls,          \* bound: deliveries the server works on at once
    MaxSends,       \* bound: deliveries of one post
    MaxDeliveries   \* bound: deliveries of all posts

ASSUME WebhookAssumption ==
    /\ Completion \subseteq Tweet /\ Notice \subseteq Tweet
    /\ Calls \in Nat /\ MaxSends \in Nat /\ MaxDeliveries \in Nat

Call == 1..Calls

VARIABLES
    calls,
    post            \* the posts, as made and as delivered by TiboOutbox

webhook == <<calls, post>>
allvars == <<vars, webhook>>

Verdict(t) == IF t \in Completion THEN "reset_executed"
              ELSE IF t \in Notice THEN "official_notice" ELSE "teaser"

Delivery ==
    [tweet: Tweet, row: BOOLEAN,        \* was there a row when it began?
     seen: SignalType, verdict: SignalType,
     blind: BOOLEAN,                    \* the recoveries could not be read
     looked: BOOLEAN, obs: Time \cup {None},        \* the recovery found
     led: [Tweet -> Key \cup {None}] \cup {None},   \* the ledger as read
     est: (SUBSET Estimate) \cup {None},            \* the estimates as read
     key: Key \cup {None}, target: Key \cup {None},
     cluster: SUBSET Tweet, claimed: BOOLEAN,
     pc: {"existing", "preflight", "persist", "lookup", "evidence",
          "nearest", "confirm", "merge", "write", "done", "failed"}]

ASSUME NoDelivery == None \notin Delivery

WebhookTypeOK ==
    /\ TypeOK
    /\ calls \in [Call -> Delivery \cup {None}]
    /\ post \in [Tweet -> [sends: 0..MaxSends, settled: BOOLEAN,
                           created: 0..MaxAt,           \* the last reading
                           followed: SUBSET Time,       \* history: recoveries
                           announced: 0..MaxSends]]     \* history: as new

WebhookInit ==
    /\ Init
    /\ calls = [d \in Call |-> None]
    /\ post = [t \in Tweet |-> [sends |-> 0, settled |-> FALSE, created |-> 0,
                                followed |-> {}, announced |-> 0]]

----------------------------------------------------------------------------
(* The extension sends a post until it is accepted.  It may give up a      *)
(* delivery the server is still at work on and send the post again.        *)

NewDelivery(t) ==
    [tweet |-> t, row |-> signals[t] # "absent", seen |-> "absent",
     verdict |-> Verdict(t), blind |-> FALSE, looked |-> FALSE, obs |-> None, led |-> None,
     est |-> None, key |-> None, target |-> None, cluster |-> {},
     claimed |-> FALSE, pc |-> "existing"]

Deliveries == MapThenSumSet(LAMBDA t : post[t].sends, Tweet)

\* Mutant: a post from after a reading that was not made yet.
LastRead_Next == IF last = None THEN 1 ELSE last.at + 1

LastRead == IF last = None THEN 0 ELSE last.at

\* The delivery notes whether the post is stored already; the classification
\* by the model takes its time after that.
Deliver(d, t) ==
    /\ calls[d] = None /\ \A c \in 1..(d - 1) : calls[c] # None
    /\ ~post[t].settled /\ post[t].sends < MaxSends /\ Deliveries < MaxDeliveries
    /\ calls' = [calls EXCEPT ![d] = NewDelivery(t)]
    /\ \E c \in IF post[t].sends = 0 THEN 0..LastRead ELSE {post[t].created} :
        post' = [post EXCEPT
            ![t].sends = @ + 1, ![t].created = c,
            ![t].followed = IF post[t].sends > 0 THEN @
                            ELSE {o.at : o \in {o \in observations :
                                                  Public(o) /\ o.at <= c}}]
    /\ UNCHANGED vars

----------------------------------------------------------------------------
(* The steps of a delivery.                                                *)

At(d, pc) == calls[d] # None /\ calls[d].pc = pc

Step(d, c) == calls' = [calls EXCEPT ![d] = c]

\* The delivery is over but for its answer, and what it has read is forgotten.
Finish(d, pc) ==
    Step(d, [NewDelivery(calls[d].tweet) EXCEPT
                !.row = FALSE, !.pc = pc, !.claimed = calls[d].claimed])

\* The row as it is now.  One that came to be during the classification makes
\* the delivery start over.
ReadExisting(d) ==
    /\ At(d, "existing")
    /\ LET c == calls[d]
       IN  IF ~c.row /\ signals[c.tweet] # "absent"
           THEN Finish(d, "failed")
           ELSE Step(d, [c EXCEPT !.seen = signals[c.tweet],
                                  !.pc = IF c.tweet \in Completion
                                         THEN "preflight" ELSE "persist"])
    /\ UNCHANGED <<vars, post>>

\* The recoveries nearest to a post: none lies between.
Nearest(S, created) ==
    {o \in S : \A p \in S :
        /\ ~(o.at < p.at /\ p.at <= created)
        /\ ~(created < p.at /\ p.at < o.at)}

Unexpected(status) ==
    {o \in observations : o.hint = "unexpected" /\ o.status \in status}

Found(created) ==
    LET near == Nearest(Unexpected({"observed", "confirmed"}), created)
    IN  IF near = {} THEN {None} ELSE {o.at : o \in near}

\* The time of the post lies in what the monitor has watched without a break.
Covered(created) == state # None /\ 1 <= created /\ created < state.at

\* A post that a watchful monitor saw no recovery for is put off.  Whether the
\* state is fresh depends on the clock.
Preflight(d) ==
    /\ At(d, "preflight")
    /\ LET c == calls[d]
           created == post[c.tweet].created
       IN  \E fresh \in IF Covered(created) THEN BOOLEAN ELSE {FALSE},
              o \in Found(created) :
            Step(d, [c EXCEPT
                        !.verdict = IF fresh /\ o = None THEN "deferred" ELSE @,
                        !.looked = fresh, !.obs = IF fresh THEN o ELSE None,
                        !.pc = "persist"])
    /\ UNCHANGED <<vars, post>>

\* Insert against insert: the second one fails.  A post that is no completion,
\* or is put off, is done.
Persist(d) ==
    /\ At(d, "persist")
    /\ LET c == calls[d]
       IN  IF ~c.row /\ signals[c.tweet] # "absent"
           THEN Finish(d, "failed") /\ UNCHANGED signals
           ELSE /\ signals' = [signals EXCEPT ![c.tweet] = c.verdict]
                /\ IF c.verdict # "reset_executed" THEN Finish(d, "done")
                   ELSE IF c.blind THEN Finish(d, "failed")
                   ELSE Step(d, [c EXCEPT !.pc = IF c.looked THEN "evidence"
                                                 ELSE "lookup"])
    /\ UNCHANGED <<state, observations, grants, estimates, ledger, requests,
                   monitor, applied, faults, post>>

Lookup(d) ==
    /\ At(d, "lookup")
    /\ \E o \in Found(post[calls[d].tweet].created) :
        Step(d, [calls[d] EXCEPT !.looked = TRUE, !.obs = o, !.pc = "evidence"])
    /\ UNCHANGED <<vars, post>>

\* The ledger and the estimates are read side by side.
ReadLedger(d) ==
    /\ At(d, "evidence") /\ calls[d].led = None
    /\ Step(d, [calls[d] EXCEPT !.led = ledger])
    /\ UNCHANGED <<vars, post>>

ReadEstimates(d) ==
    /\ At(d, "evidence") /\ calls[d].est = None
    /\ Step(d, [calls[d] EXCEPT !.est = estimates])
    /\ UNCHANGED <<vars, post>>

Self(t) == <<"tibo-reset", t>>

LedgerKeys(c) == {c.led[c.tweet]} \ {None}

\* Mutant: an estimate is found by its posts alone.
Matching_ByPost(c) == {e \in c.est : c.tweet \in e.tweets}

\* The estimates of the recovery found, and those that name the post.
Matching(c) == {e \in c.est : e.obs = c.obs \/ c.tweet \in e.tweets}
DynamicKeys(c) == IF c.seen = "reset_executed" THEN {Self(c.tweet)} ELSE {}

\* resolveTiboResetEventIdentity: the keys that the ledger, the estimates and
\* the post's own history name.  An event the monitor found by itself prevails
\* over the post's own key; an event it found before the post that nobody has
\* claimed keeps the post from making a new one.
Resolved(c, created) ==
    LET found == {e.key : e \in Matching(c)}
        keys == LedgerKeys(c) \cup found \cup DynamicKeys(c)
        canonical == {k \in {e.key : e \in {e \in Matching(c) : e.monitor}} :
                        /\ found = {k}
                        /\ keys \subseteq {k, Self(c.tweet)}
                        /\ \A t \in Tweet : c.led[t] = k => c.led[c.tweet] \in {None, k}}
        unclaimed == {e \in c.est : /\ e.monitor /\ e.obs <= created
                                    /\ \A t \in Tweet : c.led[t] # e.key}
    IN  IF Cardinality(keys) = 1 THEN keys
        ELSE IF keys # {} THEN canonical
        ELSE IF unclaimed # {} THEN {} ELSE {Self(c.tweet)}

\* New to the ledger, the estimates and the history: the claim is an adoption.
IsNew(c) == LedgerKeys(c) = {} /\ Matching(c) = {} /\ DynamicKeys(c) = {}

\* The post that represents the event: of its ledger, or else of its estimate.
RepresentativeOf(c, k) ==
    LET owners == {t \in Tweet : c.led[t] = k}
        primaries == {e.primary : e \in {e \in c.est : e.key = k}} \ {None}
    IN  IF owners # {} THEN CHOOSE t \in owners : TRUE
        ELSE IF primaries # {} THEN CHOOSE t \in primaries : TRUE
        ELSE c.tweet

\* Mutant: whatever is not in the ledger yet is a new adoption.
ClaimedNew_Unclaimed(c, rows) == rows = {}

\* claim_tibo_formal_adoption answers claimed_new.
ClaimedNew(c, rows) == IsNew(c) /\ rows = {}

\* The post claims its event.  The database refuses a representative that is
\* not a version of the post; an event that belongs to another post ends the
\* delivery well, without anything said of the event.
Claims(d) ==
    /\ At(d, "evidence") /\ calls[d].led # None /\ calls[d].est # None
    /\ LET c == calls[d]
           t == c.tweet
           ks == Resolved(c, post[t].created)
           k == CHOOSE k \in ks : TRUE
           rows == {u \in Tweet : ledger[u] # None /\ (u = t \/ ledger[u] = k)}
       IN  IF ks = {} \/ RepresentativeOf(c, k) # t \/ ~(rows \subseteq {t})
           THEN /\ Finish(d, IF ks # {} /\ RepresentativeOf(c, k) # t
                             THEN "failed" ELSE "done")
                /\ UNCHANGED ledger
           ELSE /\ ledger' = IF rows = {} THEN [ledger EXCEPT ![t] = k] ELSE ledger
                /\ Step(d, [NewDelivery(t) EXCEPT
                            !.pc = "nearest", !.row = FALSE, !.key = k,
                            !.claimed = ClaimedNew(c, rows)])
    /\ UNCHANGED <<state, observations, grants, estimates, signals, requests,
                   monitor, applied, faults, post>>

\* confirmNearestCodexRecoveryObservation: one that is to be confirmed, or else
\* one that was confirmed by this post.
ReadNearest(d) ==
    /\ At(d, "nearest")
    /\ LET t == calls[d].tweet
           open == Nearest(Unexpected({"observed"}), post[t].created)
           mine == Nearest({o \in Unexpected({"confirmed"}) : o.tibo = t},
                           post[t].created)
       IN  IF open # {}
           THEN \E o \in open : Step(d, [calls[d] EXCEPT !.obs = o.at, !.pc = "confirm"])
           ELSE IF mine # {}
           THEN \E o \in mine : Step(d, [calls[d] EXCEPT !.obs = o.at, !.pc = "merge"])
           ELSE Finish(d, "done")
    /\ UNCHANGED <<vars, post>>

\* Mutant: the update does not ask whether the recovery is still to be confirmed.
Confirmable_Any(o) == TRUE

Confirmable(o) == o.status = "observed"

\* Lost to another post, the delivery fails; what is confirmed stays so.
Confirm(d) ==
    /\ At(d, "confirm")
    /\ LET t == calls[d].tweet
           o == CHOOSE o \in observations : o.at = calls[d].obs
       IN  /\ observations' =
                IF Confirmable(o)
                THEN (observations \ {o}) \cup
                     {[o EXCEPT !.status = "confirmed", !.tibo = t]}
                ELSE observations
           /\ IF Confirmable(o) \/ o.tibo = t
              THEN Step(d, [calls[d] EXCEPT !.pc = "merge"]) ELSE Finish(d, "failed")
    /\ UNCHANGED <<state, grants, estimates, signals, ledger, requests, monitor,
                   applied, faults, post>>

\* upsertResetExecutionEstimate reads: the estimate of the event, or else of
\* the recovery, or else of the post; and the announcements the post makes good.
ReadEstimate(d) ==
    /\ At(d, "merge")
    /\ LET c == calls[d]
           byKey == {e \in estimates : e.key = c.key}
           byObs == {e \in estimates : e.obs = c.obs}
           byTweet == {e \in estimates : c.tweet \in e.tweets}
       IN  \E e \in IF byKey # {} THEN byKey ELSE IF byObs # {} THEN byObs
                    ELSE IF byTweet # {} THEN byTweet ELSE {None} :
            Step(d, [c EXCEPT !.target = IF e = None THEN None ELSE e.key,
                              !.cluster = Announcements, !.pc = "write"])
    /\ UNCHANGED <<vars, post>>

\* The row that was found, or else one of the same recovery, is overwritten.
Overwritten(c) ==
    {e \in estimates : IF c.target # None THEN e.key = c.target ELSE e.obs = c.obs}

Merged(c) ==
    [key |-> IF c.target # None THEN c.target ELSE c.key,
     obs |-> c.obs, tweets |-> {c.tweet} \cup c.cluster, primary |-> c.tweet,
     notice |-> Representative(c.cluster), monitor |-> FALSE]

\* upsertResetExecutionEstimate writes; keys and recoveries are unique.
WriteEstimate(d) ==
    /\ At(d, "write")
    /\ LET c == calls[d]
           rest == estimates \ Overwritten(c)
           clash == \E e \in rest : e.key = Merged(c).key \/ e.obs = c.obs
       IN  /\ estimates' = IF clash THEN estimates ELSE rest \cup {Merged(c)}
           /\ Finish(d, IF clash THEN "failed" ELSE "done")
    /\ UNCHANGED <<state, observations, grants, signals, ledger, requests,
                   monitor, applied, faults, post>>

\* A request to the database fails.  Without the state of the monitor a post is
\* stored as it is; without the recoveries it is stored, and then goes no
\* further.
StepFails(d) ==
    /\ calls[d] # None /\ calls[d].pc \notin {"done", "failed"}
    /\ Fault
    /\ \/ ~At(d, "preflight") /\ Finish(d, "failed")
       \/ At(d, "preflight") /\ Step(d, [calls[d] EXCEPT !.pc = "persist"])
       \/ /\ At(d, "preflight") /\ Covered(post[calls[d].tweet].created)
          /\ Step(d, [calls[d] EXCEPT !.blind = TRUE, !.pc = "persist"])
    /\ UNCHANGED <<tables, requests, monitor, applied, post>>

\* 200 settles the post for the extension; 5xx makes it send it again.
Answered(d) ==
    /\ calls[d] # None /\ calls[d].pc \in {"done", "failed"}
    /\ calls' = [calls EXCEPT ![d] = None]
    /\ post' = IF calls[d].pc = "failed" THEN post
               ELSE [post EXCEPT ![calls[d].tweet].settled = TRUE,
                                 ![calls[d].tweet].announced =
                                    @ + (IF calls[d].claimed THEN 1 ELSE 0)]
    /\ UNCHANGED vars

\* The server ends, or its answer is lost.
CallLost(d) ==
    /\ calls[d] # None
    /\ Fault
    /\ calls' = [calls EXCEPT ![d] = None]
    /\ UNCHANGED <<tables, requests, monitor, applied, post>>

UsageNext ==
    \/ Enqueue \/ Heartbeat \/ Send \/ GiveUp
    \/ \E r \in Slot : Serve(r) \/ Fails(r)

TiboNext ==
    \E d \in Call :
        \/ \E t \in Tweet : Deliver(d, t)
        \/ ReadExisting(d) \/ Preflight(d) \/ Persist(d) \/ Lookup(d)
        \/ ReadLedger(d) \/ ReadEstimates(d) \/ Claims(d) \/ ReadNearest(d)
        \/ Confirm(d) \/ ReadEstimate(d) \/ WriteEstimate(d)
        \/ StepFails(d) \/ Answered(d) \/ CallLost(d)

WebhookNext == (UsageNext /\ UNCHANGED webhook) \/ TiboNext

WebhookSpec == WebhookInit /\ [][WebhookNext]_allvars

----------------------------------------------------------------------------
(* Properties.                                                             *)

\* However often a post is delivered, and whatever overlaps, it is announced as
\* a new adoption at most once, and only when its event is its own.
AnnouncedOnce ==
    \A t \in Tweet :
        /\ post[t].announced <= 1
        /\ post[t].announced = 1 => ledger[t] = Self(t)

\* A recovery that was confirmed by a post stays confirmed by that post: the
\* second of two posts that saw it open loses.
ConfirmationStands ==
    [][\A o \in observations : o.status = "confirmed" => o \in observations']_allvars

\* A completion that follows a recovery the monitor made an event of makes no
\* event of its own; and when it is settled, the event has a completion, or
\* another post holds the event or its recovery.  This, and the next property,
\* are about completions and one recovery: a notice in the event keeps completions
\* out of it, and a later recovery may be matched to the post of an earlier one.
FollowerJoins ==
    \A o \in observations, t \in Completion :
        Public(o) /\ o.at \in post[t].followed =>
            /\ ledger[t] # Self(t)
            /\ post[t].settled =>
                \E e \in estimates :
                    /\ e.obs = o.at
                    /\ \/ e.tweets \cap Completion # {}
                       \/ \E u \in Completion \ {t} : ledger[u] = e.key \/ o.tibo = u

\* Nothing failed, no delivery is under way, and no completion that was sent
\* will be sent again.
DeliveriesOver ==
    /\ faults = 0
    /\ \A d \in Call : calls[d] = None
    /\ \A t \in Completion :
        \/ post[t].sends \in {0, MaxSends} \/ post[t].settled
        \/ Deliveries = MaxDeliveries

\* In the end, some completion is merged into the event of a recovery that a
\* completion followed, and the event keeps the time of the recovery.  It is
\* the first one alone: see SubsequentPostMerged.
SomeFollowerMerged ==
    \A o \in observations, t \in Completion :
        Public(o) /\ o.at \in post[t].followed /\ DeliveriesOver =>
            \E e \in estimates : e.obs = o.at /\ e.tweets \cap Completion # {}

\* In the end, each completion that follows such a recovery is merged into its
\* event.  The code merges only one: the next takes the first for its own
\* representative, is refused by the database and answered 503; sent again, it
\* finds its own stored row at odds with the event, and is settled unmerged.
SubsequentPostMerged ==
    \A o \in observations, t \in Completion :
        Public(o) /\ o.at \in post[t].followed /\ DeliveriesOver =>
            \E e \in estimates : e.obs = o.at /\ t \in e.tweets

=============================================================================
