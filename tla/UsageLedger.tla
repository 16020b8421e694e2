---------------------------- MODULE UsageLedger ----------------------------
(***************************************************************************)
(* What the usage webhook promises to the monitor, whatever happens to     *)
(* single requests: the snapshots it counts move forward in time; a        *)
(* recovery of the quota, or an increase of the BANKED resets, is read off *)
(* a snapshot and the one counted just before it; a post is acknowledged   *)
(* only once it or a later one counts, or when two snapshots were counted  *)
(* during the attempt to deliver it; and every post is in the end.         *)
(***************************************************************************)
EXTENDS Naturals, Sequences

CONSTANT Time       \* a set of positive numbers

VARIABLES
    posted,         \* the times of the posts in the order of the outbox
    acknowledged,   \* how many of them were acknowledged
    latest,         \* the time of the snapshot counted last; 0 for none
    recoveries,     \* pairs of times
    increases,
    meanwhile       \* snapshots counted during the present attempt

vars == <<posted, acknowledged, latest, recoveries, increases, meanwhile>>

Init ==
    /\ posted = <<>> /\ acknowledged = 0
    /\ latest = 0 /\ recoveries = {} /\ increases = {}
    /\ meanwhile = 0

Post(t) ==
    /\ posted' = Append(posted, t)
    /\ UNCHANGED <<acknowledged, latest, recoveries, increases, meanwhile>>

\* A snapshot counts, whether an attempt is under way or was given up.
Count(t) ==
    /\ t > latest
    /\ latest' = t
    /\ recoveries' \in {recoveries, recoveries \cup {<<latest, t>>}}
    /\ increases' \in {increases, increases \cup {<<latest, t>>}}
    /\ meanwhile' \in {0, meanwhile + 1}
    /\ UNCHANGED <<posted, acknowledged>>

\* An attempt ends without an acknowledgement.
EndAttempt ==
    /\ meanwhile' = 0
    /\ UNCHANGED <<posted, acknowledged, latest, recoveries, increases>>

Acknowledge ==
    /\ acknowledged < Len(posted)
    /\ latest >= posted[acknowledged + 1] \/ meanwhile >= 2
    /\ acknowledged' = acknowledged + 1
    /\ meanwhile' = 0
    /\ UNCHANGED <<posted, latest, recoveries, increases>>

Next ==
    \/ \E t \in Time : Post(t) \/ Count(t)
    \/ EndAttempt \/ Acknowledge

Spec == Init /\ [][Next]_vars

\* What was posted is acknowledged in the end.
AllAcknowledged == \A n \in Time : Len(posted) >= n ~> acknowledged >= n
=============================================================================
