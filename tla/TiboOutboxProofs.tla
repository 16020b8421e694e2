-------------------------- MODULE TiboOutboxProofs --------------------------
(***************************************************************************)
(* Proofs about TiboOutbox, for any tweets, limits and bounds.             *)
(***************************************************************************)
EXTENDS TiboOutbox, FiniteSetTheorems, SequenceTheorems, TLAPS

Queue == [Tweet -> Entry \cup {None}]

\* The pending tweets: as many as there is room for, and those that have used
\* up their attempts are marked.
QueueOK(q) ==
    /\ q \in Queue
    /\ Cardinality(Stored(q)) <= MaxPending
    /\ \A t \in Tweet : q[t] # None => q[t].exhausted = (q[t].attempts = MaxAttempts)

\* A list of processed ids, or an old copy of one, of which "a" were accepted.
IdsOK(ids, a) ==
    /\ ids \in Seq(Tweet) /\ Len(ids) <= MaxProcessed
    /\ \A i, j \in DOMAIN ids : ids[i] = ids[j] => i = j
    /\ ToSet(ids) \subseteq a

\* What a running job holds: its tweet can be put back and has attempts left,
\* and is not owed any more when its job is about to remove it.
RunOK(r, q, o, a) ==
    /\ r \in Run /\ IdsOK(r.known, a)
    /\ r.pc \in {"sent", "store"} => r.tweet \notin ToSet(r.known)
    /\ r.pc = "store" => r.tweet \in a
    /\ r.pc \in {"readQuarantine", "quarantine", "store", "verify", "drop"} => r.tweet \notin o
    /\ q[r.tweet] = None => Cardinality(Stored(q)) < MaxPending
    /\ q[r.tweet] # None => q[r.tweet].attempts < MaxAttempts

UserOK(u, a) ==
    /\ u \in User /\ IdsOK(u.known, a)
    /\ u.op = "retry" => u.tweet \in Tweet

UsersOK(us, a) ==
    /\ us \in [1..MaxExplicit -> User \cup {None}]
    /\ \A n \in 1..MaxExplicit : us[n] # None => UserOK(us[n], a)

BoundsOK ==
    /\ quarantine \in [Tweet -> Why] /\ jobs \in Seq(Job)
    /\ posts \in 0..MaxPosts /\ explicit \in 0..MaxExplicit
    /\ faults \in 0..MaxFaults /\ restarts \in 0..MaxFaults

HistoryOK ==
    /\ owed \subseteq Tweet /\ accepted \subseteq Tweet
    /\ sends \in [Tweet -> Nat] /\ changes \in [Tweet -> Nat]

IInv ==
    /\ QueueOK(pending) /\ IdsOK(processed, accepted)
    /\ run # None => RunOK(run, pending, owed, accepted)
    /\ UsersOK(user, accepted)
    /\ BoundsOK /\ HistoryOK
    /\ NothingForgotten

\* The requests that were counted: by the entry, by the entries that other
\* payloads replaced, by the job that has not got so far yet, and by a fault or
\* a restart that ended such a job.
Attempts(q, t) == IF q[t] = None THEN 0 ELSE q[t].attempts
InFlight(r, t) == IF r # None /\ r.tweet = t /\ r.pc # "read" THEN 1 ELSE 0
Replaced(t) == MaxAttempts * changes[t]
Counted == \A t \in Tweet :
              sends[t] <= Replaced(t) + faults + restarts
                          + Attempts(pending, t) + InFlight(run, t)

-----------------------------------------------------------------------------
(* The queue: what an update does to it. *)

LEMMA StoredFinite ==
    ASSUME NEW q
    PROVE  IsFiniteSet(Stored(q)) /\ Cardinality(Stored(q)) \in Nat
<1>1. Stored(q) \subseteq Tweet
  BY DEF Stored
<1> QED
  BY <1>1, FS_Subset, FS_CardinalityType, TiboOutboxAssumption

LEMMA WithoutOK ==
    ASSUME NEW q, QueueOK(q), NEW t \in Tweet
    PROVE  /\ QueueOK(Without(q, t)) /\ Without(q, t)[t] = None
           /\ \A u \in Tweet : u # t => Without(q, t)[u] = q[u]
           /\ Cardinality(Stored(Without(q, t))) <= Cardinality(Stored(q))
           /\ q[t] # None => Cardinality(Stored(Without(q, t))) < MaxPending
<1> DEFINE r == Without(q, t)
<1>1. /\ r \in Queue /\ r[t] = None
      /\ \A u \in Tweet : u # t => r[u] = q[u]
  BY DEF QueueOK, Queue, Without
<1>2. Stored(r) = Stored(q) \ {t}
  BY <1>1 DEF Stored
<1>3. /\ Cardinality(Stored(r)) <= Cardinality(Stored(q))
      /\ q[t] # None => Cardinality(Stored(r)) < Cardinality(Stored(q))
  <2>1. q[t] # None => t \in Stored(q)
    BY DEF Stored
  <2>2. CASE t \in Stored(q)
    <3>1. Cardinality(Stored(r)) = Cardinality(Stored(q)) - 1
      BY <1>2, <2>2, StoredFinite, FS_RemoveElement
    <3> QED
      BY <3>1, StoredFinite
  <2>3. CASE t \notin Stored(q)
    <3>1. Stored(r) = Stored(q)
      BY <1>2, <2>3
    <3> QED
      BY <2>1, <2>3, <3>1, StoredFinite
  <2> QED
    BY <2>2, <2>3
<1>4. MaxPending \in Nat /\ Cardinality(Stored(q)) \in Nat /\ Cardinality(Stored(r)) \in Nat
  BY StoredFinite, TiboOutboxAssumption
<1>5. QueueOK(r)
  BY <1>1, <1>3, <1>4 DEF QueueOK
<1> QED
  BY <1>1, <1>3, <1>4, <1>5 DEF QueueOK

LEMMA PutOK ==
    ASSUME NEW q, QueueOK(q), NEW t \in Tweet, NEW e \in Entry,
           e.exhausted = (e.attempts = MaxAttempts)
    PROVE  /\ QueueOK(Put(q, t, e))
           /\ \A u \in Tweet : q[u] # None => Put(q, t, e)[u] # None
           /\ \A u \in Tweet : u # t => Put(q, t, e)[u] = q[u]
           /\ Put(q, t, e)[t] # None => Put(q, t, e)[t] = e
           /\ q[t] # None \/ Cardinality(Stored(q)) < MaxPending => Put(q, t, e)[t] = e
<1>1. CASE ~(q[t] # None \/ Cardinality(Stored(q)) < MaxPending)
  BY <1>1 DEF Put
<1>2. CASE q[t] # None \/ Cardinality(Stored(q)) < MaxPending
  <2> DEFINE r == [q EXCEPT ![t] = e]
  <2>1. Put(q, t, e) = r
    BY <1>2 DEF Put
  <2>2. r \in Queue /\ r[t] = e /\ \A u \in Tweet : u # t => r[u] = q[u]
    BY DEF QueueOK, Queue
  <2>3. e # None
    BY TiboOutboxAssumption
  <2>4. Stored(r) = Stored(q) \cup {t}
    BY <2>2, <2>3 DEF Stored
  <2>5. Cardinality(Stored(r)) <= MaxPending
    <3>1. CASE t \in Stored(q)
      <4>1. Stored(r) = Stored(q)
        BY <2>4, <3>1
      <4> QED
        BY <4>1 DEF QueueOK
    <3>2. CASE t \notin Stored(q)
      <4>1. Cardinality(Stored(q)) < MaxPending
        BY <1>2, <3>2 DEF Stored
      <4>2. Cardinality(Stored(r)) = Cardinality(Stored(q)) + 1
        BY <2>4, <3>2, StoredFinite, FS_AddElement
      <4>3. MaxPending \in Nat
        BY TiboOutboxAssumption
      <4> QED
        BY <4>1, <4>2, <4>3, StoredFinite
    <3> QED
      BY <3>1, <3>2
  <2> HIDE DEF r
  <2>6. QueueOK(r)
    BY <2>2, <2>5 DEF QueueOK
  <2> QED
    BY <2>1, <2>2, <2>3, <2>6
<1> QED
  BY <1>1, <1>2

\* The two entries that are put: a fresh one, and one with an attempt more.
LEMMA FreshEntry ==
    ASSUME NEW p \in Payload
    PROVE  /\ Fresh(p) \in Entry /\ Fresh(p).attempts = 0 /\ Fresh(p).payload = p
           /\ Fresh(p).exhausted = (Fresh(p).attempts = MaxAttempts)
<1>1. 0 \in 0..MaxAttempts /\ MaxAttempts # 0
  <2>1. MaxAttempts \in Nat \ {0}
    BY TiboOutboxAssumption
  <2> QED
    BY <2>1
<1>2. Fresh(p) \in Entry
  BY <1>1 DEF Fresh, Entry
<1>3. Fresh(p).attempts = 0 /\ Fresh(p).payload = p /\ ~Fresh(p).exhausted
  BY DEF Fresh
<1>4. Fresh(p).exhausted \in BOOLEAN
  BY <1>2 DEF Entry
<1> QED
  BY <1>1, <1>2, <1>3, <1>4

LEMMA FailedEntry ==
    ASSUME NEW e \in Entry, e.attempts < MaxAttempts
    PROVE  /\ Failed(e) \in Entry /\ Failed(e).attempts = e.attempts + 1
           /\ Failed(e).exhausted = (Failed(e).attempts = MaxAttempts)
<1> DEFINE n == e.attempts + 1
<1>1. MaxAttempts \in Nat
  BY TiboOutboxAssumption
<1>2. n \in 0..MaxAttempts /\ (n >= MaxAttempts) = (n = MaxAttempts)
  <2>1. e.attempts \in 0..MaxAttempts
    BY DEF Entry
  <2> QED
    BY <1>1, <2>1
<1>3. (n >= MaxAttempts) \in BOOLEAN /\ (n < MaxAttempts) \in BOOLEAN
  OBVIOUS
<1>4. Failed(e) = [e EXCEPT !.attempts = n, !.exhausted = n >= MaxAttempts,
                            !.waiting = n < MaxAttempts]
  BY DEF Failed
<1> HIDE DEF n
<1>5. /\ Failed(e) \in Entry /\ Failed(e).attempts = n
      /\ Failed(e).exhausted = (n >= MaxAttempts)
  BY <1>2, <1>3, <1>4 DEF Entry
<1> QED
  BY <1>2, <1>5 DEF n

-----------------------------------------------------------------------------
(* The processed ids: what joins them, and what leaves. *)

LEMMA IdsGrow ==
    ASSUME NEW ids, NEW a, NEW b, IdsOK(ids, a), a \subseteq b
    PROVE  IdsOK(ids, b)
BY DEF IdsOK

LEMMA NoIds ==
    ASSUME NEW a
    PROVE  IdsOK(<<>>, a)
<1>1. <<>> \in Seq(Tweet) /\ Len(<<>>) = 0 /\ DOMAIN <<>> = {}
  BY EmptySeq
<1>2. MaxProcessed \in Nat
  BY TiboOutboxAssumption
<1>3. ToSet(<<>>) = {}
  BY <1>1 DEF ToSet
<1> QED
  BY <1>1, <1>2, <1>3 DEF IdsOK

\* Store: the id of an accepted tweet joins the ids read before, the oldest leaves.
LEMMA IdsStored ==
    ASSUME NEW ids, NEW a, IdsOK(ids, a), NEW t \in Tweet, t \notin ToSet(ids), t \in a
    PROVE  IdsOK(LET more == Append(ids, t)
                 IN  IF Len(more) > MaxProcessed THEN Tail(more) ELSE more, a)
<1> DEFINE more == Append(ids, t)
<1>1. /\ ids \in Seq(Tweet) /\ Len(ids) \in Nat /\ DOMAIN ids = 1..Len(ids)
      /\ MaxProcessed \in Nat \ {0}
  BY LenProperties, TiboOutboxAssumption DEF IdsOK
<1>2. /\ more \in Seq(Tweet) /\ more # <<>> /\ Len(more) = Len(ids) + 1
      /\ \A i \in 1..Len(ids) : more[i] = ids[i]
      /\ more[Len(ids) + 1] = t
  BY <1>1, AppendProperties
<1>3. DOMAIN more = 1..(Len(ids) + 1)
  BY <1>2, LenProperties
<1> HIDE DEF more
<1>4. \A i \in 1..Len(ids) : ids[i] # t /\ ids[i] \in a
  BY <1>1 DEF ToSet, IdsOK
<1>5. \A i, j \in DOMAIN more : more[i] = more[j] => i = j
  <2> SUFFICES ASSUME NEW i \in DOMAIN more, NEW j \in DOMAIN more, more[i] = more[j]
               PROVE  i = j
    OBVIOUS
  <2>1. CASE i \in 1..Len(ids) /\ j \in 1..Len(ids)
    BY <1>1, <1>2, <2>1 DEF IdsOK
  <2>2. CASE i = Len(ids) + 1 \/ j = Len(ids) + 1
    BY <1>1, <1>2, <1>3, <1>4, <2>2
  <2> QED
    BY <1>1, <1>3, <2>1, <2>2
<1>6. ToSet(more) \subseteq a
  BY <1>1, <1>2, <1>3, <1>4 DEF ToSet
<1>7. CASE Len(more) > MaxProcessed
  <2>1. /\ Tail(more) \in Seq(Tweet) /\ Len(Tail(more)) = Len(ids)
        /\ \A i \in 1..Len(Tail(more)) : Tail(more)[i] = more[i + 1]
    BY <1>1, <1>2, HeadTailProperties
  <2>2. DOMAIN Tail(more) = 1..Len(ids)
    BY <2>1, LenProperties
  <2>3. Len(Tail(more)) <= MaxProcessed
    BY <2>1 DEF IdsOK
  <2>4. \A i \in 1..Len(ids) : i + 1 \in DOMAIN more /\ Tail(more)[i] = more[i + 1]
    BY <1>1, <1>3, <2>1
  <2>5. \A i, j \in DOMAIN Tail(more) : Tail(more)[i] = Tail(more)[j] => i = j
    <3> SUFFICES ASSUME NEW i \in 1..Len(ids), NEW j \in 1..Len(ids),
                        Tail(more)[i] = Tail(more)[j]
                 PROVE  i = j
      BY <2>2
    <3>1. i + 1 = j + 1
      BY <1>5, <2>4
    <3> QED
      BY <1>1, <3>1
  <2>6. ToSet(Tail(more)) \subseteq a
    BY <1>6, <2>2, <2>4 DEF ToSet
  <2>7. IdsOK(Tail(more), a)
    BY <2>1, <2>3, <2>5, <2>6 DEF IdsOK
  <2> QED
    BY <1>7, <2>7 DEF more
<1>8. CASE ~(Len(more) > MaxProcessed)
  <2>1. IdsOK(more, a)
    BY <1>1, <1>2, <1>5, <1>6, <1>8 DEF IdsOK
  <2> QED
    BY <1>8, <2>1 DEF more
<1> QED
  BY <1>7, <1>8

\* retryTweet: one id leaves, wherever it is.
LEMMA IdsRemoved ==
    ASSUME NEW ids, NEW a, IdsOK(ids, a), NEW t \in ToSet(ids)
    PROVE  IdsOK(Removed(ids, t), a)
<1> DEFINE n == CHOOSE i \in DOMAIN ids : ids[i] = t
           left == SubSeq(ids, 1, n - 1)
           right == SubSeq(ids, n + 1, Len(ids))
           part == left \o right
<1>1. /\ ids \in Seq(Tweet) /\ Len(ids) \in Nat /\ DOMAIN ids = 1..Len(ids)
      /\ \A i \in 1..Len(ids) : ids[i] \in Tweet
      /\ MaxProcessed \in Nat
  BY LenProperties, TiboOutboxAssumption, ElementOfSeq DEF IdsOK
<1>2. n \in 1..Len(ids)
  BY <1>1 DEF ToSet
<1> HIDE DEF n
<1>3. /\ left \in Seq(Tweet) /\ Len(left) = n - 1
      /\ \A i \in 1..(n - 1) : left[i] = ids[i]
  <2>1. \A i \in 1..(n - 1) : ids[i] \in Tweet
    BY <1>1, <1>2
  <2>2. n - 1 \in Int /\ 1 \in Int /\ n - 1 - 1 + 1 = n - 1
    BY <1>1, <1>2
  <2>3. /\ left \in Seq(Tweet)
        /\ Len(left) = IF 1 <= n - 1 THEN n - 1 - 1 + 1 ELSE 0
        /\ \A i \in 1..(n - 1 - 1 + 1) : left[i] = ids[1 + i - 1]
    BY <2>1, <2>2, SubSeqProperties
  <2> HIDE DEF left
  <2> QED
    BY <1>1, <1>2, <2>3
<1>4. /\ right \in Seq(Tweet) /\ Len(right) = Len(ids) - n
      /\ \A i \in 1..(Len(ids) - n) : right[i] = ids[n + i]
  <2>1. \A i \in (n + 1)..Len(ids) : ids[i] \in Tweet
    BY <1>1, <1>2
  <2>2. n + 1 \in Int /\ Len(ids) \in Int
    BY <1>1, <1>2
  <2>3. /\ right \in Seq(Tweet)
        /\ Len(right) = IF n + 1 <= Len(ids) THEN Len(ids) - (n + 1) + 1 ELSE 0
        /\ \A i \in 1..(Len(ids) - (n + 1) + 1) : right[i] = ids[n + 1 + i - 1]
    BY <2>1, <2>2, SubSeqProperties
  <2> HIDE DEF right
  <2>4. Len(ids) - (n + 1) + 1 = Len(ids) - n
    BY <1>1, <1>2
  <2>5. \A i \in 1..(Len(ids) - n) : right[i] = ids[n + i]
    <3> SUFFICES ASSUME NEW i \in 1..(Len(ids) - n) PROVE right[i] = ids[n + i]
      OBVIOUS
    <3>1. right[i] = ids[n + 1 + i - 1]
      BY <2>3, <2>4
    <3>2. n + 1 + i - 1 = n + i
      BY <1>1, <1>2
    <3> QED
      BY <3>1, <3>2
  <2>6. Len(right) = Len(ids) - n
    <3>1. CASE n + 1 <= Len(ids)
      BY <2>3, <2>4, <3>1
    <3>2. CASE ~(n + 1 <= Len(ids))
      <4>1. n = Len(ids)
        <5>1. Len(ids) \in Nat
          BY <1>1
        <5> QED
          BY <1>2, <3>2, <5>1
      <4>2. Len(right) = 0
        BY <2>3, <3>2
      <4>3. Len(ids) - n = 0
        BY <1>1, <4>1
      <4> QED
        BY <4>2, <4>3
    <3> QED
      BY <3>1, <3>2
  <2> QED
    BY <2>3, <2>5, <2>6
<1> HIDE DEF left, right
<1>5. /\ part \in Seq(Tweet) /\ Len(part) = Len(ids) - 1
      /\ \A i \in 1..(Len(ids) - 1) : part[i] = IF i <= n - 1 THEN left[i] ELSE right[i - (n - 1)]
  <2>1. /\ part \in Seq(Tweet) /\ Len(part) = Len(left) + Len(right)
        /\ \A i \in 1..(Len(left) + Len(right)) :
              part[i] = IF i <= Len(left) THEN left[i] ELSE right[i - Len(left)]
    BY <1>3, <1>4, ConcatProperties
  <2> HIDE DEF part
  <2> QED
    BY <1>1, <1>2, <1>3, <1>4, <2>1
<1> HIDE DEF part
<1>6. DOMAIN part = 1..(Len(ids) - 1)
  BY <1>5, LenProperties
<1>7. \A i \in 1..(Len(ids) - 1) : part[i] = IF i <= n - 1 THEN ids[i] ELSE ids[i + 1]
  <2> SUFFICES ASSUME NEW i \in 1..(Len(ids) - 1)
               PROVE  part[i] = IF i <= n - 1 THEN ids[i] ELSE ids[i + 1]
    OBVIOUS
  <2>1. CASE i <= n - 1
    BY <1>1, <1>2, <1>3, <1>5, <2>1
  <2>2. CASE ~(i <= n - 1)
    <3>1. i - (n - 1) \in 1..(Len(ids) - n) /\ n + (i - (n - 1)) = i + 1
      BY <1>1, <1>2, <2>2
    <3> QED
      BY <1>4, <1>5, <2>2, <3>1
  <2> QED
    BY <2>1, <2>2
<1>8. \A i, j \in DOMAIN part : part[i] = part[j] => i = j
  <2> SUFFICES ASSUME NEW i \in 1..(Len(ids) - 1), NEW j \in 1..(Len(ids) - 1),
                      part[i] = part[j]
               PROVE  i = j
    BY <1>6
  <2>1. \A k, l \in 1..Len(ids) : ids[k] = ids[l] => k = l
    BY <1>1 DEF IdsOK
  <2> QED
    BY <1>1, <1>2, <1>7, <2>1
<1>9. Len(part) <= MaxProcessed
  BY <1>1, <1>5 DEF IdsOK
<1>10. ToSet(part) \subseteq a
  <2>1. \A k \in 1..Len(ids) : ids[k] \in a
    BY <1>1 DEF IdsOK, ToSet
  <2>2. \A i \in 1..(Len(ids) - 1) : part[i] \in a
    BY <1>1, <1>2, <1>7, <2>1
  <2> QED
    BY <1>6, <2>2 DEF ToSet
<1>11. IdsOK(part, a)
  BY <1>5, <1>8, <1>9, <1>10 DEF IdsOK
<1>12. Removed(ids, t) = part
  BY DEF Removed, RemoveAt, part, left, right, n
<1> QED
  BY <1>11, <1>12

-----------------------------------------------------------------------------
(* What a job holds, when another step changes the storage or it goes on. *)

LEMMA RunKept ==
    ASSUME NEW q, QueueOK(q), NEW o, NEW a, NEW r, RunOK(r, q, o, a),
           NEW o2, o2 \subseteq o, NEW a2, a \subseteq a2, NEW t \in Tweet
    PROVE  RunOK(r, q, o2, a2) /\ RunOK(r, Without(q, t), o2, a2)
<1>1. /\ r \in Run /\ r.tweet \in Tweet /\ IdsOK(r.known, a2)
      /\ r.pc \in {"sent", "store"} => r.tweet \notin ToSet(r.known)
      /\ r.pc = "store" => r.tweet \in a2
      /\ r.pc \in {"readQuarantine", "quarantine", "store", "verify", "drop"} => r.tweet \notin o2
      /\ q[r.tweet] = None => Cardinality(Stored(q)) < MaxPending
      /\ q[r.tweet] # None => q[r.tweet].attempts < MaxAttempts
  BY IdsGrow DEF RunOK, Run
<1>2. RunOK(r, q, o2, a2)
  BY <1>1 DEF RunOK
<1> DEFINE s == Without(q, t)
<1>3. /\ s[t] = None /\ \A u \in Tweet : u # t => s[u] = q[u]
      /\ Cardinality(Stored(s)) <= Cardinality(Stored(q))
      /\ q[t] # None => Cardinality(Stored(s)) < MaxPending
  BY WithoutOK
<1>4. /\ Cardinality(Stored(s)) \in Nat /\ Cardinality(Stored(q)) \in Nat /\ MaxPending \in Nat
  BY StoredFinite, TiboOutboxAssumption
<1> HIDE DEF s
<1>5. /\ s[r.tweet] = None => Cardinality(Stored(s)) < MaxPending
      /\ s[r.tweet] # None => s[r.tweet].attempts < MaxAttempts
  <2>1. CASE r.tweet = t
    BY <1>1, <1>3, <1>4, <2>1
  <2>2. CASE r.tweet # t
    BY <1>1, <1>3, <1>4, <2>2
  <2> QED
    BY <2>1, <2>2
<1>6. RunOK(r, s, o2, a2)
  BY <1>1, <1>5 DEF RunOK
<1> QED
  BY <1>2, <1>6 DEF s

PCs == {"read", "sent", "fail", "readQuarantine", "quarantine", "store", "verify", "drop"}

\* A job at another step with the same tweet, whatever it has read.
LEMMA RunMoved ==
    ASSUME NEW q, NEW o, NEW a, NEW r, RunOK(r, q, o, a),
           NEW o2, NEW a2, NEW s \in Run, s.tweet = r.tweet, IdsOK(s.known, a2),
           s.pc \in {"sent", "store"} => s.tweet \notin ToSet(s.known),
           s.pc = "store" => s.tweet \in a2,
           s.pc \in {"readQuarantine", "quarantine", "store", "verify", "drop"}
              => s.tweet \notin o2
    PROVE  RunOK(s, q, o2, a2)
BY DEF RunOK

LEMMA WorkingOK ==
    ASSUME NEW t \in Tweet, NEW p \in Payload
    PROVE  Working(t, p) \in Run /\ Working(t, p).tweet = t /\ Working(t, p).known = <<>>
<1>1. <<>> \in Seq(Tweet) /\ NoQuarantine \in [Tweet -> Why] /\ "none" \in Why
  BY EmptySeq DEF NoQuarantine, Why
<1> QED
  BY <1>1 DEF Working, Run

LEMMA GotoOK ==
    ASSUME run.tweet \in Tweet, run.payload \in Payload, NEW pc \in PCs, Goto(pc)
    PROVE  run' \in Run /\ run'.pc = pc /\ run'.tweet = run.tweet /\ run'.known = <<>>
<1> DEFINE w == Working(run.tweet, run.payload)
<1>1. w \in Run /\ w.tweet = run.tweet /\ w.known = <<>>
  BY WorkingOK
<1>2. run' = [w EXCEPT !.pc = pc]
  BY DEF Goto
<1> HIDE DEF w
<1> QED
  BY <1>1, <1>2 DEF Run, PCs

LEMMA RefusedOK ==
    ASSUME run.tweet \in Tweet, run.payload \in Payload, NEW why \in Why,
           Answered_Refused(why)
    PROVE  /\ run' \in Run /\ run'.pc = "readQuarantine" /\ run'.tweet = run.tweet
           /\ run'.known = <<>>
<1> DEFINE w == Working(run.tweet, run.payload)
<1>1. w \in Run /\ w.tweet = run.tweet /\ w.known = <<>>
  BY WorkingOK
<1>2. run' = [w EXCEPT !.pc = "readQuarantine", !.why = why]
  BY DEF Answered_Refused
<1> HIDE DEF w
<1> QED
  BY <1>1, <1>2 DEF Run

\* A job begins with a tweet that is due.
LEMMA RunBegins ==
    ASSUME NEW q, QueueOK(q), NEW o, NEW a, NEW t \in Tweet, NEW p \in Payload, Due(q[t])
    PROVE  RunOK(Working(t, p), q, o, a)
<1>1. q[t] # None /\ q[t] \in Entry /\ ~q[t].exhausted
  BY DEF Due, QueueOK, Queue
<1>2. q[t].attempts < MaxAttempts
  <2>1. q[t].attempts \in 0..MaxAttempts /\ q[t].attempts # MaxAttempts
    BY <1>1 DEF QueueOK, Entry
  <2>2. MaxAttempts \in Nat
    BY TiboOutboxAssumption
  <2> QED
    BY <2>1, <2>2
<1>3. IdsOK(<<>>, a) /\ <<>> \in Seq(Tweet)
  BY NoIds DEF IdsOK
<1>4. Working(t, p) \in Run
  BY <1>3 DEF Working, Run, NoQuarantine, Why
<1>5. Working(t, p).pc = "read" /\ Working(t, p).tweet = t /\ Working(t, p).known = <<>>
  BY DEF Working
<1> QED
  BY <1>1, <1>2, <1>3, <1>4, <1>5 DEF RunOK

-----------------------------------------------------------------------------
(* One lemma for each step that changes what IInv speaks of. *)

LEMMA InitInv == Init => IInv
<1> SUFFICES ASSUME Init PROVE IInv
  OBVIOUS
<1>1. Stored(pending) = {}
  BY DEF Init, Stored
<1>2. Cardinality(Stored(pending)) = 0 /\ MaxPending \in Nat
  BY <1>1, FS_EmptySet, TiboOutboxAssumption
<1>3. QueueOK(pending)
  <2>1. pending \in Queue /\ \A t \in Tweet : pending[t] = None
    BY DEF Init, Queue
  <2> QED
    BY <1>2, <2>1 DEF QueueOK
<1>4. IdsOK(processed, accepted)
  BY NoIds DEF Init
<1>5. BoundsOK /\ HistoryOK
  <2>1. {MaxPosts, MaxExplicit, MaxFaults} \subseteq Nat
    BY TiboOutboxAssumption
  <2> QED
    BY <2>1, EmptySeq DEF Init, BoundsOK, HistoryOK, NoQuarantine, Why
<1>6. UsersOK(user, accepted)
  BY DEF Init, NoUser, UsersOK
<1> QED
  BY <1>3, <1>4, <1>5, <1>6 DEF IInv, Init, NothingForgotten

\* What joins the chain of jobs.
LEMMA JobsInv ==
    ASSUME IInv, Alarm \/ \E t \in Tweet, p \in Payload : PostTweet(t, p)
    PROVE  IInv'
<1>1. jobs' \in Seq(Job) /\ posts' \in 0..MaxPosts
  <2>1. CASE Alarm
    BY <2>1 DEF IInv, BoundsOK, Alarm, bounds, Job
  <2>2. CASE \E t \in Tweet, p \in Payload : PostTweet(t, p)
    <3> PICK t \in Tweet, p \in Payload : PostTweet(t, p)
      BY <2>2
    <3>1. jobs' \in Seq(Job)
      BY DEF IInv, BoundsOK, PostTweet, Job
    <3>2. MaxPosts \in Nat
      BY TiboOutboxAssumption
    <3> QED
      BY <3>1, <3>2 DEF IInv, BoundsOK, PostTweet
  <2> QED
    BY <2>1, <2>2
<1>2. UNCHANGED <<storage, run, user, explicit, faults, restarts, history>>
  BY DEF Alarm, PostTweet, bounds
<1> QED
  BY <1>1, <1>2 DEF IInv, BoundsOK, HistoryOK, NothingForgotten, Pending, storage, history

LEMMA TickInv ==
    ASSUME IInv, Tick
    PROVE  IInv'
<1> PICK t \in Tweet : /\ pending[t] # None
                       /\ pending' = [pending EXCEPT ![t].waiting = FALSE]
  BY DEF Tick, Pending
<1> DEFINE e == [pending[t] EXCEPT !.waiting = FALSE]
<1>1. pending[t] \in Entry
  BY DEF IInv, QueueOK, Queue
<1>2. e \in Entry /\ e.attempts = pending[t].attempts /\ e.exhausted = pending[t].exhausted
  BY <1>1 DEF Entry
<1>3. pending' = [pending EXCEPT ![t] = e]
  OBVIOUS
<1> HIDE DEF e
<1>4. /\ pending' \in Queue /\ pending'[t] = e /\ e # None
      /\ \A u \in Tweet : u # t => pending'[u] = pending[u]
  BY <1>2, <1>3, TiboOutboxAssumption DEF IInv, QueueOK, Queue
<1>5. Stored(pending') = Stored(pending)
  BY <1>4 DEF Stored
<1>6. QueueOK(pending')
  BY <1>2, <1>4, <1>5 DEF IInv, QueueOK
<1>7. run # None => RunOK(run, pending', owed, accepted)
  BY <1>2, <1>4, <1>5 DEF IInv, RunOK, Run
<1>8. NothingForgotten'
  BY <1>4 DEF IInv, NothingForgotten, Pending, Tick, history, HistoryOK
<1> QED
  BY <1>6, <1>7, <1>8 DEF IInv, Tick, memory, bounds, history, BoundsOK, HistoryOK

\* What persistPendingTweet leaves in the queue.
LEMMA PersistedOK ==
    ASSUME QueueOK(pending), NEW t \in Tweet, NEW p \in Payload
    PROVE  /\ QueueOK(Persisted(t, p))
           /\ \A u \in Tweet : pending[u] # None => Persisted(t, p)[u] # None
           /\ \A u \in Tweet : u # t => Persisted(t, p)[u] = pending[u]
           /\ Persisted(t, p) = pending \/ Persisted(t, p)[t] = Fresh(p)
<1>1. CASE Pending(t) /\ pending[t].payload = p
  BY <1>1 DEF Persisted
<1>2. CASE ~(Pending(t) /\ pending[t].payload = p)
  <2>1. Persisted(t, p) = Put(pending, t, Fresh(p))
    BY <1>2 DEF Persisted
  <2>2. Put(pending, t, Fresh(p)) = pending \/ Put(pending, t, Fresh(p))[t] = Fresh(p)
    BY FreshEntry, PutOK DEF Put
  <2> QED
    BY <2>1, <2>2, FreshEntry, PutOK
<1> QED
  BY <1>1, <1>2

LEMMA StartPostInv ==
    ASSUME IInv, StartPost
    PROVE  IInv'
<1> DEFINE t == Head(jobs).tweet
           p == Head(jobs).payload
<1>1. Head(jobs) \in Job /\ Tail(jobs) \in Seq(Job) /\ Head(jobs).kind = "post"
  BY HeadTailProperties DEF IInv, BoundsOK, StartPost
<1>2. t \in Tweet /\ p \in Payload
  BY <1>1 DEF Job
<1>3. /\ pending' = Persisted(t, p)
      /\ pending'[t] # None => /\ owed' = owed \cup {t}
                               /\ run' = IF Due(pending'[t]) THEN Working(t, p) ELSE None
      /\ pending'[t] = None => owed' = owed /\ run' = None
      /\ changes' = [changes EXCEPT ![t] = @ + Restarted(t, p)]
      /\ jobs' = Tail(jobs)
      /\ UNCHANGED <<processed, quarantine, user, bounds, accepted, sends>>
  BY DEF StartPost
<1> HIDE DEF t, p
<1>4. QueueOK(pending') /\ \A u \in Tweet : pending[u] # None => pending'[u] # None
  BY <1>2, <1>3, PersistedOK DEF IInv
<1>5. run' # None => RunOK(run', pending', owed', accepted')
  <2> SUFFICES ASSUME run' # None
               PROVE  RunOK(run', pending', owed', accepted')
    OBVIOUS
  <2>1. run' = Working(t, p) /\ Due(pending'[t])
    BY <1>3
  <2> QED
    BY <1>2, <1>4, <2>1, RunBegins
<1>6. NothingForgotten' /\ owed' \subseteq Tweet
  BY <1>2, <1>3, <1>4 DEF IInv, NothingForgotten, Pending, HistoryOK
<1>7. changes' \in [Tweet -> Nat]
  <2>1. Restarted(t, p) \in {0, 1}
    BY DEF Restarted
  <2>2. changes \in [Tweet -> Nat]
    BY DEF IInv, HistoryOK
  <2> QED
    BY <1>2, <1>3, <2>1, <2>2
<1> QED
  BY <1>1, <1>3, <1>4, <1>5, <1>6, <1>7 DEF IInv, bounds, BoundsOK, HistoryOK

LEMMA StartAlarmInv ==
    ASSUME IInv, StartAlarm
    PROVE  IInv'
<1>1. Tail(jobs) \in Seq(Job)
  BY HeadTailProperties DEF IInv, BoundsOK, StartAlarm
<1>2. run' # None => RunOK(run', pending, owed, accepted)
  <2> SUFFICES ASSUME run' # None
               PROVE  RunOK(run', pending, owed, accepted)
    OBVIOUS
  <2>1. PICK t \in Tweet : Due(pending[t]) /\ run' = Working(t, pending[t].payload)
    BY DEF StartAlarm
  <2>2. pending[t].payload \in Payload
    BY <2>1 DEF Due, IInv, QueueOK, Queue, Entry
  <2> QED
    BY <2>1, <2>2, RunBegins DEF IInv
<1> QED
  BY <1>1, <1>2
  DEF IInv, StartAlarm, storage, bounds, history, BoundsOK, HistoryOK, NothingForgotten, Pending

\* A step of the job that leaves the queue as it is.
LEMMA JobGoesOn ==
    ASSUME IInv, run # None,
           NEW s \in Run, run' = s, s.tweet = run.tweet, IdsOK(s.known, accepted'),
           s.pc \in {"sent", "store"} => s.tweet \notin ToSet(s.known),
           s.pc = "store" => s.tweet \in accepted',
           s.pc \in {"readQuarantine", "quarantine", "store", "verify", "drop"}
              => s.tweet \notin owed',
           owed' \subseteq owed, accepted \subseteq accepted', accepted' \subseteq Tweet,
           sends' \in [Tweet -> Nat], IdsOK(processed', accepted'),
           quarantine' \in [Tweet -> Why], faults' \in 0..MaxFaults,
           UNCHANGED <<pending, jobs, user, posts, explicit, restarts, changes>>
    PROVE  IInv'
<1>1. RunOK(s, pending, owed', accepted')
  BY RunMoved DEF IInv
<1>2. UsersOK(user, accepted')
  BY IdsGrow DEF IInv, UsersOK, UserOK
<1>3. s # None
  BY TiboOutboxAssumption
<1> QED
  BY <1>1, <1>2, <1>3 DEF IInv, BoundsOK, HistoryOK, NothingForgotten, Pending

LEMMA DispatchInv ==
    ASSUME IInv, Dispatch \/ NoSecret
    PROVE  IInv'
<1>1. run # None /\ RunOK(run, pending, owed, accepted) /\ run.tweet \in Tweet
      /\ run.payload \in Payload
  BY DEF Dispatch, NoSecret, At, IInv, RunOK, Run
<1>2. /\ UNCHANGED <<pending, processed, quarantine, jobs, user, posts, explicit,
                     faults, restarts, accepted, changes>>
      /\ faults \in 0..MaxFaults
      /\ IdsOK(processed, accepted) /\ IdsOK(<<>>, accepted)
      /\ quarantine \in [Tweet -> Why] /\ accepted \subseteq Tweet
      /\ owed \subseteq Tweet /\ sends \in [Tweet -> Nat]
  BY NoIds DEF Dispatch, NoSecret, storage, bounds, history, IInv, BoundsOK, HistoryOK
<1>3. CASE Goto("drop") /\ owed' = owed \ {run.tweet} /\ UNCHANGED sends
  <2>1. run' \in Run /\ run'.pc = "drop" /\ run'.tweet = run.tweet /\ run'.known = <<>>
    BY <1>1, <1>3, GotoOK DEF PCs
  <2> QED
    BY <1>1, <1>2, <1>3, <2>1, JobGoesOn
<1>4. CASE Goto("fail") /\ UNCHANGED <<owed, sends>>
  <2>1. run' \in Run /\ run'.pc = "fail" /\ run'.tweet = run.tweet /\ run'.known = <<>>
    BY <1>1, <1>4, GotoOK DEF PCs
  <2> QED
    BY <1>1, <1>2, <1>4, <2>1, JobGoesOn
<1>5. CASE /\ run.tweet \notin ToSet(processed)
           /\ run' = [run EXCEPT !.pc = "sent", !.known = processed]
           /\ sends' = [sends EXCEPT ![run.tweet] = @ + 1]
           /\ UNCHANGED owed
  <2>1. /\ run' \in Run /\ run'.pc = "sent" /\ run'.tweet = run.tweet
        /\ run'.known = processed
    BY <1>1, <1>2, <1>5 DEF RunOK, Run, IdsOK
  <2>2. sends' \in [Tweet -> Nat]
    BY <1>1, <1>2, <1>5
  <2> QED
    BY <1>1, <1>2, <1>5, <2>1, <2>2, JobGoesOn
<1> QED
  BY <1>3, <1>4, <1>5 DEF Dispatch, NoSecret, storage, history

LEMMA AnswerInv ==
    ASSUME IInv, Answer
    PROVE  IInv'
<1>1. /\ run # None /\ RunOK(run, pending, owed, accepted) /\ run.pc = "sent"
      /\ run \in Run /\ run.tweet \in Tweet /\ run.payload \in Payload
      /\ run.tweet \notin ToSet(run.known) /\ IdsOK(run.known, accepted)
  BY DEF Answer, Answered_Again, Answered_Accepted, Answered_Refused, At, IInv, RunOK, Run
<1>2. /\ UNCHANGED <<pending, processed, quarantine, jobs, user, posts, explicit,
                     faults, restarts, sends, changes>>
      /\ faults \in 0..MaxFaults
      /\ IdsOK(processed, accepted)
      /\ quarantine \in [Tweet -> Why] /\ accepted \subseteq Tweet
      /\ owed \subseteq Tweet /\ sends \in [Tweet -> Nat]
  BY DEF Answer, Answered_Again, Answered_Accepted, Answered_Refused, storage, bounds,
         history, IInv, BoundsOK, HistoryOK
<1>3. CASE /\ Goto("fail") /\ owed' = owed
           /\ accepted' \in {accepted, accepted \cup {run.tweet}}
  <2>1. run' \in Run /\ run'.pc = "fail" /\ run'.tweet = run.tweet /\ run'.known = <<>>
    BY <1>1, <1>3, GotoOK DEF PCs
  <2>2. accepted \subseteq accepted' /\ accepted' \subseteq Tweet
    BY <1>1, <1>2, <1>3
  <2>3. IdsOK(processed', accepted') /\ IdsOK(<<>>, accepted')
    BY <1>2, <2>2, NoIds, IdsGrow
  <2> QED
    BY <1>1, <1>2, <1>3, <2>1, <2>2, <2>3, JobGoesOn
<1>4. CASE /\ run' = [run EXCEPT !.pc = "store"] /\ owed' = owed \ {run.tweet}
           /\ accepted' = accepted \cup {run.tweet}
  <2>1. /\ run' \in Run /\ run'.pc = "store" /\ run'.tweet = run.tweet
        /\ run'.known = run.known
    BY <1>1, <1>4 DEF Run
  <2>2. accepted \subseteq accepted' /\ accepted' \subseteq Tweet
    BY <1>1, <1>2, <1>4
  <2>3. IdsOK(processed', accepted') /\ IdsOK(run.known, accepted')
    BY <1>1, <1>2, <2>2, IdsGrow
  <2> QED
    <3>1. run.tweet \in accepted' /\ run.tweet \notin owed' /\ owed' \subseteq owed
      BY <1>1, <1>4
    <3> QED
      BY <1>1, <1>2, <2>1, <2>2, <2>3, <3>1, JobGoesOn
<1>5. ASSUME NEW why \in Why, Answered_Refused(why)
      PROVE  IInv'
  <2>1. /\ run' = [Working(run.tweet, run.payload) EXCEPT !.pc = "readQuarantine", !.why = why]
        /\ owed' = owed \ {run.tweet} /\ accepted' = accepted
    BY <1>5 DEF Answered_Refused
  <2>2. /\ run' \in Run /\ run'.pc = "readQuarantine" /\ run'.tweet = run.tweet
        /\ run'.known = <<>>
    BY <1>1, <1>5, RefusedOK
  <2> QED
    <3>1. run.tweet \notin owed' /\ owed' \subseteq owed /\ IdsOK(<<>>, accepted')
      BY <2>1, NoIds
    <3> QED
      BY <1>1, <1>2, <2>1, <2>2, <3>1, JobGoesOn
<1> QED
  BY <1>3, <1>4, <1>5 DEF Answer, Answered_Again, Answered_Accepted, history

LEMMA QuarantineInv ==
    ASSUME IInv, QuarantineRead \/ QuarantineWrite
    PROVE  IInv'
<1>1. /\ run # None /\ run \in Run /\ run.tweet \in Tweet /\ run.payload \in Payload
      /\ run.held \in [Tweet -> Why] /\ run.why \in Why
      /\ run.tweet \notin owed /\ IdsOK(run.known, accepted)
  BY DEF QuarantineRead, QuarantineWrite, At, IInv, RunOK, Run
<1>2. /\ UNCHANGED <<pending, processed, jobs, user, posts, explicit, faults, restarts,
                     owed, accepted, sends, changes>>
      /\ faults \in 0..MaxFaults
      /\ IdsOK(processed, accepted) /\ IdsOK(<<>>, accepted)
      /\ quarantine \in [Tweet -> Why] /\ accepted \subseteq Tweet
      /\ sends \in [Tweet -> Nat]
  BY NoIds
  DEF QuarantineRead, QuarantineWrite, storage, bounds, history, IInv, BoundsOK, HistoryOK
<1>3. CASE QuarantineRead
  <2>1. /\ run' \in Run /\ run'.pc = "quarantine" /\ run'.tweet = run.tweet
        /\ run'.known = run.known /\ quarantine' = quarantine
    BY <1>1, <1>2, <1>3 DEF QuarantineRead, Run, storage
  <2> QED
    BY <1>1, <1>2, <2>1, JobGoesOn
<1>4. CASE QuarantineWrite
  <2>1. run' \in Run /\ run'.pc = "drop" /\ run'.tweet = run.tweet /\ run'.known = <<>>
    BY <1>1, <1>4, GotoOK DEF QuarantineWrite, PCs
  <2>2. quarantine' \in [Tweet -> Why]
    BY <1>1, <1>4 DEF QuarantineWrite
  <2> QED
    BY <1>1, <1>2, <2>1, <2>2, JobGoesOn
<1> QED
  BY <1>3, <1>4

LEMMA StoreInv ==
    ASSUME IInv, Store \/ Verify
    PROVE  IInv'
<1>1. /\ run # None /\ run.tweet \in Tweet /\ run.payload \in Payload
      /\ run.tweet \notin owed /\ IdsOK(run.known, accepted)
      /\ run.pc = "store" => run.tweet \in accepted /\ run.tweet \notin ToSet(run.known)
  BY DEF Store, Verify, At, IInv, RunOK, Run
<1>2. /\ UNCHANGED <<pending, quarantine, jobs, user, posts, explicit, faults, restarts,
                     owed, accepted, sends, changes>>
      /\ faults \in 0..MaxFaults
      /\ IdsOK(processed, accepted) /\ IdsOK(<<>>, accepted)
      /\ quarantine \in [Tweet -> Why] /\ accepted \subseteq Tweet
      /\ sends \in [Tweet -> Nat]
  BY NoIds DEF Store, Verify, storage, bounds, history, IInv, BoundsOK, HistoryOK
<1>3. CASE Store
  <2>1. run' \in Run /\ run'.pc = "verify" /\ run'.tweet = run.tweet /\ run'.known = <<>>
    BY <1>1, <1>3, GotoOK DEF Store, PCs
  <2>2. IdsOK(processed', accepted)
    BY <1>1, <1>3, IdsStored DEF Store, At
  <2> QED
    BY <1>1, <1>2, <2>1, <2>2, JobGoesOn
<1>4. CASE Verify
  <2>1. /\ run' \in Run /\ run'.pc \in {"drop", "fail"} /\ run'.tweet = run.tweet
        /\ run'.known = <<>>
    <3> PICK pc \in {"drop", "fail"} : Goto(pc)
      BY <1>4 DEF Verify
    <3> QED
      BY <1>1, GotoOK DEF PCs
  <2>2. processed' = processed
    BY <1>4 DEF Verify, storage
  <2> QED
    BY <1>1, <1>2, <2>1, <2>2, JobGoesOn
<1> QED
  BY <1>3, <1>4

\* One fault more, within the bound.
LEMMA FaultOK ==
    ASSUME BoundsOK, Fault
    PROVE  faults' \in 0..MaxFaults /\ faults' = faults + 1 /\ faults \in Nat
<1>1. MaxFaults \in Nat
  BY TiboOutboxAssumption
<1> QED
  BY <1>1 DEF BoundsOK, Fault

LEMMA ThrowInv ==
    ASSUME IInv, Throw
    PROVE  IInv'
<1>1. /\ run # None /\ run.tweet \in Tweet /\ run.payload \in Payload
      /\ run' = None \/ Goto("fail")
      /\ UNCHANGED <<pending, processed, quarantine, jobs, user, posts, explicit, restarts,
                     owed, accepted, sends, changes>>
  BY DEF Throw, IInv, RunOK, Run, storage, history
<1>2. faults' \in 0..MaxFaults
  BY FaultOK DEF Throw, IInv
<1>3. CASE run' = None
  BY <1>1, <1>2, <1>3 DEF IInv, BoundsOK, HistoryOK, NothingForgotten, Pending
<1>4. CASE Goto("fail")
  <2>1. run' \in Run /\ run'.pc = "fail" /\ run'.tweet = run.tweet /\ run'.known = <<>>
    BY <1>1, <1>4, GotoOK DEF PCs
  <2>2. /\ IdsOK(processed, accepted) /\ IdsOK(<<>>, accepted)
        /\ quarantine \in [Tweet -> Why] /\ accepted \subseteq Tweet
        /\ sends \in [Tweet -> Nat]
    BY NoIds DEF IInv, BoundsOK, HistoryOK
  <2> QED
    BY <1>1, <1>2, <2>1, <2>2, JobGoesOn
<1> QED
  BY <1>1, <1>3, <1>4

\* A post that cannot be stored leaves the queue of jobs.
LEMMA StorePostFailsInv ==
    ASSUME IInv, StorePostFails
    PROVE  IInv'
<1>1. Tail(jobs) \in Seq(Job)
  BY HeadTailProperties DEF IInv, BoundsOK, StorePostFails
<1>2. faults' \in 0..MaxFaults
  BY FaultOK DEF StorePostFails, IInv
<1> QED
  BY <1>1, <1>2
  DEF IInv, StorePostFails, storage, history, BoundsOK, HistoryOK, NothingForgotten, Pending

\* The entry that a failure is counted on has an attempt left.
LEMMA CurrentOK ==
    ASSUME QueueOK(pending), NEW t \in Tweet, NEW p \in Payload,
           pending[t] # None => pending[t].attempts < MaxAttempts
    PROVE  /\ Current(t, p) \in Entry /\ Current(t, p).attempts < MaxAttempts
           /\ Current(t, p).attempts = Attempts(pending, t)
<1>1. CASE pending[t] # None
  <2>1. pending[t] \in Entry
    BY <1>1 DEF QueueOK, Queue
  <2> QED
    BY <1>1, <2>1 DEF Current, Pending, Attempts, Entry
<1>2. CASE pending[t] = None
  <2>1. MaxAttempts \in Nat \ {0}
    BY TiboOutboxAssumption
  <2> QED
    BY <1>2, <2>1, FreshEntry DEF Current, Pending, Attempts
<1> QED
  BY <1>1, <1>2

LEMMA RecordedOK ==
    ASSUME IInv, RecordFailure
    PROVE  /\ run # None /\ run.tweet \in Tweet /\ run.pc = "fail" /\ run' = None
           /\ QueueOK(pending')
           /\ \A u \in Tweet : pending[u] # None => pending'[u] # None
           /\ \A u \in Tweet : u # run.tweet => pending'[u] = pending[u]
           /\ pending'[run.tweet] # None
           /\ pending'[run.tweet].attempts = Attempts(pending, run.tweet) + 1
           /\ UNCHANGED <<processed, quarantine, jobs, user, bounds, history>>
<1> DEFINE t == run.tweet
           p == run.payload
<1>1. /\ run # None /\ run.pc = "fail" /\ t \in Tweet /\ p \in Payload /\ run' = None
      /\ pending' = Put(pending, t, Failed(Current(t, p)))
      /\ QueueOK(pending)
      /\ pending[t] = None => Cardinality(Stored(pending)) < MaxPending
      /\ pending[t] # None => pending[t].attempts < MaxAttempts
      /\ UNCHANGED <<processed, quarantine, jobs, user, bounds, history>>
  BY DEF RecordFailure, FailureRecorded, At, IInv, RunOK, Run
<1> HIDE DEF t, p
<1> DEFINE e == Failed(Current(t, p))
<1>2. /\ e \in Entry /\ e.attempts = Attempts(pending, t) + 1
      /\ e.exhausted = (e.attempts = MaxAttempts)
  BY <1>1, CurrentOK, FailedEntry
<1>3. e # None
  BY <1>2, TiboOutboxAssumption
<1> HIDE DEF e
<1>4. pending' = Put(pending, t, e)
  BY <1>1 DEF e
<1>5. /\ QueueOK(pending')
      /\ \A u \in Tweet : pending[u] # None => pending'[u] # None
      /\ \A u \in Tweet : u # t => pending'[u] = pending[u]
      /\ pending'[t] = e
  BY <1>1, <1>2, <1>4, PutOK
<1> QED
  BY <1>1, <1>2, <1>3, <1>5 DEF t

LEMMA RecordFailureInv ==
    ASSUME IInv, RecordFailure
    PROVE  IInv'
BY RecordedOK DEF IInv, history, bounds, BoundsOK, HistoryOK, NothingForgotten, Pending

LEMMA DropInv ==
    ASSUME IInv, Drop
    PROVE  IInv'
<1>1. /\ run.tweet \in Tweet /\ run.tweet \notin owed /\ QueueOK(pending)
      /\ pending' = Without(pending, run.tweet)
      /\ sends' = [sends EXCEPT ![run.tweet] = 0]
      /\ changes' = [changes EXCEPT ![run.tweet] = 0]
      /\ run' = None
      /\ UNCHANGED <<processed, quarantine, jobs, user, bounds, owed, accepted>>
  BY DEF Drop, At, IInv, RunOK, Run
<1>2. QueueOK(pending') /\ \A u \in Tweet : u # run.tweet => pending'[u] = pending[u]
  BY <1>1, WithoutOK
<1>3. sends' \in [Tweet -> Nat] /\ changes' \in [Tweet -> Nat]
  BY <1>1 DEF IInv, HistoryOK
<1> QED
  BY <1>1, <1>2, <1>3 DEF IInv, bounds, BoundsOK, HistoryOK, NothingForgotten, Pending

\* An operation that starts, goes on or ends.
LEMMA UsersKept ==
    ASSUME UsersOK(user, accepted), NEW n \in 1..MaxExplicit, NEW u,
           u = None \/ UserOK(u, accepted), user' = [user EXCEPT ![n] = u]
    PROVE  UsersOK(user', accepted)
BY DEF UsersOK, UserOK

LEMMA AskedInv ==
    ASSUME IInv, ClearRead \/ \E t \in Tweet : RetryRead(t)
    PROVE  IInv'
<1> PICK u : Ask(u) /\ \/ u = Asked("clear", "write", None, <<>>, quarantine)
                       \/ \E t \in Tweet : u = Asked("retry", "write", t, processed, quarantine)
  BY DEF ClearRead, RetryRead
<1>1. /\ UNCHANGED <<pending, processed, quarantine, jobs, run, posts, faults, restarts,
                     owed, accepted, sends, changes>>
      /\ explicit' = explicit + 1 /\ explicit < MaxExplicit
  BY DEF ClearRead, RetryRead, Ask, storage, history
<1>2. explicit' \in 0..MaxExplicit /\ explicit + 1 \in 1..MaxExplicit
  <2>1. MaxExplicit \in Nat
    BY TiboOutboxAssumption
  <2> QED
    BY <1>1, <2>1 DEF IInv, BoundsOK
<1>3. UserOK(u, accepted)
  <2>1. /\ IdsOK(processed, accepted) /\ IdsOK(<<>>, accepted)
        /\ quarantine \in [Tweet -> Why]
    BY NoIds DEF IInv, BoundsOK
  <2>2. CASE u = Asked("clear", "write", None, <<>>, quarantine)
    BY <2>1, <2>2 DEF Asked, UserOK, User, IdsOK
  <2>3. ASSUME NEW t \in Tweet, u = Asked("retry", "write", t, processed, quarantine)
        PROVE  UserOK(u, accepted)
    BY <2>1, <2>3 DEF Asked, UserOK, User, IdsOK
  <2> QED
    BY <2>2, <2>3
<1>4. UsersOK(user', accepted)
  BY <1>2, <1>3, UsersKept DEF Ask, IInv
<1> QED
  BY <1>1, <1>2, <1>4 DEF IInv, BoundsOK, HistoryOK, NothingForgotten, Pending

LEMMA RetryWriteInv ==
    ASSUME IInv, NEW n \in 1..MaxExplicit, RetryWrite(n)
    PROVE  IInv'
<1> DEFINE u == user[n]
           v == Asked("retry", "drop", u.tweet, <<>>, NoQuarantine)
<1>1. /\ UserOK(u, accepted) /\ u.tweet \in Tweet /\ u.held \in [Tweet -> Why]
      /\ IdsOK(u.known, accepted)
  BY DEF RetryWrite, Asking, IInv, UsersOK, UserOK, User
<1>2. /\ UNCHANGED <<pending, jobs, run, bounds, owed, accepted, sends, changes>>
      /\ user' = [user EXCEPT ![n] = v]
      /\ processed' = processed \/ /\ u.tweet \in ToSet(u.known)
                                   /\ processed' = Removed(u.known, u.tweet)
      /\ quarantine' = quarantine \/ quarantine' = [u.held EXCEPT ![u.tweet] = "none"]
  BY DEF RetryWrite, history
<1>3. UserOK(v, accepted)
  <2>1. IdsOK(<<>>, accepted) /\ <<>> \in Seq(Tweet)
    BY NoIds DEF IdsOK
  <2> QED
    BY <1>1, <2>1 DEF Asked, UserOK, User, NoQuarantine, Why
<1> HIDE DEF u, v
<1>4. IdsOK(processed', accepted)
  BY <1>1, <1>2, IdsRemoved DEF IInv
<1>5. quarantine' \in [Tweet -> Why]
  <2>1. "none" \in Why /\ quarantine \in [Tweet -> Why]
    BY DEF Why, IInv, BoundsOK
  <2> QED
    BY <1>1, <1>2, <2>1
<1>6. UsersOK(user', accepted)
  BY <1>2, <1>3, UsersKept DEF IInv
<1> QED
  BY <1>2, <1>4, <1>5, <1>6 DEF IInv, bounds, BoundsOK, HistoryOK, NothingForgotten, Pending

LEMMA RetryDropInv ==
    ASSUME IInv, NEW n \in 1..MaxExplicit, RetryDrop(n)
    PROVE  IInv'
<1> DEFINE t == user[n].tweet
<1>1. /\ t \in Tweet /\ QueueOK(pending)
      /\ pending' = Without(pending, t)
      /\ owed' = owed \ {t}
      /\ sends' = [sends EXCEPT ![t] = 0] /\ changes' = [changes EXCEPT ![t] = 0]
      /\ user' = [user EXCEPT ![n] = None]
      /\ UNCHANGED <<processed, quarantine, jobs, run, bounds, accepted>>
  BY DEF RetryDrop, Asking, IInv, UsersOK, UserOK
<1> HIDE DEF t
<1>2. QueueOK(pending') /\ \A u \in Tweet : u # t => pending'[u] = pending[u]
  BY <1>1, WithoutOK
<1>3. run # None => RunOK(run, pending', owed', accepted)
  BY <1>1, RunKept DEF IInv
<1>4. sends' \in [Tweet -> Nat] /\ changes' \in [Tweet -> Nat]
  BY <1>1 DEF IInv, HistoryOK
<1>5. UsersOK(user', accepted)
  BY <1>1, UsersKept DEF IInv
<1> QED
  BY <1>1, <1>2, <1>3, <1>4, <1>5
  DEF IInv, bounds, BoundsOK, HistoryOK, NothingForgotten, Pending

LEMMA ClearWriteInv ==
    ASSUME IInv, NEW n \in 1..MaxExplicit, ClearWrite(n)
    PROVE  IInv'
<1> DEFINE held == user[n].held
<1>1. held \in [Tweet -> Why] /\ quarantine \in [Tweet -> Why] /\ "none" \in Why
  BY DEF ClearWrite, Asking, IInv, UsersOK, UserOK, User, BoundsOK, Why
<1>2. quarantine' \in [Tweet -> Why]
  <2>1. [t \in Tweet |-> IF held[t] = "auth_blocked" THEN "none" ELSE held[t]]
          \in [Tweet -> Why]
    BY <1>1
  <2> QED
    BY <1>1, <2>1 DEF ClearWrite
<1>3. UsersOK(user', accepted)
  BY UsersKept DEF ClearWrite, IInv
<1> QED
  BY <1>2, <1>3
  DEF IInv, ClearWrite, bounds, history, BoundsOK, HistoryOK, NothingForgotten, Pending

LEMMA AskFailsInv ==
    ASSUME IInv, NEW n \in 1..MaxExplicit, AskFails(n)
    PROVE  IInv'
<1>1. faults' \in 0..MaxFaults
  BY FaultOK DEF AskFails, IInv
<1>2. UsersOK(user', accepted)
  BY UsersKept DEF AskFails, IInv
<1> QED
  BY <1>1, <1>2
  DEF IInv, AskFails, storage, history, BoundsOK, HistoryOK, NothingForgotten, Pending

LEMMA RestartInv ==
    ASSUME IInv, Restart
    PROVE  IInv'
<1>1. restarts' \in 0..MaxFaults
  <2>1. MaxFaults \in Nat
    BY TiboOutboxAssumption
  <2> QED
    BY <2>1 DEF IInv, BoundsOK, Restart
<1>2. jobs' \in Seq(Job) /\ UsersOK(user', accepted)
  BY EmptySeq DEF Restart, UsersOK, NoUser
<1> QED
  BY <1>1, <1>2
  DEF IInv, Restart, storage, history, BoundsOK, HistoryOK, NothingForgotten, Pending

LEMMA StepInv == IInv /\ [Next]_vars => IInv'
<1> SUFFICES ASSUME IInv, [Next]_vars PROVE IInv'
  OBVIOUS
<1>1. CASE UNCHANGED vars
  BY <1>1 DEF vars, IInv, BoundsOK, HistoryOK, NothingForgotten, Pending
<1>2. CASE Worker
  BY <1>2, StartPostInv, StorePostFailsInv, StartAlarmInv, DispatchInv, ThrowInv, AnswerInv,
     RecordFailureInv, QuarantineInv, StoreInv, DropInv DEF Worker
<1>3. CASE Explicit
  BY <1>3, AskedInv, RetryWriteInv, RetryDropInv, ClearWriteInv, AskFailsInv DEF Explicit
<1> QED
  BY <1>1, <1>2, <1>3, JobsInv, TickInv, RestartInv DEF Next

LEMMA Invariant == Spec => []IInv
<1> QED
  BY InitInv, StepInv, PTL DEF Spec

-----------------------------------------------------------------------------
(* The count of requests.                                                  *)

LEMMA CountTypes ==
    ASSUME IInv, NEW t \in Tweet
    PROVE  /\ Attempts(pending, t) \in Nat /\ Attempts(pending, t) <= MaxAttempts
           /\ InFlight(run, t) \in {0, 1} /\ sends[t] \in Nat
           /\ faults \in Nat /\ restarts \in Nat /\ changes[t] \in Nat /\ Replaced(t) \in Nat
           /\ InFlight(run, t) = 1 => Attempts(pending, t) < MaxAttempts
<1>1. MaxAttempts \in Nat \ {0}
  BY TiboOutboxAssumption
<1>2. pending[t] # None => pending[t].attempts \in 0..MaxAttempts
  BY DEF IInv, QueueOK, Queue, Entry
<1>3. /\ sends[t] \in Nat /\ faults \in Nat /\ restarts \in Nat /\ changes[t] \in Nat
      /\ InFlight(run, t) \in {0, 1}
  BY DEF IInv, HistoryOK, BoundsOK, InFlight
<1>4. InFlight(run, t) = 1 /\ pending[t] # None => pending[t].attempts < MaxAttempts
  BY DEF IInv, RunOK, InFlight
<1>5. Replaced(t) \in Nat
  <2>1. \A m, c \in Nat : m * c \in Nat
    OBVIOUS
  <2> QED
    BY <1>1, <1>3, <2>1 DEF Replaced
<1> QED
  BY <1>1, <1>2, <1>3, <1>4, <1>5 DEF Attempts

LEMMA FaultsTyped == IInv => faults \in Nat /\ restarts \in Nat
BY DEF IInv, BoundsOK

\* A step that counts what it sends, and takes back no attempt.
LEMMA CountKept ==
    ASSUME IInv, IInv', Counted,
           \A t \in Tweet :
              \/ sends'[t] = 0
              \/ /\ sends'[t] = sends[t] /\ changes'[t] = changes[t]
                 /\ restarts' = restarts /\ faults' >= faults
                 /\ Attempts(pending', t) = Attempts(pending, t)
                 /\ InFlight(run', t) >= InFlight(run, t)
    PROVE  Counted'
<1> SUFFICES ASSUME NEW t \in Tweet
             PROVE  sends'[t] <= Replaced(t)' + faults' + restarts'
                                 + Attempts(pending', t) + InFlight(run', t)
  BY DEF Counted
<1>1. /\ Attempts(pending, t) \in Nat /\ InFlight(run, t) \in {0, 1}
      /\ sends[t] \in Nat /\ restarts \in Nat /\ faults \in Nat /\ Replaced(t) \in Nat
  BY CountTypes
<1>2. /\ Attempts(pending', t) \in Nat /\ InFlight(run', t) \in {0, 1}
      /\ restarts' \in Nat /\ faults' \in Nat /\ Replaced(t)' \in Nat
  <2>1. /\ restarts' \in Nat /\ faults' \in Nat /\ InFlight(run', t) \in {0, 1}
        /\ changes'[t] \in Nat
    BY DEF IInv, BoundsOK, HistoryOK, InFlight
  <2>2. pending'[t] # None => pending'[t].attempts \in 0..MaxAttempts
    BY DEF IInv, QueueOK, Queue, Entry
  <2>3. MaxAttempts \in Nat
    BY TiboOutboxAssumption
  <2>4. \A m, c \in Nat : m * c \in Nat
    OBVIOUS
  <2> QED
    BY <2>1, <2>2, <2>3, <2>4 DEF Attempts, Replaced
<1>3. sends[t] <= Replaced(t) + faults + restarts + Attempts(pending, t) + InFlight(run, t)
  BY DEF Counted
<1>4. CASE sends'[t] = 0
  BY <1>2, <1>4
<1>5. CASE /\ sends'[t] = sends[t] /\ changes'[t] = changes[t]
           /\ restarts' = restarts /\ faults' >= faults
           /\ Attempts(pending', t) = Attempts(pending, t)
           /\ InFlight(run', t) >= InFlight(run, t)
  <2>1. Replaced(t)' = Replaced(t)
    BY <1>5 DEF Replaced
  <2> QED
    BY <1>1, <1>2, <1>3, <1>5, <2>1
<1> QED
  BY <1>4, <1>5

\* Nothing is in flight when a job starts.  A post with another payload puts
\* the attempts that were counted among those replaced.
LEMMA StartCounted ==
    ASSUME IInv, IInv', Counted, StartPost \/ StartAlarm \/ StorePostFails
    PROVE  Counted'
<1>1. /\ run = None /\ UNCHANGED <<sends, restarts>>
      /\ faults' = faults \/ faults' = faults + 1
  BY DEF StartPost, StartAlarm, StorePostFails, Fault, bounds, history
<1>2. \A t \in Tweet : InFlight(run, t) = 0 /\ InFlight(run', t) \in {0, 1}
  BY <1>1 DEF InFlight
<1>3. faults' >= faults /\ faults' \in Nat
  BY <1>1, FaultsTyped
<1>4. \A t \in Tweet : InFlight(run', t) >= InFlight(run, t)
  BY <1>2
<1>5. CASE StartAlarm \/ StorePostFails
  BY <1>1, <1>3, <1>4, <1>5, CountKept DEF StartAlarm, StorePostFails, storage, history
<1>6. CASE StartPost
  <2> DEFINE t == Head(jobs).tweet
             p == Head(jobs).payload
  <2>1. /\ Head(jobs) \in Job /\ Head(jobs).kind = "post" /\ pending' = Persisted(t, p)
        /\ changes' = [changes EXCEPT ![t] = @ + Restarted(t, p)]
    BY <1>6, HeadTailProperties DEF IInv, BoundsOK, StartPost
  <2>2. t \in Tweet /\ p \in Payload /\ QueueOK(pending) /\ changes \in [Tweet -> Nat]
    BY <2>1 DEF Job, IInv, HistoryOK
  <2> HIDE DEF t, p
  <2>3. \A u \in Tweet : u # t => pending'[u] = pending[u] /\ changes'[u] = changes[u]
    BY <2>1, <2>2, PersistedOK
  <2>4. changes'[t] = changes[t] + Restarted(t, p)
    BY <2>1, <2>2
  <2>5. CASE ~(Pending(t) /\ pending[t].payload # p)
    <3>1. changes'[t] = changes[t]
      BY <2>2, <2>4, <2>5 DEF Restarted
    <3>2. Attempts(pending', t) = Attempts(pending, t)
      <4>1. CASE Pending(t)
        BY <2>1, <2>5, <4>1 DEF Persisted
      <4>2. CASE ~Pending(t)
        <5>1. pending' = pending \/ pending'[t] = Fresh(p)
          BY <2>1, <2>2, PersistedOK
        <5>2. pending' = pending \/ Attempts(pending', t) = 0
          BY <2>2, <5>1, FreshEntry DEF Attempts
        <5> QED
          BY <4>2, <5>2 DEF Attempts, Pending
      <4> QED
        BY <4>1, <4>2
    <3>3. \A u \in Tweet : /\ Attempts(pending', u) = Attempts(pending, u)
                           /\ changes'[u] = changes[u]
      BY <2>3, <3>1, <3>2 DEF Attempts
    <3> QED
      BY <1>1, <1>3, <1>4, <3>3, CountKept
  <2>6. CASE Pending(t) /\ pending[t].payload # p
    <3> SUFFICES ASSUME NEW u \in Tweet
                 PROVE  sends'[u] <= Replaced(u)' + faults' + restarts'
                                     + Attempts(pending', u) + InFlight(run', u)
      BY DEF Counted
    <3>1. /\ Attempts(pending, u) \in Nat /\ Attempts(pending, u) <= MaxAttempts
          /\ sends[u] \in Nat /\ restarts \in Nat /\ faults \in Nat
          /\ changes[u] \in Nat /\ Replaced(u) \in Nat
          /\ sends[u] <= Replaced(u) + faults + restarts + Attempts(pending, u)
                         + InFlight(run, u)
      BY CountTypes DEF Counted
    <3>2. InFlight(run, u) = 0 /\ InFlight(run', u) \in {0, 1}
      BY <1>2
    <3>3. CASE u = t
      <4>1. changes'[u] = changes[u] + 1
        BY <2>4, <2>6, <3>3 DEF Restarted
      <4>2. Replaced(u)' = Replaced(u) + MaxAttempts
        <5>1. \A m, c \in Nat : m * (c + 1) = m * c + m
          OBVIOUS
        <5>2. MaxAttempts \in Nat
          BY TiboOutboxAssumption
        <5> QED
          BY <3>1, <4>1, <5>1, <5>2 DEF Replaced
      <4>3. Attempts(pending', u) \in Nat
        <5>1. pending'[u] # None => pending'[u].attempts \in 0..MaxAttempts
          BY DEF IInv, QueueOK, Queue, Entry
        <5>2. MaxAttempts \in Nat
          BY TiboOutboxAssumption
        <5> QED
          BY <5>1, <5>2 DEF Attempts
      <4>4. MaxAttempts \in Nat
        BY TiboOutboxAssumption
      <4> QED
        BY <1>1, <1>3, <3>1, <3>2, <4>2, <4>3, <4>4
    <3>4. CASE u # t
      <4>1. Attempts(pending', u) = Attempts(pending, u) /\ Replaced(u)' = Replaced(u)
        BY <2>3, <3>4 DEF Attempts, Replaced
      <4> QED
        BY <1>1, <1>3, <3>1, <3>2, <4>1
    <3> QED
      BY <3>3, <3>4
  <2> QED
    BY <2>5, <2>6
<1> QED
  BY <1>5, <1>6

LEMMA DispatchCounted ==
    ASSUME IInv, IInv', Counted, Dispatch \/ NoSecret
    PROVE  Counted'
<1>1. /\ run # None /\ run.pc = "read" /\ run.tweet \in Tweet /\ run.payload \in Payload
      /\ run \in Run /\ UNCHANGED <<pending, faults, restarts, changes>>
      /\ IdsOK(processed, accepted)
  BY DEF Dispatch, NoSecret, At, IInv, RunOK, Run, storage, bounds, history
<1>2. CASE UNCHANGED sends
  <2>1. \A t \in Tweet : InFlight(run, t) = 0 /\ InFlight(run', t) \in {0, 1}
    BY <1>1 DEF InFlight
  <2>2. \A t \in Tweet : InFlight(run', t) >= InFlight(run, t)
    BY <2>1
  <2> QED
    BY <1>1, <1>2, <2>2, FaultsTyped, CountKept
<1>3. CASE /\ run' = [run EXCEPT !.pc = "sent", !.known = processed]
           /\ sends' = [sends EXCEPT ![run.tweet] = @ + 1]
  <2>1. run' \in Run /\ run'.pc = "sent" /\ run'.tweet = run.tweet
    BY <1>1, <1>3 DEF Run, IdsOK
  <2>2. run' # None
    BY <2>1, TiboOutboxAssumption
  <2> SUFFICES ASSUME NEW t \in Tweet
               PROVE  sends'[t] <= Replaced(t)' + faults' + restarts'
                                   + Attempts(pending', t) + InFlight(run', t)
    BY DEF Counted
  <2>3. /\ Attempts(pending, t) \in Nat /\ sends[t] \in Nat /\ restarts \in Nat
        /\ faults \in Nat /\ Replaced(t) \in Nat
        /\ sends[t] <= Replaced(t) + faults + restarts + Attempts(pending, t)
                       + InFlight(run, t)
        /\ InFlight(run, t) = 0
    BY <1>1, CountTypes DEF Counted, InFlight
  <2>4. /\ restarts' = restarts /\ faults' = faults /\ Replaced(t)' = Replaced(t)
        /\ Attempts(pending', t) = Attempts(pending, t)
    BY <1>1 DEF Replaced
  <2>5. CASE t = run.tweet
    <3>1. sends'[t] = sends[t] + 1
      BY <1>3, <2>5 DEF IInv, HistoryOK
    <3>2. InFlight(run', t) = 1
      BY <2>1, <2>2, <2>5 DEF InFlight
    <3> QED
      BY <2>3, <2>4, <3>1, <3>2
  <2>6. CASE t # run.tweet
    <3>1. sends'[t] = sends[t]
      BY <1>3, <2>6 DEF IInv, HistoryOK
    <3>2. InFlight(run', t) = 0
      BY <2>1, <2>6 DEF InFlight
    <3> QED
      BY <2>3, <2>4, <3>1, <3>2
  <2> QED
    BY <2>5, <2>6
<1> QED
  BY <1>2, <1>3 DEF Dispatch, NoSecret, history

\* A job that goes on after it was counted stays counted.
LEMMA LaterCounted ==
    ASSUME IInv, IInv', Counted,
           Answer \/ QuarantineRead \/ QuarantineWrite \/ Store \/ Verify
    PROVE  Counted'
<1>1. /\ run # None /\ run.pc # "read" /\ run \in Run
      /\ run.tweet \in Tweet /\ run.payload \in Payload
      /\ UNCHANGED <<pending, faults, restarts, sends, changes>>
  BY DEF Answer, Answered_Again, Answered_Accepted, Answered_Refused, QuarantineRead,
         QuarantineWrite, Store, Verify, At, IInv, RunOK, Run, storage, bounds, history
<1>2. run' \in Run /\ run'.tweet = run.tweet /\ run'.pc # "read"
  <2>1. CASE \E pc \in PCs \ {"read"} : Goto(pc)
    BY <1>1, <2>1, GotoOK
  <2>2. CASE run' = [run EXCEPT !.pc = "store"]
    BY <1>1, <2>2 DEF Run
  <2>3. CASE \E why \in Why : Answered_Refused(why)
    BY <1>1, <2>3, RefusedOK
  <2>4. CASE QuarantineRead
    <3>1. quarantine \in [Tweet -> Why]
      BY DEF IInv, BoundsOK
    <3> QED
      BY <1>1, <2>4, <3>1 DEF QuarantineRead, Run
  <2>5. (\E pc \in PCs \ {"read"} : Goto(pc)) \/ Answer \/ QuarantineRead
    BY DEF QuarantineWrite, Store, Verify, PCs
  <2>6. Answer => \/ \E pc \in PCs \ {"read"} : Goto(pc)
                  \/ run' = [run EXCEPT !.pc = "store"]
                  \/ \E why \in Why : Answered_Refused(why)
    BY DEF Answer, Answered_Again, Answered_Accepted, PCs
  <2> QED
    BY <2>1, <2>2, <2>3, <2>4, <2>5, <2>6
<1>3. run' # None
  BY <1>2, TiboOutboxAssumption
<1>4. \A t \in Tweet : InFlight(run', t) = InFlight(run, t) /\ InFlight(run, t) \in {0, 1}
  BY <1>1, <1>2, <1>3 DEF InFlight
<1>5. \A t \in Tweet : InFlight(run', t) >= InFlight(run, t)
  BY <1>4
<1> QED
  BY <1>1, <1>5, FaultsTyped, CountKept

\* The failure is counted by the entry, or by the fault that kept it from that.
LEMMA FailureCounted ==
    ASSUME IInv, IInv', Counted, RecordFailure \/ Throw
    PROVE  Counted'
<1> SUFFICES ASSUME NEW t \in Tweet
             PROVE  sends'[t] <= Replaced(t)' + faults' + restarts'
                                   + Attempts(pending', t) + InFlight(run', t)
  BY DEF Counted
<1>1. /\ Attempts(pending, t) \in Nat /\ sends[t] \in Nat /\ restarts \in Nat
      /\ faults \in Nat /\ Replaced(t) \in Nat /\ InFlight(run, t) \in {0, 1}
      /\ sends[t] <= Replaced(t) + faults + restarts + Attempts(pending, t) + InFlight(run, t)
  BY CountTypes DEF Counted
<1>2. CASE Throw
  <2>1. /\ UNCHANGED <<pending, restarts, sends, changes>> /\ faults' = faults + 1
        /\ InFlight(run', t) \in {0, 1}
    BY <1>2 DEF Throw, Fault, storage, history, InFlight
  <2>2. Replaced(t)' = Replaced(t)
    BY <2>1 DEF Replaced
  <2> QED
    BY <1>1, <2>1, <2>2
<1>3. CASE RecordFailure
  <2>1. /\ UNCHANGED <<sends, faults, restarts, changes>> /\ InFlight(run', t) = 0
    BY <1>3, RecordedOK DEF history, bounds, InFlight
  <2>2. Replaced(t)' = Replaced(t)
    BY <2>1 DEF Replaced
  <2>3. CASE t = run.tweet
    <3>1. Attempts(pending', t) = Attempts(pending, t) + 1
      BY <1>3, <2>3, RecordedOK DEF Attempts
    <3> QED
      BY <1>1, <2>1, <2>2, <3>1
  <2>4. CASE t # run.tweet
    <3>1. Attempts(pending', t) = Attempts(pending, t) /\ InFlight(run, t) = 0
      BY <1>3, <2>4, RecordedOK DEF Attempts, InFlight
    <3> QED
      BY <1>1, <2>1, <2>2, <3>1
  <2> QED
    BY <2>3, <2>4
<1> QED
  BY <1>2, <1>3

\* A tweet that leaves the queue takes its count along.
LEMMA LeaveCounted ==
    ASSUME IInv, IInv', Counted, Drop \/ \E n \in 1..MaxExplicit : RetryDrop(n)
    PROVE  Counted'
<1> PICK u \in Tweet : /\ pending' = Without(pending, u) /\ sends' = [sends EXCEPT ![u] = 0]
                       /\ changes' = [changes EXCEPT ![u] = 0]
                       /\ run' = run \/ (run' = None /\ run.tweet = u)
  BY DEF Drop, RetryDrop, Asking, At, IInv, RunOK, Run, UsersOK, UserOK
<1>1. /\ restarts' = restarts /\ faults' >= faults
      /\ sends \in [Tweet -> Nat] /\ changes \in [Tweet -> Nat] /\ QueueOK(pending)
  <2>1. UNCHANGED <<faults, restarts>>
    BY DEF Drop, RetryDrop, bounds
  <2>2. faults' >= faults
    BY <2>1, FaultsTyped
  <2> QED
    BY <2>1, <2>2 DEF IInv, HistoryOK
<1>2. \A t \in Tweet : t # u => pending'[t] = pending[t]
  BY <1>1, WithoutOK
<1>3. \A t \in Tweet : InFlight(run, t) \in {0, 1}
  BY DEF InFlight
<1>4. \A t \in Tweet : t # u => InFlight(run', t) = InFlight(run, t)
  BY DEF InFlight
<1>5. \A t \in Tweet : t # u => InFlight(run', t) >= InFlight(run, t)
  BY <1>3, <1>4
<1>6. \A t \in Tweet :
         \/ sends'[t] = 0
         \/ /\ sends'[t] = sends[t] /\ changes'[t] = changes[t]
            /\ restarts' = restarts /\ faults' >= faults
            /\ Attempts(pending', t) = Attempts(pending, t)
            /\ InFlight(run', t) >= InFlight(run, t)
  BY <1>1, <1>2, <1>5 DEF Attempts
<1> QED
  BY <1>6, CountKept

LEMMA RestartCounted ==
    ASSUME IInv, IInv', Counted, Restart
    PROVE  Counted'
<1> SUFFICES ASSUME NEW t \in Tweet
             PROVE  sends'[t] <= Replaced(t)' + faults' + restarts'
                                   + Attempts(pending', t) + InFlight(run', t)
  BY DEF Counted
<1>1. /\ Attempts(pending, t) \in Nat /\ sends[t] \in Nat /\ restarts \in Nat
      /\ faults \in Nat /\ Replaced(t) \in Nat /\ InFlight(run, t) \in {0, 1}
      /\ sends[t] <= Replaced(t) + faults + restarts + Attempts(pending, t) + InFlight(run, t)
  BY CountTypes DEF Counted
<1>2. /\ UNCHANGED <<sends, pending, faults, changes>> /\ restarts' = restarts + 1
      /\ InFlight(run', t) = 0
  BY DEF Restart, storage, history, InFlight
<1>3. Replaced(t)' = Replaced(t)
  BY <1>2 DEF Replaced
<1> QED
  BY <1>1, <1>2, <1>3

LEMMA TickCounted ==
    ASSUME IInv, IInv', Counted, Tick
    PROVE  Counted'
<1> PICK u \in Tweet : /\ pending[u] # None
                       /\ pending' = [pending EXCEPT ![u].waiting = FALSE]
  BY DEF Tick, Pending
<1> DEFINE e == [pending[u] EXCEPT !.waiting = FALSE]
<1>1. pending[u] \in Entry /\ pending \in Queue
  BY DEF IInv, QueueOK, Queue
<1>2. e \in Entry /\ e.attempts = pending[u].attempts
  BY <1>1 DEF Entry
<1>3. pending' = [pending EXCEPT ![u] = e]
  OBVIOUS
<1> HIDE DEF e
<1>4. \A t \in Tweet : Attempts(pending', t) = Attempts(pending, t)
  BY <1>1, <1>2, <1>3, TiboOutboxAssumption DEF Attempts, Queue
<1>5. UNCHANGED <<run, faults, restarts, sends, changes>>
  BY DEF Tick, memory, bounds, history
<1>6. \A t \in Tweet : InFlight(run, t) \in {0, 1}
  BY DEF InFlight
<1>7. \A t \in Tweet : InFlight(run', t) >= InFlight(run, t)
  BY <1>5, <1>6
<1>8. faults' >= faults
  BY <1>5, FaultsTyped
<1> QED
  BY <1>4, <1>5, <1>7, <1>8, CountKept

\* The steps that send nothing and count nothing.
LEMMA OthersCounted ==
    ASSUME IInv, IInv', Counted, UNCHANGED <<pending, run, restarts, sends, changes>>,
           faults' = faults \/ faults' = faults + 1
    PROVE  Counted'
<1>1. faults' >= faults
  BY DEF IInv, BoundsOK
<1>2. \A t \in Tweet : InFlight(run', t) >= InFlight(run, t)
  BY DEF InFlight
<1> QED
  BY <1>1, <1>2, CountKept

LEMMA StepCounted ==
    ASSUME IInv, IInv', Counted, [Next]_vars
    PROVE  Counted'
<1>1. CASE UNCHANGED vars
  BY <1>1, OthersCounted DEF vars
<1>2. CASE Worker
  BY <1>2, StartCounted, DispatchCounted, LaterCounted, FailureCounted, LeaveCounted DEF Worker
<1>3. CASE Explicit
  <2>1. CASE \E n \in 1..MaxExplicit : RetryDrop(n)
    BY <2>1, LeaveCounted
  <2>2. CASE \/ ClearRead \/ \E t \in Tweet : RetryRead(t)
             \/ \E n \in 1..MaxExplicit : ClearWrite(n) \/ RetryWrite(n) \/ AskFails(n)
    BY <2>2, OthersCounted
    DEF ClearRead, ClearWrite, RetryWrite, RetryRead, AskFails, Fault, storage, bounds, history
  <2> QED
    BY <1>3, <2>1, <2>2 DEF Explicit
<1>4. CASE Alarm \/ \E t \in Tweet, p \in Payload : PostTweet(t, p)
  BY <1>4, OthersCounted DEF Alarm, PostTweet, storage, bounds, history
<1> QED
  BY <1>1, <1>2, <1>3, <1>4, TickCounted, RestartCounted DEF Next

-----------------------------------------------------------------------------
(* The theorems. *)

\* The storage, the jobs and the copies that operations hold have their types:
\* the queue and the list of ids keep their limits, and no id is listed twice
\* although an old copy of the list may be written back.
THEOREM WorkerTyped == Spec => []TypeOK
<1>1. IInv => TypeOK
  BY DEF IInv, TypeOK, QueueOK, Queue, IdsOK, RunOK, UsersOK, BoundsOK, HistoryOK
<1> QED
  BY <1>1, Invariant, PTL

\* A tweet that was stored and is owed an answer is never forgotten, with any
\* number of tweets, jobs, restarts and explicit operations.
THEOREM StoredStays == Spec => []NothingForgotten
<1>1. IInv => NothingForgotten
  BY DEF IInv
<1> QED
  BY <1>1, Invariant, PTL

\* Whatever copies of the processed ids are written back, an id is among them
\* only when the server has accepted its tweet.
THEOREM ProcessedAccepted == Spec => []AckedOnlyIfAccepted
<1>1. IInv => AckedOnlyIfAccepted
  BY DEF IInv, IdsOK, AckedOnlyIfAccepted
<1> QED
  BY <1>1, Invariant, PTL

\* A tweet is sent at most MaxAttempts times for each payload it was shown with
\* in turn, and once more for each fault of storage and each restart, until it
\* is settled or explicitly retried.
THEOREM RequestsBounded == Spec => []SendsBounded
<1>1. Init => Counted
  <2>1. MaxAttempts \in Nat /\ \A m \in Nat : m * 0 = 0
    BY TiboOutboxAssumption
  <2> QED
    BY <2>1 DEF Init, Counted, Attempts, InFlight, Replaced
<1>2. IInv /\ IInv' /\ Counted /\ [Next]_vars => Counted'
  BY StepCounted
<1>3. IInv /\ Counted => SendsBounded
  <2> SUFFICES ASSUME IInv, Counted, NEW t \in Tweet
               PROVE  sends[t] <= MaxAttempts * (1 + changes[t]) + faults + restarts
    BY DEF SendsBounded
  <2>1. /\ Attempts(pending, t) \in Nat /\ Attempts(pending, t) <= MaxAttempts
        /\ InFlight(run, t) \in {0, 1} /\ sends[t] \in Nat /\ restarts \in Nat
        /\ faults \in Nat /\ changes[t] \in Nat /\ Replaced(t) \in Nat
        /\ InFlight(run, t) = 1 => Attempts(pending, t) < MaxAttempts
    BY CountTypes
  <2>2. sends[t] <= Replaced(t) + faults + restarts + Attempts(pending, t) + InFlight(run, t)
    BY DEF Counted
  <2>3. MaxAttempts \in Nat
    BY TiboOutboxAssumption
  <2>4. MaxAttempts * (1 + changes[t]) = MaxAttempts + Replaced(t)
    <3>1. \A m, c \in Nat : m * (1 + c) = m + m * c
      OBVIOUS
    <3> QED
      BY <2>1, <2>3, <3>1 DEF Replaced
  <2> QED
    BY <2>1, <2>2, <2>3, <2>4
<1> QED
  BY <1>1, <1>2, <1>3, Invariant, PTL DEF Spec

=============================================================================
