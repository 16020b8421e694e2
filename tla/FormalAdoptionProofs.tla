------------------------ MODULE FormalAdoptionProofs ------------------------
(***************************************************************************)
(* Proofs about the ledger of FormalAdoption, for any tweets, any event    *)
(* keys and any bound on the length of a chain.                            *)
(***************************************************************************)
EXTENDS FormalAdoption, TLAPS

\* A chain is a nonempty sequence of tweets.
LEMMA ChainIsSeq ==
    ASSUME NEW s \in Chain
    PROVE  /\ s \in Seq(Tweet) /\ Len(s) \in Nat \ {0}
           /\ DOMAIN s = 1..Len(s) /\ s[1] \in ToSet(s)
<1>1. PICK n \in 1..MaxChain : s \in [1..n -> Tweet]
  BY DEF Chain
<1>2. n \in Nat \ {0}
  BY <1>1, FormalAdoptionAssumption
<1>3. s \in Seq(Tweet) /\ Len(s) = n
  BY <1>1, <1>2
<1> QED
  BY <1>1, <1>2, <1>3 DEF ToSet

\* What is in a prefix is in the whole.
LEMMA PrefixWithin ==
    ASSUME NEW s \in Chain, NEW t \in Chain, IsPrefix(s, t)
    PROVE  ToSet(s) \subseteq ToSet(t)
<1>1. SUFFICES ASSUME NEW i \in DOMAIN s PROVE s[i] \in ToSet(t)
  BY DEF ToSet
<1>2. /\ s \in Seq(Tweet) /\ t \in Seq(Tweet)
      /\ Len(s) \in Nat /\ Len(t) \in Nat /\ i \in 1..Len(s)
      /\ DOMAIN t = 1..Len(t) /\ Len(s) <= Len(t)
  BY <1>1, ChainIsSeq DEF IsPrefix
<1>3. SubSeq(s, 1, Len(s))[i] = s[i] /\ SubSeq(t, 1, Len(s))[i] = t[i]
  BY <1>2
<1>4. s[i] = t[i]
  BY <1>3 DEF IsPrefix
<1> QED
  BY <1>2, <1>4 DEF ToSet

\* The chain a row goes on with is one of the two, and has all the tweets of
\* the row's, if the two may be one post's.
LEMMA ChosenGrows ==
    ASSUME NEW old \in Chain, NEW new \in Chain
    PROVE  /\ Chosen(old, new) \in {old, new}
           /\ Compatible(old, new) => ToSet(old) \subseteq ToSet(Chosen(old, new))
<1>1. CASE Len(new) > Len(old)
  <2>1. Chosen(old, new) = new
    BY <1>1 DEF Chosen
  <2>2. Len(old) \in Nat \ {0} /\ Len(new) \in Nat \ {0} /\ DOMAIN old = 1..Len(old)
    BY ChainIsSeq
  <2>3. ASSUME Compatible(old, new) PROVE ToSet(old) \subseteq ToSet(new)
    <3>1. CASE Len(old) = 1 /\ old[1] \in ToSet(new)
      BY <2>2, <3>1 DEF ToSet
    <3>2. CASE Len(new) = 1 /\ new[1] \in ToSet(old)
      BY <1>1, <2>2, <3>2
    <3>3. CASE IsPrefix(old, new)
      BY <3>3, PrefixWithin
    <3>4. CASE IsPrefix(new, old)
      BY <1>1, <2>2, <3>4 DEF IsPrefix
    <3> QED
      BY <2>3, <3>1, <3>2, <3>3, <3>4 DEF Compatible
  <2> QED
    BY <2>1, <2>3
<1>2. CASE ~(Len(new) > Len(old))
  BY <1>2 DEF Chosen
<1> QED
  BY <1>1, <1>2

----------------------------------------------------------------------------
\* What was announced is still some row's.  This is what keeps a tweet from
\* being announced again: a claim that has it matches that row.
AnnouncedCovered == \A t \in announced : \E i \in DOMAIN rows : t \in ToSet(rows[i].ids)

IInv == TypeOK /\ OneRowEach /\ SharedOnlyByEvidence /\ AnnouncedCovered

\* What every step of the ledger amounts to: a row appended or one row with a
\* chain that has all it had.
RowOf(c) == [root |-> c.ids[1], ids |-> c.ids, key |-> c.key,
             rep |-> c.rep, from |-> c.from]

LEMMA InitInvariant == Init => IInv
BY DEF Init, IInv, TypeOK, OneRowEach, SharedOnlyByEvidence, AnnouncedCovered

\* A claim that matches nothing adds a row that shares nothing with any other.
LEMMA AdoptInvariant ==
    ASSUME IInv, NEW c \in Claim, Adopt(c)
    PROVE  IInv'
<1> DEFINE n == Len(rows)
<1>1. /\ rows \in Seq(Row) /\ n \in Nat /\ DOMAIN rows = 1..n
      /\ announced \subseteq Tweet /\ selected \subseteq Key
      /\ \A i \in DOMAIN rows : RowValid(rows[i])
  BY DEF IInv, TypeOK
<1>2. /\ c.ids \in Chain /\ c.key \in Key /\ c.rep \in Tweet /\ c.from \in ClaimSource
      /\ c.rep \in ToSet(c.ids)
  BY DEF Claim
<1>3. c.ids[1] \in Tweet /\ c.ids[1] \in ToSet(c.ids) /\ ToSet(c.ids) \subseteq Tweet
  BY <1>2, ChainIsSeq DEF ToSet
<1>4. RowOf(c) \in Row
  BY <1>2, <1>3 DEF Row, RowOf
<1>5. /\ rows' = Append(rows, RowOf(c))
      /\ selected' = selected
      /\ announced' \in {announced, announced \cup ToSet(c.ids)}
      /\ Matches(c) = {}
  BY DEF Adopt, RowOf
<1>6. /\ rows' \in Seq(Row) /\ Len(rows') = n + 1 /\ DOMAIN rows' = 1..(n+1)
      /\ \A i \in 1..n : rows'[i] = rows[i]
      /\ rows'[n+1] = RowOf(c)
  BY <1>1, <1>4, <1>5
<1>7. \A i \in 1..n : /\ rows[i].root # c.ids[1] /\ rows[i].key # c.key
                      /\ ~Overlap(rows[i].ids, c.ids)
  BY <1>1, <1>5 DEF Matches
<1>8. /\ RowOf(c).root = c.ids[1] /\ RowOf(c).key = c.key /\ RowOf(c).ids = c.ids
      /\ RowOf(c).rep = c.rep
  BY DEF RowOf
<1>9. TypeOK'
  <2>1. RowValid(RowOf(c))
    BY <1>2, <1>8 DEF RowValid
  <2>2. ASSUME NEW i \in 1..(n+1) PROVE RowValid(rows'[i])
    <3>1. CASE i = n + 1
      BY <2>1, <1>6, <3>1
    <3>2. CASE i # n + 1
      BY <1>1, <1>6, <3>2
    <3> QED BY <3>1, <3>2
  <2>3. announced' \subseteq Tweet /\ selected' \subseteq Key
    BY <1>1, <1>3, <1>5
  <2> QED BY <1>6, <2>2, <2>3 DEF TypeOK, RowValid
<1>10. OneRowEach'
  <2>1. SUFFICES ASSUME NEW i \in 1..(n+1), NEW j \in 1..(n+1),
                        rows'[i].key = rows'[j].key \/ rows'[i].root = rows'[j].root
                 PROVE  i = j
    BY <1>6 DEF OneRowEach
  <2>2. CASE i \in 1..n /\ j \in 1..n
    BY <1>1, <1>6, <2>1, <2>2 DEF IInv, OneRowEach
  <2>3. CASE i \in 1..n /\ j = n + 1
    BY <1>6, <1>7, <1>8, <2>1, <2>3
  <2>4. CASE i = n + 1 /\ j \in 1..n
    BY <1>6, <1>7, <1>8, <2>1, <2>4
  <2> QED BY <1>1, <2>2, <2>3, <2>4
<1>11. SharedOnlyByEvidence'
  <2>1. SUFFICES ASSUME NEW i \in 1..(n+1), NEW j \in 1..(n+1), i # j,
                        Overlap(rows'[i].ids, rows'[j].ids)
                 PROVE  rows'[i].key \in selected \/ rows'[j].key \in selected
    BY <1>5, <1>6 DEF SharedOnlyByEvidence, Overlap
  <2>2. CASE i \in 1..n /\ j \in 1..n
    BY <1>1, <1>6, <2>1, <2>2 DEF IInv, SharedOnlyByEvidence
  <2>3. CASE i \in 1..n /\ j = n + 1
    BY <1>6, <1>7, <1>8, <2>1, <2>3
  <2>4. CASE i = n + 1 /\ j \in 1..n
    BY <1>6, <1>7, <1>8, <2>1, <2>4 DEF Overlap
  <2> QED BY <1>1, <2>1, <2>2, <2>3, <2>4
<1>12. AnnouncedCovered'
  <2>1. SUFFICES ASSUME NEW t \in announced'
                 PROVE  \E i \in 1..(n+1) : t \in ToSet(rows'[i].ids)
    BY <1>6 DEF AnnouncedCovered, ToSet
  <2>2. CASE t \in announced
    <3>1. PICK i \in 1..n : t \in ToSet(rows[i].ids)
      BY <1>1, <2>2 DEF IInv, AnnouncedCovered
    <3> QED BY <1>1, <1>6, <3>1
  <2>3. CASE t \in ToSet(c.ids)
    BY <1>1, <1>6, <1>8, <2>3
  <2> QED BY <1>5, <2>1, <2>2, <2>3
<1> QED BY <1>9, <1>10, <1>11, <1>12 DEF IInv
\* What a claim that goes to row i changes: that row's chain and root.
Reconciled(c, i) ==
    LET ids == Chosen(rows[i].ids, c.ids)
    IN  [rows[i] EXCEPT !.root = ids[1], !.ids = ids]

\* A claim that goes to a row gives it a valid chain with all it had.
LEMMA ReconciledRow ==
    ASSUME TypeOK, NEW c \in Claim, NEW i \in DOMAIN rows, Accepts(c, i)
    PROVE  LET r == Reconciled(c, i)
           IN  /\ r \in Row /\ RowValid(r)
               /\ r.ids = Chosen(rows[i].ids, c.ids) /\ r.root = r.ids[1]
               /\ r.key = rows[i].key /\ r.rep = rows[i].rep
               /\ ToSet(rows[i].ids) \subseteq ToSet(r.ids)
               /\ ToSet(r.ids) \subseteq ToSet(rows[i].ids) \cup ToSet(c.ids)
<1> DEFINE ids == Chosen(rows[i].ids, c.ids)
           r == Reconciled(c, i)
<1>1. c.ids \in Chain
  BY DEF Claim
<1>2. rows[i] \in Row /\ RowValid(rows[i])
  BY DEF TypeOK
<1>3. rows[i].ids \in Chain
  BY <1>2 DEF Row
<1>4. Compatible(rows[i].ids, c.ids)
  BY DEF Accepts, Selects
<1>5. ids \in {rows[i].ids, c.ids} /\ ToSet(rows[i].ids) \subseteq ToSet(ids)
  BY <1>1, <1>3, <1>4, ChosenGrows
<1>6. ids \in Chain
  BY <1>1, <1>3, <1>5
<1>7. ids[1] \in Tweet
  BY <1>6, ChainIsSeq
<1> HIDE DEF ids
<1>8. r = [rows[i] EXCEPT !.root = ids[1], !.ids = ids]
  BY DEF r, Reconciled, ids
<1>9. /\ r \in Row /\ r.ids = ids /\ r.root = ids[1]
      /\ r.key = rows[i].key /\ r.rep = rows[i].rep
  BY <1>2, <1>6, <1>7, <1>8 DEF Row
<1>10. RowValid(r)
  BY <1>2, <1>5, <1>9 DEF RowValid
<1> QED BY <1>5, <1>9, <1>10 DEF ids

\* The steps of Reconcile, in terms of the row they go to.
LEMMA ReconcileStep ==
    ASSUME TypeOK, NEW c \in Claim, Reconcile(c)
    PROVE  \E i \in DOMAIN rows :
              /\ Accepts(c, i)
              /\ DOMAIN rows' = DOMAIN rows /\ rows' \in Seq(Row)
              /\ Len(rows') = Len(rows)
              /\ rows'[i] = Reconciled(c, i)
              /\ \A j \in DOMAIN rows : j # i => rows'[j] = rows[j]
              /\ selected' = IF Matches(c) = {i} \/ c.from = "new_adoption"
                             THEN selected ELSE selected \cup {rows[i].key}
              /\ announced' = announced
<1>1. PICK i \in DOMAIN rows :
        /\ Accepts(c, i)
        /\ rows' = [rows EXCEPT ![i] = Reconciled(c, i)]
        /\ selected' = IF Matches(c) = {i} \/ c.from = "new_adoption"
                       THEN selected ELSE selected \cup {rows[i].key}
        /\ announced' = announced
  BY DEF Reconcile, Reconciled
<1>2. rows \in Seq(Row) /\ Reconciled(c, i) \in Row
  BY <1>1, ReconciledRow DEF TypeOK
<1>3. /\ DOMAIN rows' = DOMAIN rows /\ rows' \in Seq(Row) /\ Len(rows') = Len(rows)
      /\ rows'[i] = Reconciled(c, i)
      /\ \A j \in DOMAIN rows : j # i => rows'[j] = rows[j]
  BY <1>1, <1>2
<1> QED BY <1>1, <1>3

\* A claim that goes to one row of several leaves them apart, unless evidence
\* chose among them, which is recorded.
LEMMA ReconcileInvariant ==
    ASSUME IInv, NEW c \in Claim, Reconcile(c)
    PROVE  IInv'
<1>1. TypeOK /\ rows \in Seq(Row) /\ DOMAIN rows = 1..Len(rows)
  BY DEF IInv, TypeOK
<1>2. PICK i \in DOMAIN rows :
        /\ Accepts(c, i)
        /\ DOMAIN rows' = DOMAIN rows /\ rows' \in Seq(Row)
        /\ Len(rows') = Len(rows)
        /\ rows'[i] = Reconciled(c, i)
        /\ \A j \in DOMAIN rows : j # i => rows'[j] = rows[j]
        /\ selected' = IF Matches(c) = {i} \/ c.from = "new_adoption"
                       THEN selected ELSE selected \cup {rows[i].key}
        /\ announced' = announced
  BY <1>1, ReconcileStep
<1>3. /\ RowValid(rows'[i])
      /\ rows'[i].ids = Chosen(rows[i].ids, c.ids) /\ rows'[i].root = rows'[i].ids[1]
      /\ rows'[i].key = rows[i].key
      /\ ToSet(rows[i].ids) \subseteq ToSet(rows'[i].ids)
      /\ ToSet(rows'[i].ids) \subseteq ToSet(rows[i].ids) \cup ToSet(c.ids)
  BY <1>1, <1>2, ReconciledRow
<1>4. TypeOK'
  <2>1. ASSUME NEW j \in DOMAIN rows PROVE RowValid(rows'[j])
    <3>1. CASE j = i
      BY <1>3, <3>1
    <3>2. CASE j # i
      BY <1>1, <1>2, <3>2 DEF TypeOK
    <3> QED BY <3>1, <3>2
  <2>2. rows[i] \in Row
    BY <1>1
  <2>3. selected' \subseteq Key /\ announced' \subseteq Tweet
    BY <1>1, <1>2, <2>2 DEF TypeOK, Row
  <2> QED BY <1>2, <2>1, <2>3 DEF TypeOK, RowValid
<1>5. \A j \in DOMAIN rows : rows[j].root = rows'[i].root => j = i
  <2>1. RootFree(i, rows'[i].root)
    BY <1>2, <1>3 DEF Accepts
  <2>2. \A j \in DOMAIN rows : rows[j].root = rows[i].root => j = i
    BY DEF IInv, OneRowEach
  <2> QED BY <2>1, <2>2 DEF RootFree
<1>6. OneRowEach'
  <2>1. SUFFICES ASSUME NEW j \in DOMAIN rows, NEW k \in DOMAIN rows, j # k
                 PROVE  rows'[j].key # rows'[k].key /\ rows'[j].root # rows'[k].root
    BY <1>2 DEF OneRowEach
  <2>2. rows[j].key # rows[k].key /\ rows[j].root # rows[k].root
    BY <2>1 DEF IInv, OneRowEach
  <2>3. CASE j = i
    BY <1>2, <1>3, <1>5, <2>1, <2>2, <2>3
  <2>4. CASE k = i
    BY <1>2, <1>3, <1>5, <2>1, <2>2, <2>4
  <2>5. CASE j # i /\ k # i
    BY <1>2, <2>2, <2>5
  <2> QED BY <2>3, <2>4, <2>5
<1>7. ASSUME NEW j \in DOMAIN rows, j # i, Overlap(rows'[i].ids, rows[j].ids)
      PROVE  rows[i].key \in selected' \/ rows[j].key \in selected'
  <2>1. CASE Overlap(rows[i].ids, rows[j].ids)
    <3>1. rows[i].key \in selected \/ rows[j].key \in selected
      BY <1>7, <2>1 DEF IInv, SharedOnlyByEvidence
    <3> QED BY <1>2, <3>1
  <2>2. CASE Overlap(rows[j].ids, c.ids)
    <3>1. i \in Matches(c) /\ j \in Matches(c)
      BY <1>2, <1>7, <2>2 DEF Matches, Accepts, Selects
    <3>2. Matches(c) # {i}
      BY <1>7, <3>1
    <3>3. c.from # "new_adoption"
      BY <1>2, <3>2 DEF Accepts, Selects
    <3> QED BY <1>2, <3>2, <3>3
  <2> QED BY <1>3, <1>7, <2>1, <2>2 DEF Overlap
<1>8. SharedOnlyByEvidence'
  <2>1. SUFFICES ASSUME NEW j \in DOMAIN rows, NEW k \in DOMAIN rows, j # k,
                        Overlap(rows'[j].ids, rows'[k].ids)
                 PROVE  rows'[j].key \in selected' \/ rows'[k].key \in selected'
    BY <1>2 DEF SharedOnlyByEvidence, Overlap
  <2>2. CASE j = i
    BY <1>2, <1>3, <1>7, <2>1, <2>2
  <2>3. CASE k = i
    <3>1. Overlap(rows'[i].ids, rows[j].ids)
      BY <1>2, <2>1, <2>3 DEF Overlap
    <3> QED BY <1>2, <1>3, <1>7, <2>1, <2>3, <3>1
  <2>4. CASE j # i /\ k # i
    <3>1. rows[j].key \in selected \/ rows[k].key \in selected
      BY <1>2, <2>1, <2>4 DEF IInv, SharedOnlyByEvidence
    <3> QED BY <1>2, <2>4, <3>1
  <2> QED BY <2>2, <2>3, <2>4
<1>9. AnnouncedCovered'
  <2>1. SUFFICES ASSUME NEW t \in announced
                 PROVE  \E j \in DOMAIN rows : t \in ToSet(rows'[j].ids)
    BY <1>2 DEF AnnouncedCovered, ToSet
  <2>2. PICK j \in DOMAIN rows : t \in ToSet(rows[j].ids)
    BY DEF IInv, AnnouncedCovered
  <2>3. CASE j = i
    BY <1>3, <2>2, <2>3
  <2>4. CASE j # i
    BY <1>2, <2>2, <2>4
  <2> QED BY <2>3, <2>4
<1> QED BY <1>4, <1>6, <1>8, <1>9 DEF IInv

LEMMA StepInvariant == IInv /\ [Next]_vars => IInv'
<1> SUFFICES ASSUME IInv, [Next]_vars PROVE IInv'
  OBVIOUS
<1>1. ASSUME NEW c \in Claim, Adopt(c) PROVE IInv'
  BY <1>1, AdoptInvariant
<1>2. ASSUME NEW c \in Claim, Reconcile(c) PROVE IInv'
  BY <1>2, ReconcileInvariant
<1>3. CASE UNCHANGED vars
  <2>1. rows' = rows /\ announced' = announced /\ selected' = selected
    BY <1>3 DEF vars
  <2>2. TypeOK'
    BY <2>1 DEF IInv, TypeOK, RowValid
  <2>3. OneRowEach'
    BY <2>1 DEF IInv, OneRowEach
  <2>4. SharedOnlyByEvidence'
    BY <2>1 DEF IInv, SharedOnlyByEvidence, Overlap
  <2>5. AnnouncedCovered'
    BY <2>1 DEF IInv, AnnouncedCovered
  <2> QED BY <2>2, <2>3, <2>4, <2>5 DEF IInv
<1>4. ASSUME NEW c \in Claim, Refuse(c) PROVE IInv'
  BY <1>3, <1>4 DEF Refuse
<1> QED BY <1>1, <1>2, <1>3, <1>4 DEF Next

LEMMA Invariant == Spec => []IInv
BY InitInvariant, StepInvariant, PTL DEF Spec

----------------------------------------------------------------------------
\* The table's rows have the types and satisfy the constraints declared for it:
\* claim_tibo_formal_adoption never fails on one of them.
THEOREM TypeCorrect == Spec => []TypeOK
<1>1. IInv => TypeOK
  BY DEF IInv
<1> QED BY <1>1, Invariant, PTL

\* No claim runs into the unique indexes on the root and on the event key.
THEOREM UniqueRows == Spec => []OneRowEach
<1>1. IInv => OneRowEach
  BY DEF IInv
<1> QED BY <1>1, Invariant, PTL

\* No post is adopted as two events, unless existing evidence chose.
THEOREM EventsShareByEvidence == Spec => []SharedOnlyByEvidence
<1>1. IInv => SharedOnlyByEvidence
  BY DEF IInv
<1> QED BY <1>1, Invariant, PTL

\* No tweet is announced twice, in whatever order and through whichever parts of
\* its post's chain it is claimed.
THEOREM NoSecondAnnouncement == Spec => AnnouncedOnce
<1> DEFINE Once == Len(rows') > Len(rows) /\ Last(rows').from = "new_adoption"
                     => ToSet(Last(rows').ids) \cap announced = {}
<1>1. IInv /\ [Next]_vars => [Once]_vars
  <2> SUFFICES ASSUME IInv, Next PROVE Once
    BY DEF vars
  <2>1. rows \in Seq(Row) /\ Len(rows) \in Nat
    BY DEF IInv, TypeOK
  <2>2. ASSUME NEW c \in Claim, Adopt(c) PROVE Once
    <3>1. rows' = Append(rows, RowOf(c)) /\ Matches(c) = {}
      BY <2>2 DEF Adopt, RowOf
    <3>2. Last(rows') = RowOf(c)
      BY <2>1, <3>1 DEF Last
    <3>3. ToSet(c.ids) \cap announced = {}
      BY <3>1 DEF Matches, Overlap, IInv, AnnouncedCovered
    <3> QED BY <3>2, <3>3 DEF RowOf
  <2>3. ASSUME NEW c \in Claim, Reconcile(c) PROVE Once
    <3>1. Len(rows') = Len(rows)
      BY <2>3, ReconcileStep DEF IInv
    <3> QED BY <2>1, <3>1
  <2>4. ASSUME NEW c \in Claim, Refuse(c) PROVE Once
    BY <2>1, <2>4 DEF Refuse, vars
  <2> QED BY <2>2, <2>3, <2>4 DEF Next
<1> QED BY <1>1, Invariant, PTL DEF Spec, AnnouncedOnce

\* A row keeps its event, its representative and every tweet of its chain.
THEOREM RowsOnlyGrow == Spec => LedgerGrows
<1> DEFINE Grows == /\ Len(rows') >= Len(rows)
                    /\ \A i \in DOMAIN rows :
                         /\ rows'[i].key = rows[i].key /\ rows'[i].rep = rows[i].rep
                         /\ ToSet(rows[i].ids) \subseteq ToSet(rows'[i].ids)
<1>1. IInv /\ [Next]_vars => [Grows]_vars
  <2> SUFFICES ASSUME IInv, Next PROVE Grows
    BY DEF vars
  <2>1. TypeOK /\ rows \in Seq(Row) /\ Len(rows) \in Nat
    BY DEF IInv, TypeOK
  <2>2. ASSUME NEW c \in Claim, Adopt(c) PROVE Grows
    <3>1. rows' = Append(rows, RowOf(c))
      BY <2>2 DEF Adopt, RowOf
    <3>2. Len(rows') = Len(rows) + 1 /\ \A i \in DOMAIN rows : rows'[i] = rows[i]
      BY <2>1, <3>1
    <3> QED BY <2>1, <3>2
  <2>3. ASSUME NEW c \in Claim, Reconcile(c) PROVE Grows
    <3>1. PICK i \in DOMAIN rows :
            /\ Accepts(c, i) /\ Len(rows') = Len(rows)
            /\ rows'[i] = Reconciled(c, i)
            /\ \A j \in DOMAIN rows : j # i => rows'[j] = rows[j]
      BY <2>1, <2>3, ReconcileStep
    <3>2. /\ rows'[i].key = rows[i].key /\ rows'[i].rep = rows[i].rep
          /\ ToSet(rows[i].ids) \subseteq ToSet(rows'[i].ids)
      BY <2>1, <3>1, ReconciledRow
    <3> QED BY <2>1, <3>1, <3>2
  <2>4. ASSUME NEW c \in Claim, Refuse(c) PROVE Grows
    BY <2>1, <2>4 DEF Refuse, vars
  <2> QED BY <2>2, <2>3, <2>4 DEF Next
<1> QED BY <1>1, Invariant, PTL DEF Spec, LedgerGrows

----------------------------------------------------------------------------
(* The ledger of posts known by one id, as the two webhooks use it in      *)
(* CodexUsage and TiboWebhook: pairs of a post and its event.              *)

Owned == {<<rows[i].root, rows[i].key>> : i \in DOMAIN rows}

\* The posts with a row that a claim of event k by post t runs into.
Holders(t, k) ==
    {rows[i].root : i \in {j \in DOMAIN rows : rows[j].root = t \/ rows[j].key = k}}

\* A claim makes the pair if nothing is in its way, finds the post's own row, or
\* is refused because another post is in its way.
OneIdClaim(c) ==
    LET t == c.ids[1]
    IN  \/ Adopt(c) /\ Holders(t, c.key) = {} /\ Owned' = Owned \cup {<<t, c.key>>}
        \/ Reconcile(c) /\ Holders(t, c.key) = {t} /\ Owned' = Owned
        \/ Refuse(c) /\ ~(Holders(t, c.key) \subseteq {t}) /\ Owned' = Owned

LEMMA OneId ==
    ASSUME MaxChain = 1, NEW s \in Chain
    PROVE  Len(s) = 1 /\ ToSet(s) = {s[1]} /\ s[1] \in Tweet
<1>1. s \in [1..1 -> Tweet]
  BY DEF Chain
<1>2. DOMAIN s = {1} /\ Len(s) = 1
  BY <1>1
<1> QED
  BY <1>1, <1>2 DEF ToSet

LEMMA OneIdMatches ==
    ASSUME MaxChain = 1, TypeOK, NEW c \in Claim, NEW i \in DOMAIN rows
    PROVE  /\ rows[i].ids \in Chain /\ c.ids \in Chain /\ rows[i].root = rows[i].ids[1]
           /\ i \in Matches(c) <=> rows[i].root = c.ids[1] \/ rows[i].key = c.key
           /\ Compatible(rows[i].ids, c.ids) <=> rows[i].root = c.ids[1]
           /\ Chosen(rows[i].ids, c.ids) = rows[i].ids
<1>1. rows[i] \in Row /\ RowValid(rows[i]) /\ c.ids \in Chain
  BY DEF TypeOK, Claim
<1>2. rows[i].ids \in Chain /\ rows[i].root = rows[i].ids[1]
  BY <1>1 DEF Row, RowValid
<1>3. PICK s, t : s = rows[i].ids /\ t = c.ids
  OBVIOUS
<1>4. /\ Len(s) = 1 /\ ToSet(s) = {s[1]} /\ Len(t) = 1 /\ ToSet(t) = {t[1]}
  BY <1>1, <1>2, <1>3, OneId
<1>5. Overlap(s, t) <=> s[1] = t[1]
  <2>1. PICK a, b : a = s[1] /\ b = t[1]
    OBVIOUS
  <2>2. ToSet(s) = {a} /\ ToSet(t) = {b}
    BY <1>4, <2>1
  <2>3. ToSet(s) \cap ToSet(t) # {} <=> a = b
    BY <2>2
  <2> QED
    BY <2>1, <2>3 DEF Overlap
<1>6. IsPrefix(s, t) \/ IsPrefix(t, s) => s[1] \in ToSet(t)
  BY <1>1, <1>2, <1>3, <1>4, PrefixWithin
<1>7. Compatible(s, t) <=> s[1] = t[1]
  BY <1>4, <1>6 DEF Compatible
<1> QED
  BY <1>1, <1>2, <1>3, <1>4, <1>5, <1>7 DEF Matches, Chosen

\* A claim goes to a row just when no row of another post is in its way.
LEMMA OneIdAccepted ==
    ASSUME MaxChain = 1, IInv, NEW c \in Claim
    PROVE  (\E i \in DOMAIN rows : Accepts(c, i)) <=> Holders(c.ids[1], c.key) = {c.ids[1]}
<1>1. TypeOK /\ OneRowEach
  BY DEF IInv
<1>2. ASSUME NEW i \in DOMAIN rows, Accepts(c, i)
      PROVE  Holders(c.ids[1], c.key) = {c.ids[1]}
  <2>1. \A j \in Matches(c) : j \in DOMAIN rows /\ rows[j].root = c.ids[1]
    BY <1>1, <1>2, OneIdMatches DEF Accepts, Matches
  <2>2. i \in Matches(c)
    BY <1>2 DEF Accepts, Selects
  <2> QED
    BY <1>1, <2>1, <2>2, OneIdMatches DEF Holders
<1>3. ASSUME Holders(c.ids[1], c.key) = {c.ids[1]}
      PROVE  \E i \in DOMAIN rows : Accepts(c, i)
  <2>1. PICK i \in DOMAIN rows : rows[i].root = c.ids[1]
    BY <1>3 DEF Holders
  <2>2. ASSUME NEW j \in Matches(c) PROVE j = i
    <3>1. j \in DOMAIN rows
      BY DEF Matches
    <3>2. rows[j].root = c.ids[1]
      BY <1>1, <1>3, <3>1, OneIdMatches DEF Holders
    <3> QED
      BY <1>1, <2>1, <3>1, <3>2 DEF OneRowEach
  <2>3. i \in Matches(c) /\ Compatible(rows[i].ids, c.ids)
    BY <1>1, <2>1, OneIdMatches
  <2>4. RootFree(i, Chosen(rows[i].ids, c.ids)[1])
    BY <1>1, OneIdMatches DEF RootFree
  <2>5. Accepts(c, i)
    BY <2>2, <2>3, <2>4 DEF Accepts, Selects
  <2> QED
    BY <2>5
<1> QED
  BY <1>2, <1>3

LEMMA OneIdOwned ==
    ASSUME MaxChain = 1, IInv, NEW c \in Claim
    PROVE  /\ Adopt(c) => Owned' = Owned \cup {<<c.ids[1], c.key>>}
           /\ Reconcile(c) => Owned' = Owned
           /\ Refuse(c) => Owned' = Owned
<1>1. TypeOK /\ rows \in Seq(Row) /\ Len(rows) \in Nat /\ DOMAIN rows = 1..Len(rows)
  BY DEF IInv, TypeOK
<1>2. ASSUME Adopt(c) PROVE Owned' = Owned \cup {<<c.ids[1], c.key>>}
  <2>1. rows' = Append(rows, RowOf(c))
    BY <1>2 DEF Adopt, RowOf
  <2>2. /\ DOMAIN rows' = DOMAIN rows \cup {Len(rows) + 1}
        /\ rows'[Len(rows) + 1] = RowOf(c)
        /\ \A i \in DOMAIN rows : rows'[i] = rows[i]
    BY <1>1, <2>1
  <2>3. RowOf(c).root = c.ids[1] /\ RowOf(c).key = c.key
    BY DEF RowOf
  <2> QED
    BY <2>2, <2>3 DEF Owned
<1>3. ASSUME Reconcile(c) PROVE Owned' = Owned
  <2>1. PICK i \in DOMAIN rows :
          /\ Accepts(c, i) /\ DOMAIN rows' = DOMAIN rows
          /\ rows'[i] = Reconciled(c, i)
          /\ \A j \in DOMAIN rows : j # i => rows'[j] = rows[j]
    BY <1>1, <1>3, ReconcileStep
  <2>2. rows'[i].key = rows[i].key /\ rows'[i].root = rows[i].root
    BY <1>1, <2>1, ReconciledRow, OneIdMatches
  <2>3. \A j \in DOMAIN rows : rows'[j].key = rows[j].key /\ rows'[j].root = rows[j].root
    BY <2>1, <2>2
  <2> QED
    BY <2>1, <2>3 DEF Owned
<1>4. ASSUME Refuse(c) PROVE Owned' = Owned
  BY <1>4 DEF Refuse, vars, Owned
<1> QED
  BY <1>2, <1>3, <1>4

\* Where every post is known by one id, the ledger is what the webhooks are
\* modelled with: of all the database function compares and chooses there remains
\* that a claim makes its pair when neither its post nor its event has one, is
\* answered "existing" when the post's own row is all there is, and is a conflict
\* otherwise.  A post and an event each have one pair at most.
THEOREM LedgerOfOneIds ==
    ASSUME MaxChain = 1
    PROVE  Spec => /\ [][\E c \in Claim : OneIdClaim(c)]_vars
                   /\ [](\A x, y \in Owned : x[1] = y[1] \/ x[2] = y[2] => x = y)
<1>1. IInv /\ [Next]_vars => [\E c \in Claim : OneIdClaim(c)]_vars
  <2> SUFFICES ASSUME IInv, NEW c \in Claim, Adopt(c) \/ Reconcile(c) \/ Refuse(c)
               PROVE  OneIdClaim(c)
    BY DEF Next
  <2>1. TypeOK
    BY DEF IInv
  <2>2. Matches(c) = {} <=> Holders(c.ids[1], c.key) = {}
    BY <2>1, OneIdMatches DEF Matches, Holders
  <2>3. CASE Adopt(c)
    BY <2>2, <2>3, OneIdOwned DEF Adopt, OneIdClaim
  <2>4. CASE Reconcile(c)
    <3>1. \E i \in DOMAIN rows : Accepts(c, i)
      BY <2>4 DEF Reconcile
    <3> QED
      BY <2>4, <3>1, OneIdAccepted, OneIdOwned DEF OneIdClaim
  <2>5. CASE Refuse(c)
    <3>1. Matches(c) # {} /\ ~\E i \in DOMAIN rows : Accepts(c, i)
      BY <2>5 DEF Refuse
    <3>2. Holders(c.ids[1], c.key) # {} /\ Holders(c.ids[1], c.key) # {c.ids[1]}
      BY <2>2, <3>1, OneIdAccepted
    <3> QED
      BY <2>5, <3>2, OneIdOwned DEF OneIdClaim
  <2> QED
    BY <2>3, <2>4, <2>5
<1>2. IInv => \A x, y \in Owned : x[1] = y[1] \/ x[2] = y[2] => x = y
  BY DEF IInv, OneRowEach, Owned
<1> QED
  BY <1>1, <1>2, Invariant, PTL DEF Spec
=============================================================================
