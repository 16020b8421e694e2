--------------------------- MODULE FormalAdoption ---------------------------
(***************************************************************************)
(* The ledger of formally adopted reset events, table                      *)
(* tibo_formal_adoptions, and its only writer, the database function       *)
(* claim_tibo_formal_adoption.  A post on X is known by the chain of its   *)
(* edits, oldest first, of which a caller may have seen a part; without    *)
(* X's word for the chain a post is known by its own id alone.  The event  *)
(* key a caller asks for comes from what it read before, which may be old  *)
(* by the time of the claim: any valid claim may come at any time.         *)
(*                                                                         *)
(* A claim runs under one advisory lock, so it is one step.  The tweets a  *)
(* row cites as its sources, which only grow and decide nothing, and its   *)
(* times are left out.  A claim that is no claim (an empty field, a tweet  *)
(* twice, a root or representative that is not the chain's) raises an      *)
(* error and changes nothing; Claim holds the others.                      *)
(***************************************************************************)
EXTENDS Integers, Sequences, FiniteSets, SequencesExt

CONSTANTS
    Tweet,
    Key,            \* reset_event_key
    MaxChain        \* bound on the length of a chain: X has six at most

ASSUME FormalAdoptionAssumption == MaxChain \in 1..6

VARIABLES
    rows,       \* the table, in the order of created_at
    announced,  \* history: the tweets of every claim answered "claimed_new"
    selected    \* history: keys that evidence selected among several rows

vars == <<rows, announced, selected>>

Chain == {s \in UNION {[1..n -> Tweet] : n \in 1..MaxChain} :
             \A i, j \in DOMAIN s : s[i] = s[j] => i = j}
ClaimSource == {"new_adoption", "existing"}     \* three kinds of the latter
Row == [root: Tweet, ids: Chain, key: Key, rep: Tweet, from: ClaimSource]
Claim == {c \in [ids: Chain, key: Key, rep: Tweet, from: ClaimSource] :
             c.rep \in ToSet(c.ids)}

\* What the constraints of the table ask of a row.
RowValid(r) == r.root = r.ids[1] /\ r.rep \in ToSet(r.ids)

TypeOK ==
    /\ rows \in Seq(Row)
    /\ \A i \in DOMAIN rows : RowValid(rows[i])
    /\ announced \subseteq Tweet
    /\ selected \subseteq Key

Init == rows = <<>> /\ announced = {} /\ selected = {}

----------------------------------------------------------------------------
Overlap(s, t) == ToSet(s) \cap ToSet(t) # {}

\* Two chains that may be the same post's.
Compatible(s, t) ==
    \/ Len(s) = 1 /\ s[1] \in ToSet(t)
    \/ Len(t) = 1 /\ t[1] \in ToSet(s)
    \/ IsPrefix(s, t)
    \/ IsPrefix(t, s)

\* The rows a claim is about: the same post, or the same event.
Matches(c) ==
    {i \in DOMAIN rows :
        \/ rows[i].root = c.ids[1]
        \/ Overlap(rows[i].ids, c.ids)
        \/ rows[i].key = c.key}

\* Mutant: any claim of an existing key may choose among several rows.
Selects_Anyone(c, i) ==
    /\ i \in Matches(c)
    /\ Matches(c) = {i} \/ rows[i].key = c.key

\* The row a claim goes to: its only match, or the one of several that has the
\* key, if evidence and not a new adoption asks for it.
Selects(c, i) ==
    /\ i \in Matches(c)
    /\ \/ Matches(c) = {i}
       \/ rows[i].key = c.key /\ c.from # "new_adoption"

\* Mutant: the claim's chain replaces the row's.
Chosen_Incoming(old, new) == new

\* The longer chain, which is never shortened.
Chosen(old, new) == IF Len(new) > Len(old) THEN new ELSE old

\* Mutant: nothing is asked about the root of the chosen chain.
RootFree_Always(i, root) == TRUE

\* The chosen root is the row's own, or no other row has it.
RootFree(i, root) ==
    \/ rows[i].root = root
    \/ \A j \in DOMAIN rows : rows[j].root = root => j = i

Accepts(c, i) ==
    /\ \A j \in Matches(c) : Compatible(rows[j].ids, c.ids)
    /\ Selects(c, i)
    /\ RootFree(i, Chosen(rows[i].ids, c.ids)[1])

----------------------------------------------------------------------------
\* Mutant: a claim that only repeats the post's identity makes a row of its own.
Adopt_SameEvent(c) ==
    /\ \A i \in DOMAIN rows : rows[i].root # c.ids[1] /\ rows[i].key # c.key
    /\ rows' = Append(rows, [root |-> c.ids[1], ids |-> c.ids, key |-> c.key,
                             rep |-> c.rep, from |-> c.from])
    /\ announced' = IF c.from = "new_adoption" THEN announced \cup ToSet(c.ids)
                    ELSE announced
    /\ UNCHANGED selected

\* Nothing matches: a row of its own; "claimed_new" if it is a new adoption.
Adopt(c) ==
    /\ Matches(c) = {}
    /\ rows' = Append(rows, [root |-> c.ids[1], ids |-> c.ids, key |-> c.key,
                             rep |-> c.rep, from |-> c.from])
    /\ announced' = IF c.from = "new_adoption" THEN announced \cup ToSet(c.ids)
                    ELSE announced
    /\ UNCHANGED selected

\* "reconciled", or "existing" if that changes nothing.  The key stays.
Reconcile(c) ==
    /\ \E i \in DOMAIN rows :
          /\ Accepts(c, i)
          /\ LET ids == Chosen(rows[i].ids, c.ids)
             IN  rows' = [rows EXCEPT ![i] =
                            [@ EXCEPT !.root = ids[1], !.ids = ids]]
          /\ selected' = IF Matches(c) = {i} \/ c.from = "new_adoption"
                         THEN selected ELSE selected \cup {rows[i].key}
    /\ UNCHANGED announced

\* "conflict": another post's chain, several rows, or a root already taken.
Refuse(c) ==
    /\ Matches(c) # {}
    /\ \A i \in DOMAIN rows : ~Accepts(c, i)
    /\ UNCHANGED vars

Next == \E c \in Claim : Adopt(c) \/ Reconcile(c) \/ Refuse(c)

Spec == Init /\ [][Next]_vars

----------------------------------------------------------------------------
(* Properties.                                                             *)

\* One event has one row, and one post one root: no claim runs into the unique
\* indexes of the table, which would make it fail and be retried for ever.
OneRowEach ==
    \A i, j \in DOMAIN rows :
        rows[i].key = rows[j].key \/ rows[i].root = rows[j].root => i = j

\* Two events share a tweet only where evidence chose between their rows:
\* otherwise one post is never adopted as two resets.
SharedOnlyByEvidence ==
    \A i, j \in DOMAIN rows :
        i # j /\ Overlap(rows[i].ids, rows[j].ids)
            => rows[i].key \in selected \/ rows[j].key \in selected

\* No tweet is announced as newly adopted twice, through whichever edit, event
\* key or partial chain it is claimed again.
AnnouncedOnce ==
    [][Len(rows') > Len(rows) /\ Last(rows').from = "new_adoption"
        => ToSet(Last(rows').ids) \cap announced = {}]_vars

\* A row keeps its key and its representative and loses no tweet of its chain,
\* whatever part of the chain a later claim knows; no row is deleted.
LedgerGrows ==
    [][/\ Len(rows') >= Len(rows)
       /\ \A i \in DOMAIN rows :
            /\ rows'[i].key = rows[i].key /\ rows'[i].rep = rows[i].rep
            /\ ToSet(rows[i].ids) \subseteq ToSet(rows'[i].ids)]_vars
=============================================================================
