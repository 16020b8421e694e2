--------------------------- MODULE MCDisplayNames ---------------------------
(* DisplayNames for TLC.  The view leaves out what no step reads: of a      *)
(* candidate the time of its last change unless it is pending, the input    *)
(* unless it is pending or may be reused, the outcome unless accepted; of   *)
(* the rows the version, which is only compared with the one that was read, *)
(* and to which a row never comes back.                                     *)
EXTENDS DisplayNames, TLC

Symmetry == Permutations(Workers)

Unversioned(row) == IF row = None THEN None ELSE [row EXCEPT !.version = 0]

Seen(a) ==
    LET r == run[a] IN
    IF r.at \in {"write", "mark"}
    THEN [at |-> r.at, accepted |-> r.accepted, input |-> r.input, rest |-> r.rest,
          unchanged |-> Unchanged(names[EventOf(a)], r.fresh)]
    ELSE r

Relevant(c) ==
    IF c = None THEN None
    ELSE [c EXCEPT !.updated = IF c.status = "pending" THEN @ ELSE 0,
                   !.input = IF c.status \in {"pending", "accepted", "settled"} THEN @ ELSE None,
                   !.result = IF c.status = "accepted" THEN @ ELSE None]

View == <<clock, notice, seeding, Relevant(candidate), evidence,
          [e \in Events |-> Unversioned(names[e])], [a \in Actors |-> Seen(a)]>>

=============================================================================
