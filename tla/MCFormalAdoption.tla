-------------------------- MODULE MCFormalAdoption --------------------------
(***************************************************************************)
(* FormalAdoption for TLC: tweets and event keys are compared for equality *)
(* and nothing else, so permuting either is a symmetry.                    *)
(***************************************************************************)
EXTENDS FormalAdoption, TLC

Symmetry == Permutations(Tweet) \cup Permutations(Key)
=============================================================================
