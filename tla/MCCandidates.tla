---------------------------- MODULE MCCandidates ----------------------------
(* Small instances of Candidates. *)
EXTENDS Candidates, TLC

Symmetry == Permutations(Children)
=============================================================================
