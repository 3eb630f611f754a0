---------------------------- MODULE MCHandlers ----------------------------
(* A small instance of Handlers. *)
EXTENDS Handlers, TLC

CONSTANTS t1, p1, p2, s1, s2

Symmetry == Permutations(Pods) \union Permutations(Slots)
=============================================================================
