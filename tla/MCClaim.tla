------------------------------ MODULE MCClaim ------------------------------
(* Small instances of Claim: one urgent task among routine ones of which the *)
(* first is the oldest.                                                      *)
EXTENDS Claim

CONSTANTS t1, t2, t3

MCRank    == [t \in Tasks |-> IF t = t3 THEN 1 ELSE 0]
MCCreated == [t \in Tasks |-> IF t = t1 THEN 0 ELSE 1]
=============================================================================
