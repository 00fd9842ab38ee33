------------------------------ MODULE MCRebake ------------------------------
(* Small instances of Rebake for TLC.                                      *)
EXTENDS Rebake, TLC

CONSTANTS k1, k2, r1, r2, d1

Symm == Permutations(Keys) \cup Permutations(Requests)
=============================================================================
