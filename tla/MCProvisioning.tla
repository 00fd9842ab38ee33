--------------------------- MODULE MCProvisioning ---------------------------
(* Small instances of Provisioning for TLC.                                *)
EXTENDS Provisioning, TLC
CONSTANTS d1, d2, d3, w1, w2, q1, q2

Symmetry == Permutations(Workers) \cup Permutations(Requests)
=============================================================================
