----------------------------- MODULE MCUpgrade -----------------------------
(* Small instances of Upgrade for TLC.                                     *)
EXTENDS Upgrade, TLC

CONSTANTS w1, w2, r1, r2

Symm == Permutations(Workers) \cup Permutations(Requests)
=============================================================================
