----------------------------- MODULE MCTenancy -----------------------------
(* Small instances of Tenancy for TLC.                                     *)
EXTENDS Tenancy, TLC

CONSTANTS u1, u2, t1, t2, p1, p2, d1, r1, r2
=============================================================================
