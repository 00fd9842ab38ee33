------------------------------ MODULE MCFleet ------------------------------
(* A small instance of the fleet with its cells and drift, for TLC.        *)
EXTENDS Drift, TLC

CONSTANTS h0, h1, a1, t1, d1, d2, c1, c2, r1, r2

=============================================================================
