---------------------------- MODULE MCReconcile ----------------------------
(* Small instances of Reconcile for TLC.                                   *)
EXTENDS Reconcile, TLC

CONSTANTS d1, d2, w1, w2
=============================================================================
