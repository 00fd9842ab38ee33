------------------------------ MODULE MCProxy ------------------------------
(* Small instances of Proxy for TLC.                                       *)
EXTENDS Proxy, TLC

CONSTANTS d1, d2, n1, r1, r2

MCKinds == {d1 :> "local" @@ d2 :> k : k \in {"remote", "adopted"}}
=============================================================================
