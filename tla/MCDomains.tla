----------------------------- MODULE MCDomains -----------------------------
(* A small instance of Domains for TLC.                                    *)
EXTENDS Domains, TLC

CONSTANTS d1, n1, c1, x1, x2, g1

=============================================================================
