----------------------------- MODULE MCAccounts -----------------------------
(* Small instances of Accounts for TLC.                                    *)
EXTENDS Accounts, TLC

CONSTANTS u1, u2, k1, k2, k3, r1, r2

(* Links are minted in any order and requests run in any slot.             *)
Symm == Permutations(Links) \cup Permutations(Requests) \cup Permutations(Emails)
=============================================================================
