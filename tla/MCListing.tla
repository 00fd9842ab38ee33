----------------------------- MODULE MCListing -----------------------------
(* Small instances of Listing for TLC.                                     *)
EXTENDS Listing, TLC

MCRows == 1 .. 4
=============================================================================
