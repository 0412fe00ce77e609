----------------------------- MODULE MCLedgerReads -----------------------------
(***************************************************************************)
(* A small instance of LedgerReads for TLC.                                *)
(***************************************************************************)
EXTENDS LedgerReads

MCAmounts == {1, -2}
MCInitials == {0, 2}
MCLimits == {-1, 1, 9}
=============================================================================
