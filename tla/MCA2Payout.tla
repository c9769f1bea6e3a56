----------------------------- MODULE MCA2Payout -----------------------------
(***************************************************************************)
(* Small instances of A2Payout.                                            *)
(***************************************************************************)
EXTENDS A2Payout
=============================================================================
