---------------------------- MODULE MCBillboards ----------------------------
(* Billboards for TLC. *)
EXTENDS Billboards
=============================================================================
