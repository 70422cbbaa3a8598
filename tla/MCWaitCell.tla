------------------------------ MODULE MCWaitCell ------------------------------
(* An instance of WaitCell for TLC; the constants are in MCWaitCell.cfg. *)
EXTENDS WaitCell
=============================================================================
