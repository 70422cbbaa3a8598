----------------------------- MODULE MCBlockingOp -----------------------------
(* An instance of BlockingOp for TLC; the constants are in MCBlockingOp.cfg. *)
EXTENDS BlockingOp
=============================================================================
