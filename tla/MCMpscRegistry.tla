---------------------------- MODULE MCMpscRegistry ----------------------------
(* MpscRegistry for TLC: the handles of a small instance. *)
EXTENDS MpscRegistry

CONSTANTS s1, s2, s3
=============================================================================
