---------------------------- MODULE MCLaneTeardown ----------------------------
(* Instances of LaneTeardown for TLC; the constants are in the .cfg files. *)
EXTENDS LaneTeardown
=============================================================================
