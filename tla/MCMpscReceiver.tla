---------------------------- MODULE MCMpscReceiver ----------------------------
(* Instances of MpscReceiver for model checking. *)
EXTENDS MpscReceiver, TLC

\* Two lanes registered with different capacities.
MixedCapacity == (0 :> 2) @@ (1 :> 1)

\* Two lanes, one of which has room for windows of several values.
NarrowCapacity == (0 :> 3) @@ (1 :> 1)
WideCapacity == (0 :> 4) @@ (1 :> 1)
=============================================================================
