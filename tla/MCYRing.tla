------------------------------ MODULE MCYRing ------------------------------
(* Model-checking instance of YRing: two slots and eight cursor values, so that *)
(* every cursor wraps, and two values that tell the order apart.              *)
EXTENDS YRing
=============================================================================
