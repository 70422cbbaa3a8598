---------------------------- MODULE MCMpscChannel ----------------------------
(* Instances of MpscChannel for TLC: the layout of the ready index and the load. *)
EXTENDS MpscChannel

CONSTANTS l1, l2

\* Both lanes on the page of one group.  The lanes of another group have left.
OnePage == [l \in Lanes |-> 1]
TwoGroups == [p \in 1..2 |-> p]

\* One sender outruns its ring, the other is only dropped.
BusyAndSilent == [l \in Lanes |-> IF l = l1 THEN 3 ELSE 0]
=============================================================================
