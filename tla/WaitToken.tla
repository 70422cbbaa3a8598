------------------------------ MODULE WaitToken ------------------------------
(***************************************************************************)
(* What a wait cell promises to the channel that uses it, without its      *)
(* word, mutex and condition variable: a waiter is out, registered, or     *)
(* registered and notified since.  WaitCell implements it.                 *)
(***************************************************************************)

VARIABLE token   \* "out", "registered" or "notified"

Init == token = "out"

Register == token = "out" /\ token' = "registered"

\* A notification reaches a registered waiter and nobody else.
Notified(t) == IF t = "out" THEN "out" ELSE "notified"
Notify == token' = Notified(token)

\* The waiter leaves: notified, timed out, woken for no reason, or because its
\* recheck succeeded.
Leave == token # "out" /\ token' = "out"

Next == Register \/ Notify \/ Leave

Spec == Init /\ [][Next]_token
=============================================================================
