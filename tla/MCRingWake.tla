---------------------------- MODULE MCRingWake ----------------------------
(* One ring made by spsc or by async_spsc: the variables of the other kind   *)
(* keep their initial values.                                                *)
EXTENDS YRingHints, YRingAsync

vars == <<flavour, ringVars, stores, waiting, signal, pc, op, hintVars, asyncVars>>

Init ==
  \/ HintInit /\ AsyncUnused
  \/ AsyncInit /\ HintUnused

Step(s) ==
  \/ HintStep(s) /\ UNCHANGED asyncVars
  \/ AsyncStep(s) /\ UNCHANGED hintVars

Next ==
  \/ HintCall /\ UNCHANGED asyncVars
  \/ AsyncCall /\ UNCHANGED hintVars
  \/ \E s \in Sides : Step(s)

Spec == Init /\ [][Next]_vars /\ \A s \in Sides : WF_vars(Step(s))

\* A side that sleeps although there is what it waits for gets to run again, if
\* calls that were begun go on and a signal ends a sleep: by a hint its peer acts
\* on, or by a waker its peer takes.
WakesUp == \A s \in Sides : (pc[s] = "asleep" /\ Wanted(s)) ~> (pc[s] # "asleep")
=============================================================================
