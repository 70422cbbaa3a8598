--------------------------- MODULE WaitCellProofs ---------------------------
(* Proofs of the safety properties of WaitCell, for any set of notifiers. *)
EXTENDS WaitCell, TLAPS

\* A new cell satisfies the invariant.
LEMMA InitInv == Init => IInv
BY NotifiersAssumption
   DEF Init, IInv, TypeOK, RegisteredOnce, NoLostWakeup, MutexInv, SnapshotInv

\* Every step of the waiter and of a notifier keeps the invariant.  The case
\* that matters for NoLostWakeup: a notifier that advances the generation past
\* the snapshot of a registered waiter finds WAITING, so it goes on to the
\* mutex; and it can only have signalled too early when the waiter had not
\* compared yet, in which case the comparison fails.
LEMMA NextInv == IInv /\ [Next]_vars => IInv'
<1> SUFFICES ASSUME IInv, [Next]_vars PROVE IInv'
  OBVIOUS
<1> USE NotifiersAssumption
    DEF IInv, TypeOK, RegisteredOnce, NoLostWakeup, MutexInv, SnapshotInv, taskVars, cellVars
<1>1. CASE Prepare
  BY <1>1 DEF Prepare
<1>2. CASE WaitLock
  BY <1>2 DEF WaitLock
<1>3. CASE Compare
  BY <1>3 DEF Compare
<1>4. CASE Sleep
  BY <1>4 DEF Sleep
<1>5. CASE WakeUnsignalled
  BY <1>5 DEF WakeUnsignalled
<1>6. CASE Relock
  BY <1>6 DEF Relock
<1>7. CASE Unregister
  BY <1>7 DEF Unregister
<1>8. ASSUME NEW n \in Notifiers, Notify(n) PROVE IInv'
  BY <1>8 DEF Notify
<1>9. ASSUME NEW n \in Notifiers, NotifyLock(n) PROVE IInv'
  BY <1>9 DEF NotifyLock
<1>10. ASSUME NEW n \in Notifiers, Signal(n) PROVE IInv'
  BY <1>10 DEF Signal
<1>11. ASSUME NEW n \in Notifiers, WakeTask(n) PROVE IInv'
  BY <1>11 DEF WakeTask
<1>12. CASE Task
  BY <1>12 DEF Task, RegisterAsync, CancelAsync, StartPoll
<1>13. CASE UNCHANGED vars
  BY <1>13 DEF vars
<1> QED
  BY <1>1, <1>2, <1>3, <1>4, <1>5, <1>6, <1>7, <1>8, <1>9, <1>10, <1>11, <1>12, <1>13
     DEF Next, Waiter, Notifier

\* The invariant holds in every reachable state.
THEOREM Invariance == Spec => []IInv
BY InitInv, NextInv, PTL DEF Spec

\* The word and the threads' places have their types.
THEOREM TypeCorrect == Spec => []TypeOK
<1>1. IInv => TypeOK
  BY DEF IInv
<1> QED
  BY <1>1, Invariance, PTL

\* The debug_assert of prepare never fails.
THEOREM PrepareAssertion == Spec => []RegisteredOnce
<1>1. IInv => RegisteredOnce
  BY DEF IInv
<1> QED
  BY <1>1, Invariance, PTL

\* No notification is lost between a registration and the sleep.
THEOREM WakeupNotLost == Spec => []NoLostWakeup
<1>1. IInv => NoLostWakeup
  BY DEF IInv
<1> QED
  BY <1>1, Invariance, PTL

\* The cell implements the token that MpscChannel parks on: a registration
\* starts un-notified, every notification that finds it registered reaches it
\* for good, and only the waiter takes it away.
THEOREM Refinement == Spec => ImplementsToken
<1>1. Init => abstract!Init
  BY DEF Init, abstract!Init, waitToken
<1>2. IInv /\ [Next]_vars => [abstract!Next]_waitToken
  <2> SUFFICES ASSUME IInv, [Next]_vars PROVE [abstract!Next]_waitToken
    OBVIOUS
  <2> USE DEF waitToken
  <2>1. CASE Prepare
    BY <2>1 DEF Prepare, abstract!Next, abstract!Register
  <2>2. CASE WaitLock \/ Compare \/ Sleep \/ WakeUnsignalled \/ Relock
    BY <2>2 DEF WaitLock, Compare, Sleep, WakeUnsignalled, Relock
  <2>3. CASE Unregister
    BY <2>3 DEF Unregister, abstract!Next, abstract!Leave
  <2>4. ASSUME NEW n \in Notifiers, Notify(n) PROVE [abstract!Next]_waitToken
    BY <2>4 DEF Notify, IInv, TypeOK, SnapshotInv,
                abstract!Next, abstract!Notify, abstract!Notified
  <2>5. ASSUME NEW n \in Notifiers, WakeTask(n) \/ NotifyLock(n) \/ Signal(n)
        PROVE [abstract!Next]_waitToken
    BY <2>5 DEF WakeTask, NotifyLock, Signal
  <2>6. CASE Task
    BY <2>6 DEF Task, RegisterAsync, CancelAsync, StartPoll, cellVars
  <2>7. CASE UNCHANGED vars
    BY <2>7 DEF vars
  <2> QED
    BY <2>1, <2>2, <2>3, <2>4, <2>5, <2>6, <2>7 DEF Next, Waiter, Notifier
<1> QED
  BY <1>1, <1>2, Invariance, PTL DEF Spec, ImplementsToken, abstract!Spec
=============================================================================
