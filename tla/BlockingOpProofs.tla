-------------------------- MODULE BlockingOpProofs --------------------------
(***************************************************************************)
(* Proof that no operation, blocking or asynchronous, is left waiting for  *)
(* what is there, that a blocking one times out only after its deadline,   *)
(* and that no waker outlives an asynchronous one, for any set of peers.   *)
(***************************************************************************)
EXTENDS BlockingOp, TLAPS

\* The steps of the wait cell keep its invariant, as in WaitCellProofs.
LEMMA CellNextInv == cell!IInv /\ [cell!Next]_cellVars => cell!IInv'
<1> SUFFICES ASSUME cell!IInv, [cell!Next]_cellVars PROVE cell!IInv'
  OBVIOUS
<1> USE PeersAssumption
    DEF cell!IInv, cell!TypeOK, cell!RegisteredOnce, cell!NoLostWakeup, cell!MutexInv,
        cell!SnapshotInv, cell!taskVars, cell!cellVars
<1>1. CASE cell!Prepare
  BY <1>1 DEF cell!Prepare
<1>2. CASE cell!WaitLock
  BY <1>2 DEF cell!WaitLock
<1>3. CASE cell!Compare \/ cell!Sleep
  BY <1>3 DEF cell!Compare, cell!Sleep
<1>4. CASE cell!WakeUnsignalled \/ cell!Relock
  BY <1>4 DEF cell!WakeUnsignalled, cell!Relock
<1>5. CASE cell!Unregister
  BY <1>5 DEF cell!Unregister
<1>6. ASSUME NEW n \in Peers, cell!Notify(n) PROVE cell!IInv'
  BY <1>6 DEF cell!Notify
<1>7. ASSUME NEW n \in Peers, cell!NotifyLock(n) PROVE cell!IInv'
  BY <1>7 DEF cell!NotifyLock
<1>8. ASSUME NEW n \in Peers, cell!Signal(n) PROVE cell!IInv'
  BY <1>8 DEF cell!Signal
<1>9. ASSUME NEW n \in Peers, cell!WakeTask(n) PROVE cell!IInv'
  BY <1>9 DEF cell!WakeTask
<1>10. CASE cell!Task
  BY <1>10 DEF cell!Task, cell!RegisterAsync, cell!CancelAsync, cell!StartPoll
<1>11. CASE UNCHANGED cellVars
  BY <1>11 DEF cellVars
<1> QED
  BY <1>1, <1>2, <1>3, <1>4, <1>5, <1>6, <1>7, <1>8, <1>9, <1>10, <1>11
     DEF cell!Next, cell!Waiter, cell!Notifier

\* Every step of the loop and of the peers is a step of the cell or leaves the
\* cell alone, so that what WaitCell promises holds here.
LEMMA CellStep == [Next]_vars => [cell!Next]_cellVars
<1> SUFFICES ASSUME [Next]_vars PROVE [cell!Next]_cellVars
  OBVIOUS
<1> USE DEF cell!Next, cell!Waiter, cell!Notifier, cell!Task
<1>1. CASE Call \/ CallBatch \/ DeadlinePasses \/ SpinAttempt \/ SpinStop \/ Attempt \/ Recheck
           \/ NotifyDeferred \/ LastAttempt
  BY <1>1 DEF Call, CallBatch, DeadlinePasses, SpinAttempt, SpinStop, Attempt, Recheck,
              NotifyDeferred, LastAttempt, Try
<1>2. CASE Register \/ DropRegistration \/ Remaining \/ Park \/ WaitReturns
           \/ SpuriousWake \/ TimeoutWake
  BY <1>2 DEF Register, DropRegistration, Remaining, Park, WaitReturns,
              SpuriousWake, TimeoutWake
<1>3. ASSUME NEW p \in Peers, Peer(p) PROVE [cell!Next]_cellVars
  BY <1>3 DEF Peer, Provide, NotifyPeer, FinishNotify
<1>4. CASE PollAttempt \/ PollAgain
  BY <1>4 DEF PollAttempt, PollAgain, TryPoll
<1>5. CASE CallAsync \/ LeaveWaker \/ PollWoken \/ PollUnasked \/ PollReady \/ Cancel
  BY <1>5 DEF CallAsync, LeaveWaker, PollWoken, PollUnasked, Repoll, PollReady, Cancel
<1>6. CASE UNCHANGED vars
  BY <1>6 DEF vars
<1> QED
  BY <1>1, <1>2, <1>3, <1>4, <1>5, <1>6 DEF Next, Run, Polls

\* The invariant holds initially.
LEMMA InitInv == Init => IInv
BY PeersAssumption, MaxItemsAssumption, MaxChoresAssumption
   DEF Init, IInv, TypeOK, PlacesInv, PendingInv, TimeoutIsLate, DeadlineInv, cell!Init,
       cell!IInv, cell!TypeOK, cell!RegisteredOnce, cell!NoLostWakeup, cell!MutexInv,
       cell!SnapshotInv, NoStaleWaker, WakerInv, OwedInv

\* Every step keeps the invariant.  PendingInv is the heart: what a peer
\* provides after the fruitless recheck is announced by a generation the
\* snapshot does not have, or by a peer that has yet to notify.
LEMMA NextInv == IInv /\ [Next]_vars => IInv'
<1> SUFFICES ASSUME IInv, [Next]_vars PROVE IInv'
  OBVIOUS
<1>1. cell!IInv'
  BY CellNextInv, CellStep DEF IInv
<1> USE MaxItemsAssumption, <1>1
    DEF IInv, TypeOK, PlacesInv, PendingInv, TimeoutIsLate, DeadlineInv, NoStaleWaker,
        WakerInv, OwedInv, cell!IInv, cell!TypeOK, cellVars, endpointVars, runVars, cell!taskVars,
        cell!cellVars
<1> HIDE DEF cell!IInv
<1>2. CASE Call
  BY <1>2 DEF Call, cell!IInv
<1>3. CASE DeadlinePasses
  BY <1>3 DEF DeadlinePasses
<1>4. CASE SpinAttempt
  BY <1>4 DEF SpinAttempt, Try
<1>5. CASE SpinStop
  BY <1>5 DEF SpinStop
<1>6. CASE Attempt
  BY <1>6 DEF Attempt, Try
<1>7. CASE Register
  BY <1>7 DEF Register, cell!Prepare
<1>8. CASE Recheck
  BY <1>8 DEF Recheck
<1>9. CASE DropRegistration
  BY <1>9 DEF DropRegistration, cell!Unregister
<1>10. CASE NotifyDeferred
  BY <1>10 DEF NotifyDeferred
<1>11. CASE Remaining
  BY <1>11 DEF Remaining, cell!Unregister
<1>12. CASE Park
  BY <1>12 DEF Park, cell!WaitLock, cell!Compare, cell!Sleep, cell!Relock
<1>13. CASE SpuriousWake
  BY <1>13 DEF SpuriousWake, cell!WakeUnsignalled
<1>14. CASE TimeoutWake
  BY <1>14 DEF TimeoutWake, cell!WakeUnsignalled
<1>15. CASE WaitReturns
  BY <1>15 DEF WaitReturns, cell!Unregister
<1>16. CASE LastAttempt
  BY <1>16 DEF LastAttempt, Try
<1>17. ASSUME NEW p \in Peers, Provide(p) PROVE IInv'
  BY <1>17 DEF Provide
<1>18. ASSUME NEW p \in Peers, NotifyPeer(p) PROVE IInv'
  BY <1>18 DEF NotifyPeer, cell!Notify
<1>19. ASSUME NEW p \in Peers, FinishNotify(p) PROVE IInv'
  BY <1>19 DEF FinishNotify, cell!WakeTask, cell!NotifyLock, cell!Signal
<1>20. CASE UNCHANGED vars
  BY <1>20 DEF vars
<1>21. CASE CallAsync
  BY <1>21 DEF CallAsync, cell!StartPoll
<1>22. CASE PollAttempt \/ PollAgain
  BY <1>22 DEF PollAttempt, PollAgain, TryPoll
<1>23. CASE LeaveWaker
  BY <1>23 DEF LeaveWaker, cell!RegisterAsync
<1>24. CASE PollWoken \/ PollUnasked
  BY <1>24 DEF PollWoken, PollUnasked, Repoll, cell!StartPoll
<1>25. CASE PollReady \/ Cancel
  BY <1>25 DEF PollReady, Cancel, cell!CancelAsync
<1>26. CASE CallBatch
  BY <1>26 DEF CallBatch, cell!IInv
<1> QED
  BY Zenon, <1>2, <1>3, <1>4, <1>5, <1>6, <1>7, <1>8, <1>9, <1>10, <1>11, <1>12, <1>13,
     <1>14, <1>15, <1>16, <1>17, <1>18, <1>19, <1>20, <1>21, <1>22, <1>23, <1>24, <1>25,
     <1>26
     DEF Next, Run, Polls, Peer

\* The invariant holds in every reachable state.
THEOREM Invariance == Spec => []IInv
BY InitInv, NextInv, PTL DEF Spec

\* No operation sleeps or is pending on an item nobody is about to announce.
THEOREM NotStuck == Spec => []NeverStuck
<1>1. IInv => NeverStuck
  BY DEF IInv, TypeOK, cell!TypeOK, PlacesInv, PendingInv, WakerInv, cell!IInv,
         cell!NoLostWakeup, NeverStuck
<1> QED
  BY <1>1, Invariance, PTL

\* No waker is left in the cell when its operation is over.
THEOREM WakerReturned == Spec => []NoStaleWaker
<1>1. IInv => NoStaleWaker
  BY DEF IInv
<1> QED
  BY <1>1, Invariance, PTL

\* An operation times out only after its deadline.
THEOREM TimeoutNotEarly == Spec => []TimeoutIsLate
<1>1. IInv => TimeoutIsLate
  BY DEF IInv
<1> QED
  BY <1>1, Invariance, PTL

\* Only the recheck and what follows the drop of the registration touch the
\* notifications held back, and the recheck starts with none.
LEMMA DeferredStep == IInv /\ [Next]_vars => (owed' < owed => wpc = "out")
<1> SUFFICES ASSUME IInv, [Next]_vars, owed' < owed PROVE wpc = "out"
  OBVIOUS
<1>1. owed \in {0, 1} /\ owed' \in {0, 1}
  BY NextInv DEF IInv, TypeOK
<1>2. owed' # owed
  BY <1>1
<1>3. CASE Recheck
  BY <1>1, <1>3 DEF Recheck, IInv, OwedInv
<1>4. CASE NotifyDeferred
  BY <1>4 DEF NotifyDeferred, IInv, PlacesInv
<1>6. CASE Run /\ ~Recheck /\ ~NotifyDeferred
  <2>1. owed' = owed
    BY <1>6, Zenon DEF Run, Polls, SpinStop, Attempt, Try, Register, DropRegistration, Remaining,
      Park, WaitReturns, LastAttempt, PollAttempt, LeaveWaker, PollAgain, TryPoll, PollWoken,
      Repoll, PollReady, runVars
  <2> QED
    BY <1>2, <2>1
<1>7. ASSUME NEW p \in Peers, Peer(p) PROVE owed' = owed
  BY <1>7, Zenon DEF Peer, Provide, NotifyPeer, FinishNotify, runVars
<1>8. CASE ~Run
  <2>1. owed' = owed
    BY <1>7, <1>8, Zenon DEF Next, Call, SpinAttempt, Try, DeadlinePasses, SpuriousWake,
      TimeoutWake, CallAsync, CallBatch, PollUnasked, Repoll, Cancel, runVars, vars
  <2> QED
    BY <1>2, <2>1
<1> QED
  BY <1>3, <1>4, <1>6, <1>8, Zenon

\* A notification held back is sent only once the registration has been dropped.
THEOREM DeferredUntilDropped == Spec => DeferredAfterDrop
<1>1. IInv /\ [Next]_vars => [owed' < owed => wpc = "out"]_vars
  BY DeferredStep, Zenon
<1> QED
  BY <1>1, Invariance, PTL DEF Spec, DeferredAfterDrop
=============================================================================
