------------------------- MODULE LaneTeardownProofs -------------------------
(***************************************************************************)
(* The teardown handoff is correct for every capacity and any number of    *)
(* sends, under both policies.                                             *)
(***************************************************************************)
EXTENDS LaneTeardown, TLAPS

\* A new lane satisfies the invariant.
LEMMA InitInv == Init => IInv
BY CapAssumption, MaxSendsAssumption
DEF Init, IInv, TypeOK, CountersOK, Sides, SenderLabels, ReceiverLabels, OrderInv,
    AccountInv, PublishedInv, OneOwner, ReceiverOwns, SenderOwns, HandoffInv, InSend,
    DrainInv, CreditInv, NoRoomFromClosing, Coordinated

\* Every step preserves the invariant.
LEMMA NextInv == IInv /\ [Next]_vars => IInv'
<1> SUFFICES ASSUME IInv, [Next]_vars PROVE IInv'
  OBVIOUS
<1> USE CapAssumption, MaxSendsAssumption
    DEF IInv, TypeOK, CountersOK, Sides, SenderLabels, ReceiverLabels, OrderInv,
    AccountInv, PublishedInv, OneOwner, ReceiverOwns, SenderOwns, HandoffInv, InSend,
    DrainInv, CreditInv, NoRoomFromClosing, Coordinated, Goto, ringVars, cleanupVars, history
<1>0. policy' = policy
  BY DEF Next, vars
<1> USE <1>0
<1>1. CASE StartSend
  BY <1>1 DEF StartSend, IsConsumerDropped
<1>2. CASE Begin
  <2>1. CASE state = {}
    BY <1>2, <2>1 DEF Begin
  <2>2. CASE state # {}
    <3>1. pc' = [pc EXCEPT !["sender"] = "idle"] /\ UNCHANGED state
      BY <1>2, <2>2, Zenon DEF Begin
    <3>2. TypeOK' /\ OneOwner' /\ HandoffInv'
      BY <1>2, <2>2, <3>1 DEF Begin
    <3> QED
      BY <1>2, <2>2, <3>1, <3>2 DEF Begin
  <2> QED
    BY <2>1, <2>2
<1>3. CASE Push
  <2>1. CASE pushed - released < Cap
    BY <1>3, <2>1 DEF Push
  <2>2. CASE ~(pushed - released < Cap) /\ Coordinated
    BY <1>3, <2>2 DEF Push, AfterSend
  <2>3. CASE ~(pushed - released < Cap) /\ ~Coordinated
    <3>1. pc' = [pc EXCEPT !["sender"] = "idle"] /\ UNCHANGED pushed
      BY <1>3, <2>3 DEF Push, AfterSend
    <3> QED
      BY <1>3, <2>3, <3>1 DEF Push
  <2> QED
    BY <2>1, <2>2, <2>3
<1>4. CASE Flush
  <2>1. CASE Coordinated
    BY <1>4, <2>1 DEF Flush, AfterSend
  <2>2. CASE ~Coordinated
    <3>1. pc' = [pc EXCEPT !["sender"] = "idle"]
      BY <1>4, <2>2 DEF Flush, AfterSend
    <3> QED
      BY <1>4, <2>2, <3>1 DEF Flush
  <2> QED
    BY <2>1, <2>2
<1>5. CASE GuardDrop
  BY <1>5 DEF GuardDrop
<1>6. CASE GuardTake
  BY <1>6 DEF GuardTake
<1>7. CASE DiscardPrefetch("sender", "discard", "discarding")
  BY <1>7 DEF DiscardPrefetch
<1>8. CASE DiscardPop("sender", "discarding")
  BY <1>8 DEF DiscardPop
<1>9. CASE DiscardDone("sender", "discarding", "dropping")
  BY <1>9 DEF DiscardDone
<1>10. CASE DropConsumer("sender", "dropping", "idle")
  BY <1>10 DEF DropConsumer
<1>11. CASE PushDeferred
  BY <1>11 DEF PushDeferred
<1>12. CASE FlushDeferred
  BY <1>12 DEF FlushDeferred
<1>13. CASE SenderClose
  BY <1>13 DEF SenderClose
<1>14. CASE SenderGone
  <2>1. CASE "consumer" \in holders
    BY <1>14, <2>1 DEF SenderGone
  <2>2. CASE "consumer" \notin holders
    <3>1. holders' = {} /\ holders # {}
      BY <1>14, <2>2 DEF SenderGone
    <3>2. delivered + destroyed' = pushed
      BY <1>14, <2>2, <3>1 DEF SenderGone
    <3>3. TypeOK' /\ OneOwner' /\ HandoffInv' /\ PublishedInv'
      BY <1>14, <2>2, <3>1 DEF SenderGone
    <3>4. AccountInv' /\ DrainInv'
      BY <1>14, <2>2, <3>1, <3>2, Zenon DEF SenderGone
    <3>5. OrderInv' /\ CreditInv' /\ NoRoomFromClosing'
      BY <1>14, <2>2, <3>1 DEF SenderGone
    <3> QED
      BY <3>3, <3>4, <3>5, Zenon
  <2> QED
    BY <2>1, <2>2
<1>15. CASE Prefetch
  BY <1>15 DEF Prefetch
<1>16. CASE Pop
  BY <1>16 DEF Pop
<1>17. CASE Release
  BY <1>17 DEF Release
<1>18. CASE StartClose
  BY <1>18 DEF StartClose
<1>19. CASE DiscardPrefetch("receiver", "discard", "discarding")
  BY <1>19 DEF DiscardPrefetch
<1>20. CASE DiscardPop("receiver", "discarding")
  BY <1>20 DEF DiscardPop
<1>21. CASE DiscardDone("receiver", "discarding", "lock")
  BY <1>21 DEF DiscardDone
<1>22. CASE CloseLock
  BY <1>22 DEF CloseLock
<1>23. CASE CloseAnnounce
  BY <1>23 DEF CloseAnnounce
<1>24. CASE CloseUnlock
  BY <1>24 DEF CloseUnlock
<1>25. CASE DiscardPrefetch("receiver", "rediscard", "rediscarding")
  BY <1>25 DEF DiscardPrefetch
<1>26. CASE DiscardPop("receiver", "rediscarding")
  BY <1>26 DEF DiscardPop
<1>27. CASE DiscardDone("receiver", "rediscarding", "dropping")
  BY <1>27 DEF DiscardDone
<1>28. CASE DropConsumer("receiver", "dropping", "closed")
  <2>1. CASE "producer" \in holders
    <3>1. holders' # {} /\ holders # {}
      BY <1>28, <2>1 DEF DropConsumer
    <3> QED
      BY <1>28, <2>1, <3>1 DEF DropConsumer
  <2>2. CASE "producer" \notin holders
    <3>1. holders' = {} /\ holders # {}
      BY <1>28, <2>2 DEF DropConsumer
    <3>2. delivered + destroyed' = pushed
      BY <1>28, <2>2, <3>1 DEF DropConsumer
    <3>3. TypeOK' /\ OneOwner' /\ HandoffInv' /\ PublishedInv'
      BY <1>28, <2>2, <3>1 DEF DropConsumer
    <3>4. AccountInv' /\ DrainInv'
      BY <1>28, <2>2, <3>1, <3>2, Zenon DEF DropConsumer
    <3>5. OrderInv' /\ CreditInv' /\ NoRoomFromClosing'
      BY <1>28, <2>2, <3>1 DEF DropConsumer
    <3> QED
      BY <3>3, <3>4, <3>5, Zenon
  <2> QED
    BY <2>1, <2>2
<1>29. CASE UNCHANGED vars
  BY <1>29 DEF vars
<1> QED
  BY Zenon, <1>1, <1>2, <1>3, <1>4, <1>5, <1>6, <1>7, <1>8, <1>9, <1>10, <1>11, <1>12, <1>13,
     <1>14, <1>15, <1>16, <1>17, <1>18, <1>19, <1>20, <1>21, <1>22, <1>23, <1>24, <1>25,
     <1>26, <1>27, <1>28, <1>29
  DEF Next, Send, SenderDrop, Close

\* The invariant holds in every reachable state.
THEOREM Invariance == Spec => []IInv
BY InitInv, NextInv, PTL DEF Spec

\* The yring consumer has exactly one owner at any time: the receiver, the
\* handoff slot, the send that found CLOSED, or nobody once it is dropped.
THEOREM SingleOwner == Spec => []OneOwner
<1>1. IInv => OneOwner
  BY DEF IInv
<1> QED
  BY <1>1, Invariance, PTL

\* Coordinated teardown reclaims every payload while the sender still lives.
THEOREM Reclaimed == Spec => []ReclaimedWithoutSender
<1>1. IInv => ReclaimedWithoutSender
  <2> SUFFICES ASSUME IInv, Coordinated, pc["receiver"] = "closed",
                      pc["sender"] \in {"idle", "begin"}
               PROVE  delivered + destroyed = pushed
    BY DEF ReclaimedWithoutSender
  <2>1. "consumer" \notin holders
    BY DEF IInv, OneOwner, ReceiverOwns, SenderOwns, HandoffInv, InSend
  <2>2. popped = pushed
    BY <2>1 DEF IInv, DrainInv
  <2> QED
    BY <2>2 DEF IInv, AccountInv
<1> QED
  BY <1>1, Invariance, PTL

\* No payload is destroyed or delivered twice, and none is left once both ends
\* are gone, under either policy.
THEOREM EveryPayloadOnce == Spec => []NothingLeftBehind
<1>1. IInv => NothingLeftBehind
  <2> SUFFICES ASSUME IInv PROVE NothingLeftBehind
    OBVIOUS
  <2>1. delivered + destroyed <= pushed
    BY DEF IInv, TypeOK, CountersOK, OrderInv, AccountInv
  <2>2. ASSUME pc["sender"] = "gone", pc["receiver"] = "closed"
        PROVE  delivered + destroyed = pushed
    <3>1. "producer" \notin holders
      BY <2>2 DEF IInv, HandoffInv
    <3>2. "consumer" \notin holders
      BY <2>2 DEF IInv, OneOwner, ReceiverOwns, SenderOwns, HandoffInv, InSend
    <3>3. holders = {}
      BY <3>1, <3>2 DEF IInv, TypeOK
    <3> QED
      BY <3>3 DEF IInv, AccountInv
  <2> QED
    BY <2>1, <2>2 DEF NothingLeftBehind
<1> QED
  BY <1>1, Invariance, PTL

\* No send succeeds solely because the receiver is closing.
THEOREM ClosingFreesNothing == Spec => []NoRoomFromClosing
<1>1. IInv => NoRoomFromClosing
  BY DEF IInv
<1> QED
  BY <1>1, Invariance, PTL
=============================================================================
