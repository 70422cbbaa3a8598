-------------------------- MODULE MpmcChannelProofs --------------------------
(***************************************************************************)
(* Proofs about the MPMC channel, for any number of senders, receivers,    *)
(* slots and pages: the token of a lane is in one place (OneToken), no     *)
(* value and no queued lane is out of sight (NothingHidden), and no sender *)
(* sleeps beside slots that nobody will tell it of (SenderNotStranded).    *)
(***************************************************************************)
EXTENDS MpmcChannelLemmas

\* Two queues of different lanes make one.
LEMMA ConcatRange ==
  ASSUME NEW S, NEW q \in Seq(S), NEW m \in Seq(S), IsInjective(q), IsInjective(m),
         \A s : ~(s \in Range(q) /\ s \in Range(m))
  PROVE  /\ q \o m \in Seq(S) /\ IsInjective(q \o m)
         /\ q \o m # << >> => q # << >> \/ m # << >>
         /\ \A s : s \in Range(q \o m) <=> s \in Range(q) \/ s \in Range(m)
<1> DEFINE c == q \o m
<1>1. /\ c \in Seq(S) /\ Len(q) \in Nat /\ Len(m) \in Nat /\ Len(c) = Len(q) + Len(m)
      /\ DOMAIN q = 1 .. Len(q) /\ DOMAIN m = 1 .. Len(m) /\ DOMAIN c = 1 .. (Len(q) + Len(m))
      /\ \A i \in 1 .. Len(q) : c[i] = q[i]
      /\ \A i \in 1 .. Len(m) : c[Len(q) + i] = m[i]
  OBVIOUS
<1>2. c # << >> => q # << >> \/ m # << >>
  OBVIOUS
<1> HIDE DEF c
<1>3. \A i \in DOMAIN c : /\ i <= Len(q) => i \in DOMAIN q /\ c[i] = q[i]
                          /\ ~(i <= Len(q)) => i - Len(q) \in DOMAIN m /\ c[i] = m[i - Len(q)]
  <2> SUFFICES ASSUME NEW i \in 1 .. (Len(q) + Len(m))
               PROVE  /\ i <= Len(q) => i \in 1 .. Len(q) /\ c[i] = q[i]
                      /\ ~(i <= Len(q)) => i - Len(q) \in 1 .. Len(m) /\ c[i] = m[i - Len(q)]
    BY <1>1, Zenon
  <2>1. CASE i <= Len(q)
    BY <1>1, <2>1
  <2>2. CASE ~(i <= Len(q))
    <3>1. i - Len(q) \in 1 .. Len(m) /\ Len(q) + (i - Len(q)) = i
      BY <1>1, <2>2
    <3> QED
      BY <1>1, <2>2, <3>1, Zenon
  <2> QED
    BY <2>1, <2>2
<1>4. \A s : s \in Range(c) => s \in Range(q) \/ s \in Range(m)
  BY <1>3, ZenonT(30) DEF Range
<1>5. \A i \in DOMAIN q : i \in DOMAIN c /\ c[i] = q[i]
  BY <1>1
<1>6. \A i \in DOMAIN m : Len(q) + i \in DOMAIN c /\ c[Len(q) + i] = m[i]
  BY <1>1
<1>7. \A s : s \in Range(q) \/ s \in Range(m) => s \in Range(c)
  BY <1>5, <1>6, ZenonT(30) DEF Range
<1>8. ASSUME NEW i \in DOMAIN c, NEW j \in DOMAIN c, c[i] = c[j]
      PROVE  i = j
  <2>1. CASE i <= Len(q) /\ j <= Len(q)
    BY <1>3, <1>8, <2>1, Zenon DEF IsInjective
  <2>2. CASE ~(i <= Len(q)) /\ ~(j <= Len(q))
    <3>1. i - Len(q) = j - Len(q)
      <4>1. /\ i - Len(q) \in DOMAIN m /\ j - Len(q) \in DOMAIN m
            /\ m[i - Len(q)] = m[j - Len(q)]
        BY <1>3, <1>8, <2>2
      <4> QED
        BY <4>1 DEF IsInjective
    <3> QED
      BY <1>1, <3>1
  <2>3. CASE (i <= Len(q)) /\ ~(j <= Len(q))
    <3>1. c[i] \in Range(q) /\ c[i] \in Range(m)
      BY <1>3, <1>8, <2>3, Zenon DEF Range
    <3> QED
      BY <3>1, Zenon
  <2>4. CASE ~(i <= Len(q)) /\ (j <= Len(q))
    <3>1. c[j] \in Range(q) /\ c[j] \in Range(m)
      BY <1>3, <1>8, <2>4, Zenon DEF Range
    <3> QED
      BY <3>1, Zenon
  <2> QED
    BY <2>1, <2>2, <2>3, <2>4, Zenon
<1>9. IsInjective(c)
  BY <1>8, Zenon DEF IsInjective
<1> QED
  BY <1>1, <1>2, <1>4, <1>7, <1>9, Zenon DEF c

\* retire_lane and return_lane: the receiver gives its lane back under the registry lock,
\* to its slot, or with its slot to the free ones when it is closed and drained.
LEMMA DisposeInv ==
  ASSUME IInv, NEW r \in Receivers, Dispose(r)
  PROVE  IInv'
<1> USE DEF IInv
<1>1. /\ rx[r].pc = "dispose" /\ rx[r].pc \in HasLane /\ Receiving(rx[r]) /\ lock' = None
      /\ UNCHANGED <<ring, closed, shut, pending, pageBits, readyGroup, workGroup, queue, slotOf>>
      /\ UNCHANGED <<fresh, sx, setup, receiverAlive, queues>>
  BY Zenon DEF Dispose, At, HasLane, TypeOK, peerSide, senderVars, ringVars, readyVars, workVars,
         countVars
<1>2. PICK l : l = rx[r].lane
  OBVIOUS
<1>3. /\ l \in Senders /\ l # None /\ Present(l) /\ Held(l) /\ ~InSlot(l) /\ ~InQueue(l)
      /\ \A q \in Receivers : rx[q].lane = l => q = r
  BY <1>1, <1>2, HeldLane, Zenon
<1>4. PICK k \in Slots : k = slotOf[l]
  BY <1>3, Zenon DEF TypeOK
<1>5. /\ slots \in [Slots -> Senders \union {None}] /\ free \in Seq(Slots) /\ None \notin Senders
      /\ None \notin Receivers
  BY HandleAssumption, Zenon DEF TypeOK, None
<1>6. slots[k] = None
  <2>1. ASSUME NEW s \in Senders, s = slots[k]
        PROVE  FALSE
    <3>1. slotOf[s] = k
      BY <1>5, <2>1, Zenon DEF TokenInv
    <3>2. InSlot(s) /\ Present(s)
      BY <2>1, <3>1, Zenon DEF InSlot, Present
    <3>3. s = l
      BY <1>3, <1>4, <2>1, <3>1, <3>2, Zenon DEF SlotInv
    <3> QED
      BY <1>3, <3>2, <3>3, Zenon
  <2> QED
    BY <1>5, <2>1
<1>7. lock = r /\ \A q \in Receivers \ {r} : rx[q].pc \notin {"reload", "dispose"}
  BY <1>1, Zenon DEF LockInv
<1>8. \A s \in Senders : InQueue(s)' <=> InQueue(s)
  BY <1>1, Zenon DEF InQueue
<1>9. ASSUME NEW f, rx' = [rx EXCEPT ![r] = f], Receiving(f), ~MakesClone(f), f.lane = None,
             f.released = rx[r].released, f.pc \in {"advance", "lastLane"}
      PROVE  /\ Moves(r) /\ rx'[r] = f
             /\ \A s \in Senders : Held(s)' <=> Held(s) /\ s # l
             /\ \A q, t \in Receivers : rx'[q].lane = rx'[t].lane /\ rx'[t].lane # None => q = t
  <2>1. Moves(r) /\ rx'[r] = f
    BY <1>1, <1>9, ReceiverFrame, Zenon
  <2>2. \A q \in Receivers : q # r => rx'[q].lane = rx[q].lane
    BY <2>1, Zenon DEF Moves
  <2>3. \A q, t \in Receivers : rx'[q].lane = rx'[t].lane /\ rx'[t].lane # None => q = t
    BY <1>9, <2>1, <2>2 DEF TokenInv
  <2>4. \A s \in Senders : Held(s)' <=> Held(s) /\ s # l
    BY <1>2, <1>3, <1>5, <1>9, <2>1, <2>2, Zenon DEF Held
  <2> QED
    BY <2>1, <2>3, <2>4
<1>10. ASSUME NEW f, rx' = [rx EXCEPT ![r] = f], Receiving(f), ~MakesClone(f),
              f.released = rx[r].released, f.pc \in {"advance", "lastLane"},
              slots' \in [Slots -> Senders \union {None}], free' \in Seq(Slots),
              TokenInv', SlotInv', LanesShown',
              \A s \in Senders : /\ Present(s)' => Present(s)
                                 /\ Present(s) => Present(s)' \/ (s \in closed /\ ring[s].unread = 0)
       PROVE  IInv'
  <2>1. /\ Moves(r) /\ rx'[r] = f /\ CloneInv'
        /\ DOMAIN rx' = Receivers /\ \A q \in Receivers : Receiving(rx'[q])
    BY <1>1, <1>10, ReceiverFrame, Zenon
  <2>2. TypeOK'
    BY <1>1, <1>10, <2>1, Zenon DEF TypeOK
  <2>3. \A q \in Receivers : rx'[q].pc \notin {"reload", "dispose"}
    BY <1>7, <1>10, <2>1, Zenon DEF Moves
  <2>4. LockInv' /\ ReturnInv'
    BY <1>1, <1>5, <2>3, Zenon DEF LockInv, ReturnInv, At
  <2>5. LifeInv'
    BY <1>1, <1>10, Zenon DEF LifeInv, LaneLife, SenderAt
  <2>6. PagesShown' /\ QueuesShown'
    BY <1>1, <2>1, PagesKept, QueuesKept, Zenon DEF NothingHidden
  <2>7. SenderNotStranded'
    BY <1>1, <1>5, <1>10, <2>1, StrandedKept, Zenon DEF SendersStay, HasRoom
  <2> QED
    BY <1>10, <2>1, <2>2, <2>4, <2>5, <2>6, <2>7, Zenon DEF NothingHidden
<1>11. ASSUME NEW e, e = [rx[r] EXCEPT !.lane = None] \/ e = [rx[r] EXCEPT !.lane = None, !.progressed = TRUE]
       PROVE  /\ DOMAIN e = DOMAIN Idle /\ e.plan \in Seq({"ready", "direct", "work"})
              /\ e.page \in Pages /\ e.rest \subseteq Receivers /\ e.peer \in Receivers \union {None}
              /\ e.lane = None /\ e.released \in Senders \union {None}
              /\ e.released = rx[r].released /\ e.pc = "dispose"
  BY <1>1, <1>11, ZenonT(30) DEF Receiving, Idle
<1>12. ASSUME NEW e, e = [rx[r] EXCEPT !.lane = None] \/ e = [rx[r] EXCEPT !.lane = None, !.progressed = TRUE],
              NEW f, f = AfterDrain(e)
       PROVE  /\ Receiving(f) /\ f.pc = "advance" /\ f.lane = None /\ f.released = rx[r].released
              /\ ~MakesClone(f)
  <2>1. /\ Receiving(f) /\ f.pc = "advance" /\ f.lane = None /\ f.released = e.released
        /\ f.then \in {"staged", "return"}
    BY <1>11, <1>12, AfterDrainReceiving, Zenon
  <2> QED
    BY <1>11, <1>12, <2>1, ZenonT(30) DEF MakesClone
<1>13. CASE l \in closed /\ ring[l].unread = 0
  <2>1. PICK e : e = [rx[r] EXCEPT !.lane = None, !.progressed = TRUE]
    BY ZenonT(30)
  <2>2. PICK f : f = IF registered = 1 THEN [e EXCEPT !.pc = "lastLane"] ELSE AfterDrain(e)
    BY Zenon
  <2>3. rx' = [rx EXCEPT ![r] = f] /\ free' = Append(free, k) /\ slots' = slots
    BY <1>2, <1>4, <1>13, <2>1, <2>2, Zenon DEF Dispose, Become
  <2>4. /\ Receiving(f) /\ f.pc \in {"advance", "lastLane"} /\ f.lane = None
        /\ f.released = rx[r].released /\ ~MakesClone(f)
    <3>1. CASE registered = 1
      <4>1. f = [e EXCEPT !.pc = "lastLane"]
        BY <2>2, <3>1, Zenon
      <4> QED
        BY <1>11, <2>1, <4>1, ZenonT(30) DEF Receiving, MakesClone, HasLane, Settling, Idle
    <3>2. CASE registered # 1
      BY <1>12, <2>1, <2>2, <3>2, Zenon
    <3> QED
      BY <3>1, <3>2, Zenon
  <2>5. /\ \A s \in Senders : Held(s)' <=> Held(s) /\ s # l
        /\ \A q, t \in Receivers : rx'[q].lane = rx'[t].lane /\ rx'[t].lane # None => q = t
    BY <1>9, <2>3, <2>4, Zenon
  <2>6. \A s \in Senders : InSlot(s)' <=> InSlot(s)
    BY <1>1, <2>3, Zenon DEF InSlot
  <2>7. \A s \in Senders : Present(s)' <=> Present(s) /\ s # l
    BY <1>3, <1>8, <2>5, <2>6, Zenon DEF Present
  <2>8. TokenInv'
    BY <1>1, <1>8, <2>3, <2>5, <2>6, Zenon DEF TokenInv
  <2>9. k \notin Range(free) /\ k \notin fresh
    BY <1>3, <1>4, ZenonT(30) DEF SlotInv
  <2>10. /\ free' \in Seq(Slots) /\ IsInjective(free')
         /\ \A j : j \in Range(free') <=> j \in Range(free) \/ j = k
    BY <1>5, <2>3, <2>9, AppendRange, Zenon DEF SlotInv
  <2>11. SlotInv'
    <3>1. Range(free') \intersect fresh' = {}
      BY <1>1, <2>9, <2>10, Zenon DEF SlotInv
    <3>2. \A s \in Senders : Present(s)' => slotOf'[s] \notin Range(free') \union fresh'
      BY <1>1, <1>3, <1>4, <2>7, <2>10, Zenon DEF SlotInv
    <3>3. \A s, t \in Senders : Present(s)' /\ Present(t)' /\ slotOf'[s] = slotOf'[t] => s = t
      BY <1>1, <2>7, Zenon DEF SlotInv
    <3> QED
      BY <2>10, <3>1, <3>2, <3>3, Zenon DEF SlotInv
  <2>12. LanesShown'
    BY <1>1, <2>3, Zenon DEF NothingHidden, LanesShown, LaneShown, Buffered, SenderAt
  <2> QED
    BY <1>5, <1>10, <1>13, <2>3, <2>4, <2>7, <2>8, <2>10, <2>11, <2>12, Zenon
<1>14. CASE ~(l \in closed /\ ring[l].unread = 0)
  <2>1. PICK e : e = [rx[r] EXCEPT !.lane = None]
    BY ZenonT(30)
  <2>2. PICK f : f = AfterDrain(e)
    OBVIOUS
  <2>3. rx' = [rx EXCEPT ![r] = f] /\ slots' = [slots EXCEPT ![k] = l] /\ free' = free
    BY <1>2, <1>4, <1>14, <2>1, <2>2, Zenon DEF Dispose, Become
  <2>4. /\ Receiving(f) /\ f.pc \in {"advance", "lastLane"} /\ f.lane = None
        /\ f.released = rx[r].released /\ ~MakesClone(f)
    BY <1>12, <2>1, <2>2, Zenon
  <2>5. /\ \A s \in Senders : Held(s)' <=> Held(s) /\ s # l
        /\ \A q, t \in Receivers : rx'[q].lane = rx'[t].lane /\ rx'[t].lane # None => q = t
    BY <1>9, <2>3, <2>4, Zenon
  <2>6. /\ slots' \in [Slots -> Senders \union {None}] /\ slots'[k] = l
        /\ \A j \in Slots : j # k => slots'[j] = slots[j]
    BY <1>3, <1>5, <2>3, Zenon
  <2>7. \A s \in Senders : InSlot(s)' <=> InSlot(s) \/ s = l
    BY <1>1, <1>3, <1>4, <1>5, <1>6, <2>6, Zenon DEF InSlot, TypeOK
  <2>8. \A s \in Senders : Present(s)' <=> Present(s)
    BY <1>3, <1>8, <2>5, <2>7, ZenonT(30) DEF Present
  <2>9. TokenInv'
    <3>1. \A j \in Slots : slots'[j] # None => slotOf'[slots'[j]] = j
      BY <1>1, <1>4, <2>6, ZenonT(30) DEF TokenInv
    <3> QED
      BY <1>1, <1>3, <1>8, <2>5, <2>7, <3>1, ZenonT(30) DEF TokenInv
  <2>10. SlotInv'
    BY <1>1, <2>3, <2>8, SlotsKept, Zenon
  <2>11. LanesShown'
    <3> SUFFICES ASSUME NEW j \in Slots, NEW s, s = slots'[j], s # None
                 PROVE  LaneShown(s, j)'
      BY Zenon DEF LanesShown, LaneShown, Buffered, SenderAt
    <3>1. CASE j = k
      <4>1. s = l
        BY <2>6, <3>1, Zenon
      <4>2. LaneShown(s, j)
        BY <1>1, <1>2, <1>4, <3>1, <4>1, Zenon DEF ReturnInv, LaneShown, At
      <4> QED
        BY <1>1, <4>2, Zenon DEF LaneShown, Buffered, SenderAt
    <3>2. CASE j # k
      <4>1. LaneShown(s, j)
        BY <2>6, <3>2, Zenon DEF NothingHidden, LanesShown
      <4> QED
        BY <1>1, <4>1, Zenon DEF LaneShown, Buffered, SenderAt
    <3> QED
      BY <3>1, <3>2, Zenon
  <2> QED
    BY <1>5, <1>10, <2>3, <2>4, <2>6, <2>8, <2>9, <2>10, <2>11, Zenon
<1> QED
  BY <1>13, <1>14, Zenon

-----------------------------------------------------------------------------
(* Receivers that notify senders, and those that come and go. *)

\* A notification (ProducerSpace::notify) reaches a sender that sleeps and moves none.
LEMMA NotifyFrame ==
  ASSUME TypeOK, NEW lanes, NotifySpace(lanes)
  PROVE  /\ SendersStay /\ DOMAIN sx' = Senders /\ \A s \in Senders : Sending(sx'[s])
         /\ \A s \in Senders : s \in lanes /\ SenderAt(s, "parked") => sx'[s].notified
<1>1. DOMAIN sx' = Senders
  BY DEF NotifySpace
<1>2. ASSUME NEW s \in Senders
      PROVE  /\ Sending(sx'[s]) /\ sx'[s].pc = sx[s].pc /\ (sx'[s].dropping <=> sx[s].dropping)
             /\ sx[s].notified => sx'[s].notified
             /\ s \in lanes /\ SenderAt(s, "parked") => sx'[s].notified
  <2>1. Sending(sx[s])
    BY Zenon DEF TypeOK
  <2>2. \/ sx'[s] = sx[s] /\ ~(s \in lanes /\ sx[s].pc = "parked")
        \/ sx'[s] = [sx[s] EXCEPT !.notified = TRUE]
    BY DEF NotifySpace
  <2> QED
    BY <2>1, <2>2, Zenon DEF Sending, SenderAt
<1> QED
  BY <1>1, <1>2, Zenon DEF SendersStay

\* A receiver that notifies senders, and shuts the lanes that it finds in slots and queues
\* when it was the last one (Shared::close).
LEMMA NotifierInv ==
  ASSUME IInv, NEW r \in Receivers, NEW f, rx' = [rx EXCEPT ![r] = f], Receiving(f),
         f.pc \notin Busy, ~MakesClone(f), rx[r].pc \notin Busy \union {"new"},
         NEW lanes, NotifySpace(lanes), rx[r].released # None => rx[r].released \in lanes,
         UNCHANGED <<ring, closed, pending, pageBits, readyGroup, workGroup, lock, slotOf>>,
         UNCHANGED <<free, fresh, setup, receiverAlive, queues>>, shut \subseteq shut',
         slots' \in [Slots -> Senders \union {None}],
         \A k \in Slots : slots'[k] = slots[k] \/ slots'[k] = None,
         queue' \in [Pages -> Seq(Senders)],
         \A p \in Pages : queue'[p] = queue[p] \/ queue'[p] = << >>,
         \A s \in Senders : /\ InSlot(s) => InSlot(s)' \/ s \in shut'
                            /\ InQueue(s) => InQueue(s)' \/ s \in shut'
  PROVE  IInv'
<1> USE DEF IInv
<1>1. /\ Moves(r) /\ rx'[r] = f /\ CloneInv'
      /\ DOMAIN rx' = Receivers /\ \A q \in Receivers : Receiving(rx'[q])
  BY ReceiverFrame, ZenonT(30)
<1>2. /\ SendersStay /\ DOMAIN sx' = Senders /\ \A s \in Senders : Sending(sx'[s])
      /\ \A s \in Senders : s \in lanes /\ SenderAt(s, "parked") => sx'[s].notified
  BY NotifyFrame, Zenon
<1>3. TypeOK'
  BY <1>1, <1>2, Zenon DEF TypeOK
<1>4. LockInv'
  BY <1>1, LockKept, Zenon DEF Busy, HasLane
<1>5. None \notin Senders /\ \A q \in Receivers : rx'[q].lane = rx[q].lane
  <2>1. rx[r].lane = None /\ f.lane = None
    BY Zenon DEF TypeOK, Receiving, Busy
  <2> QED
    BY <1>1, <2>1, HandleAssumption, Zenon DEF Moves, None
<1>6. \A p \in Pages : \A s \in Range(queue'[p]) : s \in Range(queue[p])
  BY DEF Range
<1>7. \A s \in Senders : slotOf[s] \in Slots /\ Page(slotOf[s]) \in Pages
  BY Zenon DEF TypeOK, Pages
<1>8. \A s \in Senders : /\ InSlot(s)' => InSlot(s)
                         /\ InQueue(s)' => InQueue(s)
                         /\ Held(s)' <=> Held(s)
  <2>1. \A s \in Senders : InSlot(s)' => InSlot(s)
    BY <1>5, <1>7, Zenon DEF InSlot
  <2>2. \A s \in Senders : InQueue(s)' => InQueue(s)
    BY <1>6, <1>7, Zenon DEF InQueue
  <2>3. \A s \in Senders : Held(s)' <=> Held(s)
    BY <1>5, Zenon DEF Held
  <2> QED
    BY <2>1, <2>2, <2>3, Zenon
<1>9. \A s \in Senders : /\ Present(s)' => Present(s)
                         /\ Present(s) => Present(s)' \/ s \in shut'
  BY <1>8, Zenon DEF Present
<1>10. TokenInv'
  <2>1. \A k \in Slots : slots'[k] # None => slotOf'[slots'[k]] = k
    BY ZenonT(30) DEF TokenInv
  <2>2. \A p \in Pages : IsInjective(queue'[p])
    <3> SUFFICES ASSUME NEW p \in Pages
                 PROVE  IsInjective(queue'[p])
      BY Zenon
    <3>1. CASE queue'[p] = queue[p]
      BY <3>1, Zenon DEF TokenInv
    <3>2. CASE queue'[p] = << >>
      <4>1. DOMAIN queue'[p] = {}
        BY <3>2
      <4> QED
        BY <4>1, Zenon DEF IsInjective
    <3> QED
      BY <3>1, <3>2, Zenon
  <2>3. \A p \in Pages : \A s \in Range(queue'[p]) : Page(slotOf'[s]) = p
    BY <1>6, Zenon DEF TokenInv
  <2>4. \A q, t \in Receivers : rx'[q].lane = rx'[t].lane /\ rx'[t].lane # None => q = t
    BY <1>5, ZenonT(30) DEF TokenInv
  <2> QED
    BY <1>8, <2>1, <2>2, <2>3, <2>4, Zenon DEF TokenInv
<1>11. SlotInv'
  BY <1>9, SlotsKept, Zenon
<1>12. LifeInv'
  <2>1. \A s \in Senders : /\ ring'[s].unread = 0 \/ ring'[s].unread = ring[s].unread
                           /\ ring'[s].cached <= ring'[s].unread
                           /\ sx'[s].pc = sx[s].pc /\ (sx'[s].dropping <=> sx[s].dropping)
    BY <1>2, Zenon DEF LifeInv, LaneLife, SendersStay
  <2> QED
    BY <1>9, <2>1, LivesKept, Zenon
<1>13. ReturnInv'
  <2> SUFFICES ASSUME NEW q \in Receivers, NEW s, s = rx'[q].lane
               PROVE  /\ At(q, "dispose")' /\ Buffered(s)' => s \in pending' \/ SenderAt(s, "lane")'
                      /\ rx'[q].pc \in {"reload", "dispose"} /\ s \in pending' =>
                           slotOf[s]' \in pageBits' \/ SenderAt(s, "page")'
    BY Zenon DEF ReturnInv, At, Buffered, SenderAt
  <2>1. CASE q = r
    BY <1>1, <2>1, Zenon DEF At, Busy, HasLane
  <2>2. CASE q # r /\ rx[q].pc \in {"reload", "dispose"}
    <3>1. rx'[q] = rx[q] /\ s = rx[q].lane
      BY <1>1, <2>2, Zenon DEF Moves
    <3>2. s \in Senders
      BY <2>2, <3>1, HeldLane, Zenon DEF HasLane
    <3>3. sx'[s].pc = sx[s].pc
      BY <1>2, <3>2, Zenon DEF SendersStay
    <3> QED
      BY <3>1, <3>3, Zenon DEF ReturnInv, At, Buffered, SenderAt
  <2>3. CASE q # r /\ rx[q].pc \notin {"reload", "dispose"}
    BY <1>1, <2>3, Zenon DEF At, Moves
  <2> QED
    BY <2>1, <2>2, <2>3, Zenon
<1>14. LanesShown'
  <2> SUFFICES ASSUME NEW k \in Slots, NEW s, s = slots'[k], s # None
               PROVE  LaneShown(s, k)'
    BY Zenon DEF LanesShown, LaneShown, Buffered, SenderAt
  <2>1. s = slots[k] /\ s \in Senders
    BY Zenon
  <2>2. LaneShown(s, k)
    BY <2>1, Zenon DEF NothingHidden, LanesShown
  <2>3. sx'[s].pc = sx[s].pc
    BY <1>2, <2>1, Zenon DEF SendersStay
  <2> QED
    BY <2>2, <2>3, Zenon DEF LaneShown, Buffered, SenderAt
<1>15. PagesShown' /\ QueuesShown'
  BY <1>1, <1>2, PagesKept, QueuesKept, Zenon DEF NothingHidden, Busy, SendersStay
<1>16. SenderNotStranded'
  <2> SUFFICES ASSUME NEW s \in Senders, SenderAt(s, "parked")', ~sx'[s].notified, receiverAlive,
                      HasRoom(s)'
               PROVE  \E q \in Receivers : rx'[q].released = s
    BY Zenon DEF SenderNotStranded
  <2>1. SenderAt(s, "parked") /\ ~sx[s].notified /\ HasRoom(s) /\ s \notin lanes
    BY <1>2, Zenon DEF SendersStay, SenderAt, HasRoom
  <2>2. PICK q \in Receivers : rx[q].released = s
    BY <2>1, Zenon DEF SenderNotStranded
  <2>3. q # r
    BY <1>5, <2>1, <2>2, Zenon
  <2> QED
    BY <1>1, <2>2, <2>3, Zenon DEF Moves
<1> QED
  BY <1>1, <1>3, <1>4, <1>10, <1>11, <1>12, <1>13, <1>14, <1>15, <1>16, Zenon DEF NothingHidden

\* apply_effects notifies the sender whose slots were freed.
LEMMA SpaceInv ==
  ASSUME IInv, NEW r \in Receivers, Space(r)
  PROVE  IInv'
<1>1. /\ Receiving(rx[r]) /\ rx[r].pc = "space" /\ queue \in [Pages -> Seq(Senders)]
      /\ slots \in [Slots -> Senders \union {None}]
  BY Zenon DEF IInv, TypeOK, Space, At
<1>2. /\ NotifySpace({rx[r].released})
      /\ UNCHANGED <<ring, closed, shut, pending, pageBits, readyGroup, workGroup, queue, lock>>
      /\ UNCHANGED <<slots, slotOf, free, fresh, setup, receiverAlive, queues>>
  BY DEF Space, laneSide, ringVars, readyVars, workVars, registryVars, countVars
<1>3. PICK e : e = [rx[r] EXCEPT !.released = None]
  BY Zenon
<1>4. Receiving(e) /\ e.pc = "space" /\ e.then \in Arrivals
  BY <1>1, <1>3, Zenon DEF Receiving, Idle
<1>5. PICK f : f = Apply(e)
  BY Zenon
<1>6. Receiving(f) /\ f.pc \notin Busy /\ ~MakesClone(f)
  BY <1>4, <1>5, ApplyReceiving
<1>7. rx' = [rx EXCEPT ![r] = f] /\ rx[r].pc \notin Busy \union {"new"}
  BY <1>1, <1>3, <1>5, Zenon DEF Space, Become, Busy, HasLane
<1>8. \A s \in Senders : (InSlot(s) => InSlot(s)') /\ (InQueue(s) => InQueue(s)')
  BY <1>2, Zenon DEF InSlot, InQueue
<1> QED
  BY <1>1, <1>2, <1>6, <1>7, <1>8, NotifierInv, Zenon

\* Shared::close shuts the lanes that are parked in their slots.
LEMMA CloseSlotsInv ==
  ASSUME IInv, NEW r \in Receivers, CloseSlots(r)
  PROVE  IInv'
<1>1. /\ Receiving(rx[r]) /\ rx[r].pc = "closeSlots" /\ queue \in [Pages -> Seq(Senders)]
      /\ slots \in [Slots -> Senders \union {None}] /\ slotOf \in [Senders -> Slots]
      /\ None \notin Senders
  BY HandleAssumption, Zenon DEF IInv, TypeOK, CloseSlots, At, None
<1>2. PICK lanes : lanes = {slots[k] : k \in Slots} \ {None}
  BY Zenon
<1>3. /\ NotifySpace(lanes) /\ shut' = shut \union lanes /\ slots' = [k \in Slots |-> None]
      /\ UNCHANGED <<ring, closed, pending, pageBits, readyGroup, workGroup, queue, lock>>
      /\ UNCHANGED <<slotOf, free, fresh, setup, receiverAlive, queues>>
  BY <1>2, Zenon DEF CloseSlots, CloseLanes, readyVars, workVars, countVars
<1>4. PICK f : f = [rx[r] EXCEPT !.pc = "closeQueues"]
  BY Zenon
<1>5. Receiving(f) /\ f.pc \notin Busy /\ ~MakesClone(f) /\ rx[r].released = None
  BY <1>1, <1>4, Zenon DEF Receiving, Busy, HasLane, MakesClone, Idle, Settling
<1>6. rx' = [rx EXCEPT ![r] = f] /\ rx[r].pc \notin Busy \union {"new"}
  BY <1>1, <1>4, Zenon DEF CloseSlots, To, Become, Busy, HasLane
<1>7. \A s \in Senders : (InSlot(s) => s \in shut') /\ (InQueue(s) => InQueue(s)')
  BY <1>1, <1>2, <1>3, Zenon DEF InSlot, InQueue
<1>8. slots' \in [Slots -> Senders \union {None}] /\ \A k \in Slots : slots'[k] = None
  BY <1>3, Zenon
<1>9. queue' \in [Pages -> Seq(Senders)] /\ (\A p \in Pages : queue'[p] = queue[p])
      /\ shut \subseteq shut'
  BY <1>1, <1>3, Zenon
<1> QED
  BY <1>3, <1>5, <1>6, <1>7, <1>8, <1>9, NotifierInv, Zenon

\* Then it shuts those that are queued.
LEMMA CloseQueuesInv ==
  ASSUME IInv, NEW r \in Receivers, CloseQueues(r)
  PROVE  IInv'
<1>1. /\ Receiving(rx[r]) /\ rx[r].pc = "closeQueues" /\ queue \in [Pages -> Seq(Senders)]
      /\ slots \in [Slots -> Senders \union {None}] /\ slotOf \in [Senders -> Slots]
  BY ZenonT(30) DEF IInv, TypeOK, CloseQueues, At
<1>2. PICK lanes : lanes = UNION {Range(queue[p]) : p \in Pages}
  BY Zenon
<1>3. /\ NotifySpace(lanes) /\ shut' = shut \union lanes /\ queue' = [p \in Pages |-> << >>]
      /\ UNCHANGED <<ring, closed, pending, pageBits, readyGroup, workGroup, lock, slots>>
      /\ UNCHANGED <<slotOf, free, fresh, setup, receiverAlive, queues>>
  BY <1>2 DEF CloseQueues, CloseLanes, readyVars, registryVars, countVars
<1>4. PICK f : f = [Idle EXCEPT !.pc = "notify", !.wake = "all", !.then = "gone"]
  OBVIOUS
<1>5. Receiving(f) /\ f.pc \notin Busy /\ ~MakesClone(f) /\ rx[r].released = None
  BY <1>1, <1>4, FirstPage
  DEF Receiving, Busy, HasLane, MakesClone, Idle, Settling, Arrivals, None
<1>6. rx' = [rx EXCEPT ![r] = f] /\ rx[r].pc \notin Busy \union {"new"}
  BY <1>1, <1>4, Zenon DEF CloseQueues, Become, Busy, HasLane
<1>7. \A s \in Senders : (InSlot(s) => InSlot(s)') /\ (InQueue(s) => s \in shut')
  <2>1. \A s \in Senders : InSlot(s) => InSlot(s)'
    BY <1>3, Zenon DEF InSlot
  <2>2. \A s \in Senders : Page(slotOf[s]) \in Pages
    BY <1>1, Zenon DEF Pages
  <2>3. \A s \in Senders : InQueue(s) => s \in lanes
    BY <1>2, <2>2 DEF InQueue
  <2> QED
    BY <1>3, <2>1, <2>3, Zenon
<1>8. queue' \in [Pages -> Seq(Senders)] /\ \A p \in Pages : queue'[p] = << >>
  BY <1>3
<1>9. slots' \in [Slots -> Senders \union {None}] /\ (\A k \in Slots : slots'[k] = slots[k])
      /\ shut \subseteq shut'
  BY <1>1, <1>3, Zenon
<1> QED
  BY <1>3, <1>5, <1>6, <1>7, <1>8, <1>9, NotifierInv, Zenon

\* A clone has one receiver that makes it, and becomes one itself when that is done.
LEMMA CloneInvKept ==
  ASSUME IInv, NEW r \in Receivers, StartClone(r) \/ Cloned(r)
  PROVE  IInv'
<1> USE DEF IInv
<1>1. /\ UNCHANGED <<ring, closed, shut, pending, pageBits, readyGroup, workGroup, queue, lock>>
      /\ UNCHANGED <<slots, slotOf, free, fresh, sx, setup, receiverAlive, queues>>
      /\ DOMAIN rx = Receivers /\ \A q \in Receivers : Receiving(rx[q])
  <2> USE DEF laneSide, peerSide, ringVars, readyVars, workVars, registryVars, countVars, senderVars
  <2>1. DOMAIN rx = Receivers /\ \A q \in Receivers : Receiving(rx[q])
    BY Zenon DEF TypeOK
  <2>2. CASE StartClone(r)
    BY <2>1, <2>2, Zenon DEF StartClone
  <2>3. CASE Cloned(r)
    BY <2>1, <2>3, Zenon DEF Cloned
  <2> QED
    BY <2>2, <2>3, Zenon
<1>2. ASSUME NEW q \in Receivers, rx[q].pc \in {"idle", "cloned", "new"}
      PROVE  rx[q].pc \notin Busy /\ rx[q].lane = None /\ rx[q].released = None
  BY <1>1, <1>2, Zenon DEF Receiving, Busy, HasLane, Settling
<1>3. /\ CloneInv' /\ DOMAIN rx' = Receivers /\ \A q \in Receivers : Receiving(rx'[q])
      /\ \A q \in Receivers :
           \/ rx'[q] = rx[q]
           \/ /\ rx[q].pc \notin Busy /\ rx[q].lane = None /\ rx[q].released = None
              /\ rx'[q].pc \notin Busy /\ rx'[q].lane = None /\ rx'[q].released = None
  <2>1. CASE StartClone(r)
    <3>1. PICK c \in Receivers : /\ rx[c].pc = "new" /\ \A q \in Receivers : rx[q].peer # c
                                 /\ rx' = [rx EXCEPT ![r] = [Idle EXCEPT !.pc = "clone", !.peer = c]]
      BY <2>1, Zenon DEF StartClone, At, Begin, Become
    <3>2. PICK f : f = [Idle EXCEPT !.pc = "clone", !.peer = c]
      OBVIOUS
    <3>3. /\ Receiving(f) /\ f.pc = "clone" /\ f.peer = c /\ f.lane = None /\ f.released = None
          /\ f.pc \notin Busy /\ MakesClone(f) /\ c # None
      BY <3>2, FirstPage, HandleAssumption DEF Receiving, Busy, HasLane, MakesClone, Idle, None
    <3>4. rx[r].pc = "idle" /\ rx'[r] = f /\ Moves(r) /\ ~MakesClone(rx[r])
      BY <1>1, <2>1, <3>1, <3>2, Zenon DEF StartClone, At, Moves, MakesClone
    <3>5. CloneInv'
      <4> SUFFICES ASSUME NEW q \in Receivers, MakesClone(rx'[q])
                   PROVE  /\ rx'[q].peer # None /\ rx'[rx'[q].peer].pc = "new"
                          /\ \A t \in Receivers : MakesClone(rx'[t]) /\ rx'[t].peer = rx'[q].peer => t = q
        BY Zenon DEF CloneInv, MakesClone
      <4>1. CASE q = r
        BY <3>1, <3>3, <3>4, <4>1 DEF Moves
      <4>2. CASE q # r
        <5>1. rx'[q] = rx[q] /\ rx[q].peer \in Receivers /\ rx[rx[q].peer].pc = "new"
          BY <1>1, <3>4, <4>2, Zenon DEF Moves, CloneInv, Receiving
        <5>2. rx[q].peer # r /\ rx[q].peer # None /\ rx[q].peer # c
          <6>1. None \notin Receivers
            BY HandleAssumption, Zenon DEF None
          <6>2. rx[q].peer # r
            BY <3>4, <5>1, Zenon
          <6> QED
            BY <3>1, <5>1, <6>1, <6>2, Zenon
        <5>3. rx'[rx[q].peer] = rx[rx[q].peer]
          BY <3>4, <5>1, <5>2, Zenon DEF Moves
        <5>4. \A t \in Receivers : MakesClone(rx'[t]) /\ rx'[t].peer = rx[q].peer => t = q
          <6> SUFFICES ASSUME NEW t \in Receivers, MakesClone(rx'[t]), rx'[t].peer = rx[q].peer
                       PROVE  t = q
            BY Zenon
          <6>1. t # r
            BY <3>3, <3>4, <5>2, Zenon
          <6>2. rx'[t] = rx[t]
            BY <3>4, <6>1, Zenon DEF Moves
          <6>3. MakesClone(rx[t]) /\ MakesClone(rx[q]) /\ rx[t].peer = rx[q].peer
            BY <5>1, <6>2, Zenon
          <6> QED
            BY <6>3, Zenon DEF CloneInv
        <5> QED
          BY <5>1, <5>2, <5>3, <5>4, Zenon
      <4> QED
        BY <4>1, <4>2, Zenon
    <3> QED
      BY <1>1, <1>2, <3>3, <3>4, <3>5, Zenon DEF Moves
  <2>2. CASE Cloned(r)
    <3>1. PICK c : c = rx[r].peer
      BY Zenon
    <3>2. rx[r].pc = "cloned" /\ rx' = [rx EXCEPT ![r] = Idle, ![c] = Idle]
      BY <2>2, <3>1 DEF Cloned, At
    <3>3. MakesClone(rx[r])
      BY <3>2 DEF MakesClone
    <3>4. c \in Receivers /\ rx[c].pc = "new"
      BY <1>1, <3>1, <3>3, Zenon DEF CloneInv, Receiving
    <3>5. /\ DOMAIN rx' = Receivers /\ rx'[r] = Idle /\ rx'[c] = Idle
          /\ \A q \in Receivers : q # r /\ q # c => rx'[q] = rx[q]
      BY <1>1, <3>2, <3>4, Zenon
    <3>6. Receiving(Idle) /\ ~MakesClone(Idle) /\ Idle.pc \notin Busy /\ Idle.lane = None
          /\ Idle.released = None
      BY IdleReceiving, Zenon DEF MakesClone, Idle, Busy, HasLane
    <3>7. CloneInv'
      <4> SUFFICES ASSUME NEW q \in Receivers, MakesClone(rx'[q])
                   PROVE  /\ rx'[q].peer # None /\ rx'[rx'[q].peer].pc = "new"
                          /\ \A t \in Receivers : MakesClone(rx'[t]) /\ rx'[t].peer = rx'[q].peer => t = q
        BY ZenonT(30) DEF CloneInv, MakesClone
      <4>1. rx'[q] = rx[q] /\ q # r
        BY <3>5, <3>6, Zenon
      <4>2. rx[q].peer \in Receivers /\ rx[rx[q].peer].pc = "new" /\ rx[q].peer # None
        BY <1>1, <4>1, Zenon DEF CloneInv, Receiving
      <4>3. rx[q].peer # r /\ rx[q].peer # c
        BY <3>1, <3>2, <3>3, <4>1, <4>2, Zenon DEF CloneInv
      <4>4. \A t \in Receivers : MakesClone(rx'[t]) => rx'[t] = rx[t]
        BY <3>5, <3>6, ZenonT(30)
      <4>5. \A t \in Receivers : MakesClone(rx'[t]) /\ rx'[t].peer = rx[q].peer => t = q
        BY <4>1, <4>4, Zenon DEF CloneInv
      <4> QED
        BY <3>5, <4>1, <4>2, <4>3, <4>5, Zenon
    <3> QED
      BY <1>1, <1>2, <3>2, <3>4, <3>5, <3>6, <3>7, Zenon
  <2> QED
    BY <2>1, <2>2, Zenon
<1>4. TypeOK'
  BY <1>1, <1>3, Zenon DEF TypeOK
<1>5. LockInv'
  BY <1>1, <1>3, Zenon DEF LockInv, Busy, HasLane
<1>6. TokensStay
  BY <1>1, <1>3, Zenon DEF TokensStay
<1>7. TokenInv' /\ SlotInv' /\ \A s \in Senders : Present(s)' <=> Present(s)
  BY <1>6, TokensKept
<1>8. LifeInv'
  BY <1>1, <1>7, Zenon DEF LifeInv, LaneLife, SenderAt
<1>9. ReturnInv'
  BY <1>1, <1>3, ZenonT(30) DEF ReturnInv, Busy, HasLane, At, Buffered, SenderAt
<1>10. LanesShown'
  BY <1>1, Zenon DEF NothingHidden, LanesShown, LaneShown, Buffered, SenderAt
<1>11. PagesShown' /\ QueuesShown'
  <2>1. \A q \in Receivers : rx[q].pc \in {"activate", "mark", "claimed"} => rx'[q] = rx[q]
    BY <1>3, Zenon DEF Busy
  <2>2. PagesShown'
    BY <1>1, <2>1, ZenonT(30) DEF NothingHidden, PagesShown, At, SenderAt
  <2>3. QueuesShown'
    BY <1>1, <2>1 DEF NothingHidden, QueuesShown
  <2> QED
    BY <2>2, <2>3
<1>12. SenderNotStranded'
  <2>1. None \notin Senders
    BY HandleAssumption, Zenon DEF None
  <2>2. \A q \in Receivers : rx'[q].released = rx[q].released
    BY <1>3, Zenon
  <2> QED
    BY <1>1, <2>2 DEF SenderNotStranded, SenderAt, HasRoom
<1> QED
  BY <1>3, <1>4, <1>5, <1>7, <1>8, <1>9, <1>10, <1>11, <1>12, Zenon DEF NothingHidden

-----------------------------------------------------------------------------
(* The invariant holds. *)

\* An empty RawQueue is a queue of lanes.
LEMMA EmptyIsSeq == ASSUME NEW S PROVE << >> \in Seq(S)
  OBVIOUS

\* build_channel parks the lanes it registers in their slots, with empty rings.
LEMMA InitInv == Init => IInv
<1> SUFFICES ASSUME Init
             PROVE  IInv
  BY Zenon
<1> USE DEF Init
<1>1. PICK u : u = setup.senders
  BY Zenon
<1>2. /\ setup \in Setups /\ DOMAIN u \subseteq Senders /\ u \in [DOMAIN u -> Slots]
      /\ IsInjective(u) /\ None \notin Senders /\ None \notin Receivers /\ 0 \in Slots
  BY <1>1, HandleAssumption, LimitAssumption, SMTT(30) DEF IsSetup, None, Slots
<1>3. /\ slotOf \in [Senders -> Slots] /\ \A s \in DOMAIN u : slotOf[s] = u[s]
  BY <1>1, <1>2, Zenon DEF Opened
<1>4. /\ slots \in [Slots -> Senders \union {None}]
      /\ \A k \in Slots : slots[k] # None => slots[k] \in DOMAIN u /\ u[slots[k]] = k
      /\ \A s \in DOMAIN u : slots[u[s]] = s
  <2>1. slots = [k \in Slots |-> IF k \in Range(u) THEN CHOOSE s \in DOMAIN u : u[s] = k ELSE None]
    BY <1>1, SMTT(30) DEF Opened
  <2>2. ASSUME NEW k \in Slots, k \in Range(u)
        PROVE  slots[k] \in DOMAIN u /\ u[slots[k]] = k
    <3>1. \E s \in DOMAIN u : u[s] = k
      BY <2>2, Zenon DEF Range
    <3>2. slots[k] = CHOOSE s \in DOMAIN u : u[s] = k
      BY <2>1, <2>2, Zenon
    <3> QED
      BY <3>1, <3>2, Zenon
  <2>3. \A k \in Slots \ Range(u) : slots[k] = None
    BY <2>1, Zenon
  <2>4. DOMAIN slots = Slots /\ slots \in [Slots -> Senders \union {None}]
    BY <1>2, <2>1, <2>2, <2>3, Zenon
  <2>5. \A s \in DOMAIN u : u[s] \in Slots /\ u[s] \in Range(u)
    BY <1>2, Zenon DEF Range
  <2>6. \A s \in DOMAIN u : slots[u[s]] = s
    BY <1>2, <2>2, <2>5, Zenon DEF IsInjective
  <2> QED
    BY <2>2, <2>3, <2>4, <2>6, Zenon
<1>5. /\ queue \in [Pages -> Seq(Senders)] /\ \A p \in Pages : queue[p] = << >>
      /\ queues \subseteq Receivers
  <2>1. queue = [p \in Pages |-> << >>]
    BY Zenon
  <2>2. queues \subseteq Receivers
    BY Zenon DEF kSubset
  <2>3. << >> \in Seq(Senders)
    BY EmptyIsSeq, Zenon
  <2> QED
    BY <2>1, <2>2, <2>3, Zenon
<1>6. DOMAIN rx = Receivers /\ \A r \in Receivers : rx[r] = Idle \/ rx[r] = Unborn
  BY Zenon
<1>7. /\ Receiving(Idle) /\ Receiving(Unborn)
      /\ \A e \in {Idle, Unborn} : /\ e.pc \in {"idle", "new"} /\ e.lane = None /\ ~MakesClone(e)
  <2>1. Unborn.pc = "new" /\ Unborn.lane = None /\ Idle.pc = "idle" /\ Idle.lane = None
    BY Zenon DEF Unborn, Idle
  <2>2. Receiving(Unborn)
    BY FirstPage DEF Receiving, Unborn, Idle, HasLane, None
  <2> QED
    BY <2>1, <2>2, IdleReceiving, Zenon DEF MakesClone
<1>8. \A r \in Receivers : /\ Receiving(rx[r]) /\ rx[r].pc \in {"idle", "new"} /\ rx[r].lane = None
                           /\ ~MakesClone(rx[r])
  BY <1>6, <1>7, Zenon
<1>9. /\ DOMAIN ring = Senders /\ \A s \in Senders : Buffering(ring[s]) /\ ring[s].unread = 0
                                                     /\ ring[s].cached = 0
  BY Zenon DEF Buffering
<1>10. /\ DOMAIN sx = Senders
       /\ \A s \in Senders : /\ Sending(sx[s]) /\ ~sx[s].dropping
                             /\ sx[s].pc = IF s \in DOMAIN u THEN "idle" ELSE "new"
  BY <1>1, Zenon DEF Sending, Opened
<1>11. TypeOK
  BY <1>2, <1>3, <1>4, <1>5, <1>6, <1>8, <1>9, <1>10 DEF TypeOK
<1>12. \A s \in Senders : ~InQueue(s) /\ ~Held(s) /\ (InSlot(s) <=> s \in DOMAIN u)
  <2>1. \A s \in Senders : Page(slotOf[s]) \in Pages
    BY <1>3, Zenon DEF Pages
  <2>2. \A s \in Senders : ~InQueue(s)
    BY <1>5, <2>1 DEF InQueue, Range
  <2>3. \A s \in Senders : ~Held(s)
    BY <1>2, <1>8, Zenon DEF Held
  <2>4. \A s \in Senders : InSlot(s) <=> s \in DOMAIN u
    <3>1. \A s \in Senders : slotOf[s] \in Slots /\ s # None
      BY <1>2, <1>3, Zenon
    <3>2. \A s \in DOMAIN u : slots[slotOf[s]] = s
      BY <1>3, <1>4, Zenon
    <3> HIDE DEF Init
    <3> QED
      BY <1>4, <3>1, <3>2 DEF InSlot
  <2> QED
    BY <2>2, <2>3, <2>4, ZenonT(30)
<1>13. TokenInv
  <2>1. \A k \in Slots : slots[k] # None => slotOf[slots[k]] = k
    BY <1>3, <1>4, Zenon
  <2>2. \A p \in Pages : IsInjective(queue[p]) /\ Range(queue[p]) = {}
    <3>1. \A p \in Pages : DOMAIN queue[p] = {}
      BY <1>5, SMTT(30)
    <3> QED
      BY <3>1, Zenon DEF IsInjective, Range
  <2> QED
    BY <1>8, <1>12, <2>1, <2>2, Zenon DEF TokenInv
<1>14. \A s \in Senders : Present(s) <=> s \in DOMAIN u
  BY <1>12, Zenon DEF Present
<1>15. SlotInv
  <2>1. IsInjective(free) /\ Range(free) = {}
    BY SMTT(30) DEF IsInjective, Range
  <2>2. fresh = Slots \ Range(u)
    BY <1>1, Zenon
  <2>3. \A s \in DOMAIN u : slotOf[s] \in Range(u)
    BY <1>3, Zenon DEF Range
  <2>4. \A s, t \in DOMAIN u : slotOf[s] = slotOf[t] => s = t
    BY <1>3 , <1>2, Zenon DEF IsInjective
  <2> QED
    BY <1>14, <2>1, <2>2, <2>3, <2>4, Zenon DEF SlotInv
<1>16. LifeInv
  BY <1>9, <1>10, <1>14, SMTT(30) DEF LifeInv, LaneLife, SenderAt
<1>17. LockInv /\ CloneInv /\ ReturnInv
  BY <1>2, <1>8, Zenon DEF LockInv, CloneInv, ReturnInv, At
<1>18. NothingHidden
  <2>1. LanesShown
    BY <1>2, <1>4, <1>9, SMTT(30) DEF LanesShown, LaneShown, Buffered
  <2> QED
    BY <1>5, <2>1, Zenon DEF NothingHidden, PagesShown, QueuesShown
<1>19. SenderNotStranded
  BY <1>10, Zenon DEF SenderNotStranded, SenderAt
<1> QED
  BY <1>11, <1>13, <1>15, <1>16, <1>17, <1>18, <1>19, Zenon DEF IInv

\* The bits of a page in their order are all of its bits, each of them once.
LEMMA InOrderRange ==
  ASSUME NEW R \in SUBSET Slots, NEW order \in InOrder(R)
  PROVE  /\ order \in Seq(R) /\ IsInjective(order) /\ Range(order) = R
<1>1. PICK n \in 0 .. SlotCount : order \in [1 .. n -> R]
  BY Zenon DEF InOrder
<1>2. /\ n \in Nat /\ Range(order) = R
      /\ \A i, j \in DOMAIN order : i < j => order[i] < order[j]
  <2>1. n \in Nat
    BY LimitAssumption
  <2> QED
    BY <2>1, Zenon DEF InOrder
<1>3. DOMAIN order = 1 .. n /\ \A i \in 1 .. n : order[i] \in Nat
  <2>1. Slots \subseteq Nat
    BY LimitAssumption DEF Slots
  <2>2. DOMAIN order = 1 .. n /\ \A i \in 1 .. n : order[i] \in R
    BY <1>1, Zenon
  <2> QED
    BY <2>1, <2>2, Zenon
<1>4. ASSUME NEW i \in 1 .. n, NEW j \in 1 .. n, order[i] = order[j]
      PROVE  i = j
  <2>1. ~(i < j) /\ ~(j < i)
    BY <1>2, <1>3, <1>4, SMTT(30)
  <2> QED
    BY <1>2, <2>1
<1>5. IsInjective(order)
  BY <1>3, <1>4, Zenon DEF IsInjective
<1>6. order \in Seq(R)
  BY <1>1, <1>2
<1> QED
  BY <1>2, <1>5, <1>6, Zenon

\* take_ready_lane: of the lanes that are marked in the page the receiver took and pending
\* there, one goes to the receiver and the others go to the queue of the page.
LEMMA ActivateInv ==
  ASSUME IInv, NEW r \in Receivers, Activate(r)
  PROVE  IInv'
<1> USE DEF IInv
<1>1. /\ rx[r].pc = "activate" /\ lock = None /\ Receiving(rx[r])
      /\ UNCHANGED <<ring, closed, shut, pending, readyGroup, lock, slotOf>>
      /\ UNCHANGED <<free, fresh, sx, setup, receiverAlive, queues>>
  BY Zenon DEF Activate, At, TypeOK, peerSide, senderVars, ringVars, countVars
<1>2. PICK p \in Pages : p = rx[r].page
  BY <1>1, Zenon DEF Receiving
<1>3. PICK bits : bits = {k \in pageBits : Page(k) = p}
  BY Zenon
<1>4. PICK R : R = ReadySlots(bits)
  BY Zenon
<1>5. PICK order \in InOrder(R) :
        /\ pageBits' = pageBits \ bits
        /\ slots' = [k \in Slots |-> IF k \in R THEN None ELSE slots[k]]
        /\ IF order = << >> THEN Become(r, Nothing(rx[r])) /\ UNCHANGED workVars
           ELSE /\ Become(r, Claim(rx[r], slots[order[1]]))
                /\ queue' = [queue EXCEPT ![p] =
                               @ \o [i \in 1 .. Len(order) - 1 |-> slots[order[i + 1]]]]
                /\ workGroup' = IF Len(order) > 1 THEN workGroup \union {p} ELSE workGroup
  BY <1>2, <1>3, <1>4, Zenon DEF Activate, EmptiedSlots
<1>6. /\ R \in SUBSET Slots /\ \A k \in R : Page(k) = p
      /\ \A k \in R : slots[k] \in pending /\ slots[k] \in Senders /\ slots[k] # None
      /\ \A k \in R : slotOf[slots[k]] = k /\ InSlot(slots[k])
      /\ \A k \in bits : slots[k] \in pending => k \in R
      /\ slots \in [Slots -> Senders \union {None}]
  <2>1. pageBits \subseteq Slots /\ pending \subseteq Senders /\ None \notin Senders
        /\ slots \in [Slots -> Senders \union {None}]
    BY HandleAssumption, Zenon DEF TypeOK, None
  <2>2. R \in SUBSET Slots /\ (\A k \in R : Page(k) = p)
        /\ (\A k \in R : slots[k] \in pending) /\ (\A k \in bits : slots[k] \in pending => k \in R)
    BY <1>3, <1>4, <2>1, Zenon DEF ReadySlots
  <2>3. \A k \in R : slots[k] \in Senders /\ slots[k] # None
    BY <2>1, <2>2, Zenon
  <2>4. \A k \in R : slotOf[slots[k]] = k
    BY <2>2, <2>3, Zenon DEF TokenInv
  <2>5. \A k \in R : InSlot(slots[k])
    BY <2>4, Zenon DEF InSlot
  <2> QED
    BY <2>1, <2>2, <2>3, <2>4, <2>5, Zenon
<1>7. order \in Seq(R) /\ IsInjective(order) /\ Range(order) = R
  BY <1>6, InOrderRange, Zenon
<1>8. /\ slots' \in [Slots -> Senders \union {None}]
      /\ \A k \in R : slots'[k] = None
      /\ \A k \in Slots \ R : slots'[k] = slots[k]
  BY <1>5, <1>6, Zenon
<1>9. /\ rx[r].lane = None /\ rx[r].released = None /\ rx[r].plan # << >> /\ rx[r].pc \notin HasLane
      /\ queue \in [Pages -> Seq(Senders)] /\ IsInjective(queue[p]) /\ workGroup \subseteq Pages
      /\ \A s \in Senders : slotOf[s] \in Slots /\ Page(slotOf[s]) \in Pages /\ s # None
  BY <1>1, <1>2, HandleAssumption, ZenonT(30) DEF TypeOK, TokenInv, Receiving, HasLane, Settling, Pages, None
<1>10. \A s \in Senders : InSlot(s)' <=> InSlot(s) /\ slotOf[s] \notin R
  BY <1>1, <1>8, <1>9, ZenonT(30) DEF InSlot
<1>11. LanesShown'
  <2> SUFFICES ASSUME NEW k \in Slots, NEW s, s = slots'[k], s # None
               PROVE  LaneShown(s, k)'
    BY Zenon DEF LanesShown, LaneShown, Buffered, SenderAt
  <2>1. k \notin R /\ s = slots[k]
    BY <1>8, Zenon
  <2>2. LaneShown(s, k)
    BY <2>1, Zenon DEF NothingHidden, LanesShown
  <2>3. s \in pending => k \notin bits
    BY <1>6, <2>1, Zenon
  <2> QED
    BY <1>1, <1>5, <2>2, <2>3, Zenon DEF LaneShown, Buffered, SenderAt
<1>12. ASSUME NEW f, rx' = [rx EXCEPT ![r] = f], Receiving(f), ~MakesClone(f),
              f.pc \in {"drain", "advance"}, f.released = None,
              queue' \in [Pages -> Seq(Senders)], workGroup' \subseteq Pages,
              workGroup \subseteq workGroup',
              \A j \in Pages : queue'[j] # << >> => queue[j] # << >> \/ j \in workGroup',
              TokenInv', \A s \in Senders : Present(s)' <=> Present(s)
       PROVE  IInv'
  <2>1. /\ Moves(r) /\ rx'[r] = f
    BY <1>1, <1>12, ReceiverFrame, ZenonT(30)
  <2>2. PagesShown'
    <3> SUFFICES ASSUME NEW k \in pageBits'
                 PROVE  \/ Page(k) \in readyGroup
                        \/ \E s \in Senders : SenderAt(s, "group") /\ Page(slotOf[s]) = Page(k)
                        \/ \E q \in Receivers : At(q, "activate")' /\ rx'[q].page = Page(k)
      BY <1>1, Zenon DEF PagesShown, SenderAt
    <3>1. k \in pageBits /\ Page(k) # p
      BY <1>3, <1>5, Zenon
    <3>2. CASE \E q \in Receivers : At(q, "activate") /\ rx[q].page = Page(k)
      <4>1. PICK q \in Receivers : At(q, "activate") /\ rx[q].page = Page(k)
        BY <3>2, Zenon
      <4>2. rx'[q] = rx[q]
        BY <1>2, <2>1, <3>1, <4>1, Zenon DEF Moves
      <4> QED
        BY <4>1, <4>2, Zenon DEF At
    <3> QED
      BY <3>1, <3>2, Zenon DEF NothingHidden, PagesShown
  <2>3. QueuesShown'
    <3> SUFFICES ASSUME NEW j \in Pages, queue'[j] # << >>, receiverAlive, j \notin workGroup'
                 PROVE  \E q \in Receivers : rx'[q].pc \in {"mark", "claimed"} /\ rx'[q].page = j
      BY <1>1, Zenon DEF QueuesShown
    <3>1. queue[j] # << >> /\ j \notin workGroup
      BY <1>12, Zenon
    <3>2. PICK q \in Receivers : rx[q].pc \in {"mark", "claimed"} /\ rx[q].page = j
      BY <3>1, Zenon DEF NothingHidden, QueuesShown
    <3>3. rx'[q] = rx[q]
      BY <1>1, <2>1, <3>2, Zenon DEF Moves
    <3> QED
      BY <3>2, <3>3, Zenon
  <2>4. /\ rx[r].pc \notin {"new", "reload", "dispose"} /\ f.pc \notin {"reload", "dispose"}
        /\ rx[r].released # None => f.released = rx[r].released
        /\ pageBits' \subseteq pageBits
    BY <1>1, <1>5, <1>9, <1>12, Zenon
  <2> QED
    BY <1>1, <1>8, <1>11, <1>12, <2>2, <2>3, <2>4, MoveInv, Zenon
<1>13. CASE order = << >>
  <2> DEFINE f == Nothing(rx[r])
  <2>1. rx' = [rx EXCEPT ![r] = f] /\ queue' = queue /\ workGroup' = workGroup
    BY <1>5, <1>13, ZenonT(30) DEF Become, workVars
  <2>2. R = {}
    BY <1>7, <1>13 DEF Range
  <2>3. slots' = slots
    BY <1>6, <1>8, <2>2
  <2>4. /\ Receiving(f) /\ f.pc = "advance" /\ f.then = "search" /\ f.lane = None
        /\ f.released = None
    BY <1>1, <1>9, NothingReceiving, Zenon
  <2> HIDE DEF f
  <2>5. ~MakesClone(f)
    BY <2>4, Zenon DEF MakesClone
  <2>6. Moves(r) /\ rx'[r] = f
    BY <1>1, <2>1, <2>4, <2>5, ReceiverFrame, Zenon
  <2>7. TokensStay
    BY <1>1, <1>9, <2>1, <2>3, <2>4, <2>6, ZenonT(30) DEF TokensStay, Moves
  <2>8. TokenInv' /\ \A s \in Senders : Present(s)' <=> Present(s)
    BY <2>7, TokensKept, ZenonT(30)
  <2> QED
    BY <1>9, <1>12, <2>1, <2>4, <2>5, <2>8, ZenonT(30)
<1>14. CASE order # << >>
  <2>1. PICK more : more = [i \in 1 .. Len(order) - 1 |-> slots[order[i + 1]]]
    BY ZenonT(30)
  <2>2. PICK first : first = order[1]
    OBVIOUS
  <2>3. PICK l : l = slots[first]
    OBVIOUS
  <2> DEFINE f == Claim(rx[r], l)
  <2>4. /\ rx' = [rx EXCEPT ![r] = f] /\ queue' = [queue EXCEPT ![p] = @ \o more]
        /\ workGroup' = IF Len(order) > 1 THEN workGroup \union {p} ELSE workGroup
    BY <1>5, <1>14, <2>1, <2>2, <2>3, Zenon DEF Become
  <2>5. /\ Len(order) \in Nat /\ Len(order) > 0 /\ DOMAIN order = 1 .. Len(order)
        /\ first \in R /\ \A i \in 1 .. Len(order) : order[i] \in R
    BY <1>7, <1>14, <2>2, SMTT(30)
  <2>6. /\ more \in Seq(Senders) /\ DOMAIN more = 1 .. (Len(order) - 1)
        /\ \A i \in DOMAIN more : /\ i + 1 \in DOMAIN order /\ order[i + 1] # first
                                  /\ more[i] = slots[order[i + 1]] /\ order[i + 1] \in R
        /\ more # << >> => Len(order) > 1
    <3>1. \A i \in 1 .. (Len(order) - 1) : i + 1 \in 1 .. Len(order) /\ i + 1 # 1
      BY <2>5
    <3>2. \A i \in 1 .. (Len(order) - 1) : order[i + 1] # first /\ order[i + 1] \in R
      BY <1>7, <2>2, <2>5, <3>1 DEF IsInjective
    <3>3. \A i \in 1 .. (Len(order) - 1) : slots[order[i + 1]] \in Senders
      BY <1>6, <3>2, Zenon
    <3> QED
      BY <2>1, <2>5, <3>1, <3>2, <3>3
  <2>7. l \in Senders /\ slotOf[l] = first /\ InSlot(l) /\ l # None
    BY <1>6, <2>3, <2>5, Zenon
  <2>8. \A s \in Senders : s \in Range(more) <=> InSlot(s) /\ slotOf[s] \in R /\ slotOf[s] # first
    <3>1. ASSUME NEW s \in Range(more)
          PROVE  InSlot(s) /\ slotOf[s] \in R /\ slotOf[s] # first
      <4>1. PICK i \in DOMAIN more : more[i] = s
        BY <3>1, Zenon DEF Range
      <4> QED
        BY <1>6, <2>6, <4>1
    <3>2. ASSUME NEW s \in Senders, InSlot(s), slotOf[s] \in R, slotOf[s] # first
          PROVE  s \in Range(more)
      <4>1. PICK i \in 1 .. Len(order) : order[i] = slotOf[s]
        BY <1>7, <2>5, <3>2, Zenon DEF Range
      <4>2. i - 1 \in DOMAIN more /\ (i - 1) + 1 = i
        BY <2>2, <2>5, <2>6, <3>2, <4>1
      <4>3. more[i - 1] = s
        BY <2>6, <3>2, <4>1, <4>2, ZenonT(30) DEF InSlot
      <4> QED
        BY <4>2, <4>3, Zenon DEF Range
    <3> QED
      BY <3>1, <3>2, Zenon
  <2>9. IsInjective(more)
    <3> SUFFICES ASSUME NEW i \in DOMAIN more, NEW j \in DOMAIN more, more[i] = more[j]
                 PROVE  i = j
      BY Zenon DEF IsInjective
    <3>1. order[i + 1] = order[j + 1]
      BY <1>6, <2>6
    <3>2. i + 1 = j + 1
      BY <1>7, <2>6, <3>1, Zenon DEF IsInjective
    <3> QED
      BY <2>5, <2>6, <3>2
  <2>10. \A s \in Range(queue[p]) : s \in Senders /\ InQueue(s) /\ ~InSlot(s) /\ ~Held(s)
    <3>1. \A s \in Range(queue[p]) : s \in Senders
      BY <1>9, SMTT(30) DEF Range
    <3>2. \A s \in Range(queue[p]) : InQueue(s)
      BY <3>1, Zenon DEF TokenInv, InQueue
    <3> QED
      BY <3>1, <3>2, Zenon DEF TokenInv
  <2>11. \A s \in Range(more) : s \in Senders
    BY <2>6 DEF Range
  <2>12. /\ queue[p] \o more \in Seq(Senders) /\ IsInjective(queue[p] \o more)
         /\ queue[p] \o more # << >> => queue[p] # << >> \/ more # << >>
         /\ \A s : s \in Range(queue[p] \o more) <=> s \in Range(queue[p]) \/ s \in Range(more)
    <3>1. \A s : ~(s \in Range(queue[p]) /\ s \in Range(more))
      BY <2>8, <2>10, ZenonT(30)
    <3>2. queue[p] \in Seq(Senders)
      BY <1>9, Zenon
    <3> QED
      BY <1>9, <2>6, <2>9, <3>1, <3>2, ConcatRange, Zenon
  <2>13. /\ queue' \in [Pages -> Seq(Senders)] /\ queue'[p] = queue[p] \o more
         /\ \A j \in Pages \ {p} : queue'[j] = queue[j]
    BY <1>9, <2>4, <2>12, Zenon
  <2>14. /\ Receiving(f) /\ f.pc = "drain" /\ f.lane = l /\ f.released = None
    BY <1>1, <1>9, <2>7, ClaimReceiving, ZenonT(30)
  <2> HIDE DEF f
  <2>15. ~MakesClone(f)
    BY <2>14, ZenonT(30) DEF MakesClone
  <2>16. Moves(r) /\ rx'[r] = f
    BY <1>1, <2>4, <2>14, <2>15, ReceiverFrame, Zenon
  <2>17. \A s \in Senders : InQueue(s)' <=> InQueue(s) \/ s \in Range(more)
    <3>1. \A s \in Range(more) : Page(slotOf[s]) = p
      BY <1>6, <2>8, <2>11, ZenonT(30)
    <3> QED
      BY <1>1, <1>9, <2>12, <2>13, <3>1, ZenonT(30) DEF InQueue
  <2>18. \A s \in Senders : Held(s)' <=> Held(s) \/ s = l
    BY <1>9, <2>14, <2>16, ZenonT(30) DEF Held, Moves
  <2>19. \A s \in Senders : InSlot(s) /\ slotOf[s] = first <=> s = l
    BY <2>3, <2>7, Zenon DEF InSlot
  <2>20. \A s \in Senders : Present(s)' <=> Present(s)
    BY <1>10, <2>5, <2>8, <2>17, <2>18, <2>19, Zenon DEF Present
  <2>21. TokenInv'
    <3>1. \A k \in Slots : slots'[k] # None => slotOf'[slots'[k]] = k
      BY <1>1, <1>8, ZenonT(30) DEF TokenInv
    <3>2. \A j \in Pages : IsInjective(queue'[j])
      BY <2>12, <2>13, ZenonT(30) DEF TokenInv
    <3>3. \A j \in Pages : \A s \in Range(queue'[j]) : Page(slotOf'[s]) = j
      <4>1. \A s \in Range(more) : Page(slotOf[s]) = p
        BY <1>6, <2>8, <2>11, ZenonT(30)
      <4> QED
        BY <1>1, <2>12, <2>13, <4>1, ZenonT(30) DEF TokenInv
    <3>4. ~Held(l) /\ ~InQueue(l)
      BY <2>7, Zenon DEF TokenInv
    <3>5. \A q, t \in Receivers : rx'[q].lane = rx'[t].lane /\ rx'[t].lane # None => q = t
      <4>1. \A q \in Receivers : q # r => rx'[q].lane = rx[q].lane /\ rx[q].lane # l
        BY <2>16, <3>4, ZenonT(30) DEF Held, Moves
      <4>2. rx'[r].lane = l
        BY <2>14, <2>16, Zenon
      <4> QED
        BY <4>1, <4>2, ZenonT(30) DEF TokenInv
    <3>6. \A s \in Senders : InQueue(s)' \/ Held(s)' => ~InSlot(s)'
      BY <1>10, <2>5, <2>8, <2>17, <2>18, <2>19, ZenonT(30) DEF TokenInv
    <3>7. \A s \in Senders : ~(InQueue(s)' /\ Held(s)')
      BY <2>8, <2>17, <2>18, <2>19, <3>4, ZenonT(30) DEF TokenInv
    <3> QED
      BY <3>1, <3>2, <3>3, <3>5, <3>6, <3>7, ZenonT(30) DEF TokenInv
  <2>22. /\ workGroup' \subseteq Pages /\ workGroup \subseteq workGroup'
         /\ \A j \in Pages : queue'[j] # << >> => queue[j] # << >> \/ j \in workGroup'
    BY <1>9, <2>4, <2>6, <2>12, <2>13, ZenonT(30)
  <2> QED
    BY <1>12, <2>4, <2>13, <2>14, <2>15, <2>20, <2>21, <2>22, Zenon
<1> QED
  BY <1>13, <1>14, Zenon

\* A step that changes nothing the invariant is about: a spurious wakeup, or none at all.
LEMMA StutterInv ==
  ASSUME IInv, UNCHANGED <<laneSide, receiverAlive, queues, rx, sx, setup>>
  PROVE  IInv'
<1> USE DEF IInv
<1>1. /\ UNCHANGED <<ring, closed, shut, pending, pageBits, readyGroup, workGroup, queue, lock>>
      /\ UNCHANGED <<slots, slotOf, free, fresh, receiverAlive, queues, rx, sx, setup>>
  BY Zenon DEF laneSide, ringVars, readyVars, workVars, registryVars
<1>2. TypeOK' /\ LockInv' /\ CloneInv'
  BY <1>1, ZenonT(30) DEF TypeOK, LockInv, CloneInv
<1>8. ReturnInv'
  BY <1>1, Zenon DEF ReturnInv, At, Buffered, SenderAt
<1>3. TokensStay
  BY <1>1, Zenon DEF TokensStay
<1>4. TokenInv' /\ SlotInv' /\ \A s \in Senders : Present(s)' <=> Present(s)
  BY <1>3, TokensKept, Zenon
<1>5. LifeInv'
  BY <1>1, <1>4, Zenon DEF LifeInv, LaneLife, SenderAt
<1>6. NothingHidden'
  <2>1. /\ \A s, label : SenderAt(s, label)' <=> SenderAt(s, label)
        /\ \A r, label : At(r, label)' <=> At(r, label)
        /\ \A s : Buffered(s)' <=> Buffered(s)
    BY <1>1, Zenon DEF SenderAt, At, Buffered
  <2>2. LanesShown'
    BY <1>1, <2>1, Zenon DEF NothingHidden, LanesShown, LaneShown
  <2>3. PagesShown'
    BY <1>1, <2>1, Zenon DEF NothingHidden, PagesShown
  <2>4. QueuesShown'
    BY <1>1, SMTT(30) DEF NothingHidden, QueuesShown
  <2> QED
    BY <2>2, <2>3, <2>4, Zenon DEF NothingHidden
<1>7. SenderNotStranded'
  <2>1. \A s \in Senders : HasRoom(s)' <=> HasRoom(s)
    BY <1>1, Zenon DEF HasRoom
  <2> QED
    <3> SUFFICES ASSUME NEW s \in Senders, SenderAt(s, "parked")', ~sx'[s].notified,
                        receiverAlive', HasRoom(s)'
                 PROVE  \E r \in Receivers : rx'[r].released = s
      BY Zenon DEF SenderNotStranded
    <3>1. SenderAt(s, "parked") /\ ~sx[s].notified /\ receiverAlive /\ HasRoom(s)
      BY <1>1, <2>1 DEF SenderAt
    <3>2. \E r \in Receivers : rx[r].released = s
      BY <3>1, Zenon DEF SenderNotStranded
    <3> QED
      BY <1>1, <3>2, Zenon
<1> QED
  BY <1>2, <1>4, <1>5, <1>6, <1>7, <1>8, Zenon

\* Every step of every handle preserves the invariant.
LEMMA StepInv == IInv /\ [Next]_vars => IInv'
<1> SUFFICES ASSUME IInv, [Next]_vars
             PROVE  IInv'
  BY Zenon
<1>1. ASSUME NEW s \in Senders, SenderCall(s) \/ SenderStep(s)
      PROVE  IInv'
  BY <1>1, SendInv, WaitInv, MarkInv, RegisterInv, Zenon DEF SenderCall, SenderStep
<1>2. ASSUME NEW r \in Receivers, ReceiverCall(r) \/ HandleStep(r)
      PROVE  IInv'
  <2>1. \/ StartClone(r) \/ Cloned(r) \/ CloseSlots(r) \/ CloseQueues(r)
        \/ OtherStep(r) \/ DropStep(r)
    BY <1>2, Zenon DEF ReceiverCall, HandleStep, OtherStep, DropStep
  <2> QED
    BY <2>1, CloneInvKept, CloseSlotsInv, CloseQueuesInv, QuietInv, Zenon DEF QuietStep
<1>3. ASSUME NEW r \in Receivers, ReceiveStep(r)
      PROVE  IInv'
  <2>1. \/ TakeReady(r) \/ TakeWork(r) \/ RequeueMark(r) \/ Activate(r) \/ Requeue(r)
        \/ PopDirect(r) \/ PopAfterClaim(r) \/ DrainEmpty(r) \/ DrainLane(r) \/ FinishDrain(r)
        \/ Reload(r) \/ Dispose(r) \/ Space(r)
        \/ OtherStep(r) \/ StageStep(r) \/ ScanStep(r) \/ WaitStep(r)
    BY <1>3, ZenonT(30) DEF ReceiveStep, OtherStep, StageStep, ScanStep, WaitStep
  <2> QED
    BY <2>1, TakeInv, ActivateInv, RequeueInv, PopInv, DrainInv, FinishInv, DisposeInv, SpaceInv,
       QuietInv, Zenon DEF QuietStep
<1>4. ASSUME NEW r \in Receivers, WakeSpuriously(r)
      PROVE  IInv'
  BY <1>4, StutterInv, Zenon DEF WakeSpuriously, countVars, senderVars
<1>5. CASE UNCHANGED vars
  BY <1>5, StutterInv, Zenon DEF vars, laneSide, countVars, senderVars
<1> QED
  BY <1>1, <1>2, <1>3, <1>4, <1>5, Zenon DEF Next, Terminated

\* IInv is an invariant: tokens, slots, marks and notifications agree in every reachable
\* state, whatever the numbers of senders, receivers, slots and pages.
THEOREM Invariance == Spec => []IInv
<1>1. Init => IInv
  BY InitInv, Zenon
<1>2. IInv /\ [Next]_vars => IInv'
  BY StepInv
<1> QED
  BY <1>1, <1>2, PTL DEF Spec

\* What has a lane is one slot, one entry of one queue or one receiver.
LEMMA PlacesOfToken ==
  ASSUME IInv, NEW s \in Senders
  PROVE  /\ IF InSlot(s) THEN \E x : {k \in Slots : slots[k] = s} = {x}
                          ELSE {k \in Slots : slots[k] = s} = {}
         /\ IF InQueue(s) THEN \E x : Queued(s) = {x} ELSE Queued(s) = {}
         /\ IF Held(s) THEN \E x : Holders(s) = {x} ELSE Holders(s) = {}
<1> USE DEF IInv
<1>1. /\ s # None /\ slotOf[s] \in Slots /\ Page(slotOf[s]) \in Pages
      /\ queue \in [Pages -> Seq(Senders)]
  BY HandleAssumption, Zenon DEF None, TypeOK, Pages
<1>3. {k \in Slots : slots[k] = s} = IF InSlot(s) THEN {slotOf[s]} ELSE {}
  BY <1>1 DEF TokenInv, InSlot
<1>4. ~Held(s) => Holders(s) = {}
  BY Zenon DEF Holders, Held
<1>5. ASSUME Held(s)
      PROVE  \E r : Holders(s) = {r}
  <2>1. PICK r \in Receivers : rx[r].lane = s
    BY <1>5, Zenon DEF Held
  <2>2. Holders(s) = {r}
    BY <1>1, <2>1, Zenon DEF Holders, TokenInv
  <2> QED
    BY <2>2, Zenon
<1>6. ASSUME ~InQueue(s)
      PROVE  Queued(s) = {}
  <2>1. \A p \in Pages : s \notin Range(queue[p])
    BY <1>6, Zenon DEF TokenInv, InQueue
  <2>2. \A p \in Pages : {i \in DOMAIN queue[p] : queue[p][i] = s} = {}
    BY <2>1, Zenon DEF Range
  <2> QED
    BY <2>2, Zenon DEF Queued
<1>7. ASSUME InQueue(s)
      PROVE  \E x : Queued(s) = {x}
  <2>1. PICK p \in Pages : p = Page(slotOf[s])
    BY <1>1, Zenon
  <2>2. PICK i \in DOMAIN queue[p] : queue[p][i] = s
    BY <1>7, <2>1, Zenon DEF InQueue, Range
  <2>3. {j \in DOMAIN queue[p] : queue[p][j] = s} = {i}
    BY <2>2, ZenonT(30) DEF TokenInv, IsInjective
  <2>4. \A j \in Pages : s \in Range(queue[j]) => j = p
    BY <2>1, Zenon DEF TokenInv
  <2>5. \A j \in Pages : j # p => {m \in DOMAIN queue[j] : queue[j][m] = s} = {}
    BY <2>4, Zenon DEF Range
  <2>6. Queued(s) = {p} \X {i}
    <3>1. ASSUME NEW x \in Queued(s)
          PROVE  x \in {p} \X {i}
      <4>1. PICK j \in Pages : x \in {j} \X {m \in DOMAIN queue[j] : queue[j][m] = s}
        BY <3>1, Zenon DEF Queued
      <4> QED
        BY <2>3, <2>5, <4>1, Zenon
    <3>2. \A x \in {p} \X {i} : x \in Queued(s)
      BY <2>3 DEF Queued
    <3> QED
      BY <3>1, <3>2, Zenon
  <2>7. {p} \X {i} = {<<p, i>>}
    OBVIOUS
  <2> QED
    BY <2>6, <2>7, Zenon
<1> QED
  BY <1>3, <1>4, <1>5, <1>6, <1>7, Zenon

\* "one ready token exists per lane" (LanePage::push): of all slots, queues and receivers
\* at most one has a lane, none only before it is registered or after it is done with, and
\* install_lane finds the slot of a lane that is out empty.
THEOREM TokenIsUnique == Spec => []OneToken
<1>1. IInv => OneToken
  <2> SUFFICES ASSUME IInv, NEW s \in Senders
               PROVE  /\ \A x, y \in Places(s) : x = y
                      /\ Places(s) = {} => sx[s].pc = "new" \/ s \in shut
                                           \/ (s \in closed /\ ring[s].unread = 0)
                      /\ Holders(s) # {} => slots[slotOf[s]] = None
    BY Zenon DEF OneToken
  <2> USE DEF IInv
  <2>1. /\ IF InSlot(s) THEN \E x : {k \in Slots : slots[k] = s} = {x}
                         ELSE {k \in Slots : slots[k] = s} = {}
        /\ IF InQueue(s) THEN \E x : Queued(s) = {x} ELSE Queued(s) = {}
        /\ IF Held(s) THEN \E x : Holders(s) = {x} ELSE Holders(s) = {}
    BY PlacesOfToken, Zenon
  <2>2. ~(InSlot(s) /\ InQueue(s)) /\ ~(InSlot(s) /\ Held(s)) /\ ~(InQueue(s) /\ Held(s))
    BY Zenon DEF TokenInv
  <2>3. (\A x, y \in Places(s) : x = y) /\ (Places(s) = {} => ~Present(s))
    <3> DEFINE In == {k \in Slots : slots[k] = s}
    <3>1. Places(s) = ({"slot"} \X In) \union ({"queue"} \X Queued(s))
                        \union ({"receiver"} \X Holders(s))
      BY Zenon DEF Places
    <3> HIDE DEF In
    <3>2. \A t, x : {t} \X {x} = {<<t, x>>}
      OBVIOUS
    <3>3. \A t : {t} \X {} = {}
      BY Zenon
    <3>4. CASE InSlot(s)
      <4>1. PICK x : In = {x} /\ Queued(s) = {} /\ Holders(s) = {}
        BY <2>1, <2>2, <3>4, Zenon DEF In
      <4>2. Places(s) = {<<"slot", x>>}
        BY <3>1, <3>2, <3>3, <4>1, Zenon
      <4> QED
        BY <4>2, Zenon
    <3>5. CASE InQueue(s)
      <4>1. PICK x : In = {} /\ Queued(s) = {x} /\ Holders(s) = {}
        BY <2>1, <2>2, <3>5, Zenon DEF In
      <4>2. Places(s) = {<<"queue", x>>}
        BY <3>1, <3>2, <3>3, <4>1, Zenon
      <4> QED
        BY <4>2, Zenon
    <3>6. CASE Held(s)
      <4>1. PICK x : In = {} /\ Queued(s) = {} /\ Holders(s) = {x}
        BY <2>1, <2>2, <3>6, Zenon DEF In
      <4>2. Places(s) = {<<"receiver", x>>}
        BY <3>1, <3>2, <3>3, <4>1, Zenon
      <4> QED
        BY <4>2, Zenon
    <3>7. CASE ~Present(s)
      <4>1. In = {} /\ Queued(s) = {} /\ Holders(s) = {}
        BY <2>1, <3>7, Zenon DEF In, Present
      <4>2. Places(s) = {}
        BY <3>1, <3>3, <4>1, Zenon
      <4> QED
        BY <3>7, <4>2, Zenon
    <3> QED
      BY <3>4, <3>5, <3>6, <3>7, Zenon DEF Present
  <2>4. ~Present(s) => sx[s].pc = "new" \/ s \in shut \/ (s \in closed /\ ring[s].unread = 0)
    BY Zenon DEF LifeInv, LaneLife, SenderAt
  <2>5. ASSUME Holders(s) # {}
        PROVE  slots[slotOf[s]] = None
    <3>1. Held(s) /\ Present(s) /\ ~InSlot(s)
      BY <2>2, <2>5, Zenon DEF Holders, Held, Present
    <3>2. slotOf[s] \in Slots /\ slots[slotOf[s]] \in Senders \union {None}
      BY Zenon DEF TypeOK
    <3>3. ASSUME NEW t \in Senders, t = slots[slotOf[s]]
          PROVE  FALSE
      <4>1. t # None
        BY HandleAssumption, Zenon DEF None
      <4>2. slotOf[t] = slotOf[s]
        BY <3>2, <3>3, <4>1, Zenon DEF TokenInv
      <4>3. Present(t)
        BY <3>3, <4>2, Zenon DEF Present, InSlot
      <4>4. t = s
        BY <3>1, <4>2, <4>3, Zenon DEF SlotInv
      <4> QED
        BY <3>1, <3>3, <4>4, Zenon DEF InSlot
    <3> QED
      BY <3>2, <3>3, Zenon
  <2> QED
    BY <2>3, <2>4, <2>5, Zenon
<1> QED
  BY <1>1, Invariance, PTL

\* No value and no queued lane is out of sight of a receiver that looks at the ready group
\* and the work group, unless a handle is still on its way to mark it.
THEOREM LanesAreFound == Spec => []NothingHidden
<1>1. IInv => NothingHidden
  BY Zenon DEF IInv
<1> QED
  BY <1>1, Invariance, PTL

\* A sender that sleeps beside free slots is about to be notified by the receiver that
\* released them, as long as there are receivers.
THEOREM SenderIsNotStranded == Spec => []SenderNotStranded
<1>1. IInv => SenderNotStranded
  BY Zenon DEF IInv
<1> QED
  BY <1>1, Invariance, PTL
=============================================================================
