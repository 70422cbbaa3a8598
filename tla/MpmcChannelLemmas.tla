------------------------- MODULE MpmcChannelLemmas -------------------------
(***************************************************************************)
(* Lemmas about the MPMC channel: what a receiver becomes, and how the     *)
(* steps of the senders, and those of a receiver that takes, drains, moves *)
(* or puts back the token of a lane, keep the inductive invariant.         *)
(***************************************************************************)
EXTENDS MpmcChannel, TLAPS

-----------------------------------------------------------------------------
(* What a receiver becomes. *)

\* The first page exists: build_channel makes the first slot.
LEMMA FirstPage == 0 \in Pages
  BY LimitAssumption DEF Pages, Page, Slots

\* A receiver between calls holds nothing.
LEMMA IdleReceiving == Receiving(Idle)
  BY FirstPage DEF Receiving, Idle, HasLane, None

\* A publication that ends (Publication::drop) leaves the rest of the state as it is.
LEMMA EndingReceiving ==
  ASSUME NEW e, Receiving(e), NEW then \in Resumes, e.pc \notin HasLane,
         e.released # None => then = "return"
  PROVE  /\ Receiving(Ending(e, then))
         /\ Ending(e, then).released = e.released /\ Ending(e, then).pc = "advance"
         /\ Ending(e, then).then = then
  BY DEF Receiving, Ending, Idle, HasLane, Settling

\* After a drained lane is given away, the receive returns what it has (the effects of
\* drain_lane among it) or starts its next round.
LEMMA AfterDrainReceiving ==
  ASSUME NEW e, DOMAIN e = DOMAIN Idle, e.plan \in Seq({"ready", "direct", "work"}),
         e.page \in Pages, e.rest \subseteq Receivers, e.peer \in Receivers \union {None},
         e.lane = None, e.released \in Senders \union {None}
  PROVE  /\ Receiving(AfterDrain(e)) /\ AfterDrain(e).pc = "advance"
         /\ AfterDrain(e).lane = None /\ AfterDrain(e).released = e.released
         /\ AfterDrain(e).then \in {"staged", "return"}
  BY DEF Receiving, AfterDrain, Ending, NextRound, HasEffect, Idle, HasLane, Settling, Resumes

\* Nothing was found, and the search goes on.
LEMMA NothingReceiving ==
  ASSUME NEW e, Receiving(e), e.pc \notin HasLane, e.released = None, e.plan # << >>
  PROVE  /\ Receiving(Nothing(e)) /\ Nothing(e).pc = "advance" /\ Nothing(e).then = "search"
         /\ Nothing(e).lane = None /\ Nothing(e).released = None
  BY FirstPage DEF Receiving, Nothing, Onward, Ending, Idle, HasLane, Resumes

\* A lane is claimed with its token.
LEMMA ClaimReceiving ==
  ASSUME NEW e, Receiving(e), e.released = None, NEW l \in Senders
  PROVE  /\ Receiving(Claim(e, l)) /\ Claim(e, l).pc = "drain" /\ Claim(e, l).lane = l
         /\ Claim(e, l).released = None
  BY FirstPage, HandleAssumption DEF Receiving, Claim, Idle, HasLane, None

-----------------------------------------------------------------------------
(* Receivers that touch no lane. *)

\* Where a receiver touches lanes, pages or queues.
Busy == HasLane \union {"activate", "claimed", "mark"}

\* Elsewhere a step of it neither takes nor loses anything that the invariant is about.
Follows(e, f) ==
  /\ Receiving(f) /\ e.pc \notin Busy \union {"new"} /\ f.pc \notin Busy
  /\ f.released = e.released
  /\ MakesClone(f) => MakesClone(e) /\ f.peer = e.peer
Moves(r) == DOMAIN rx' = Receivers /\ \A q \in Receivers \ {r} : rx'[q] = rx[q]

ScanStep(r) == Scan(r) \/ InFlight(r) \/ IsDrained(r) \/ InFlightStill(r) \/ Rescan(r)
StageStep(r) ==
  \/ PopStaged(r) \/ Snapshot(r) \/ PopOrphaned(r) \/ HasReadyLane(r)
  \/ Steal(r) \/ StealTake(r) \/ StealPut(r) \/ Search(r)
WaitStep(r) ==
  \/ Return(r) \/ Notify(r) \/ SignalWaiters(r)
  \/ RegisterWaiter(r) \/ ParkReceiver(r) \/ Wake(r)
DropStep(r) ==
  \/ StartDrop(r) \/ DropPrivate(r) \/ DropTake(r) \/ DropPut(r)
  \/ DropUnregister(r) \/ DropCount(r) \/ DropNotify(r) \/ CloseChannel(r)
OtherStep(r) ==
  \/ EndAdvance(r) \/ EndLeave(r) \/ StartRecv(r) \/ LastLane(r)
  \/ CloneStaged(r) \/ CloneRegister(r) \/ CloneCount(r)
QuietStep(r) == ScanStep(r) \/ StageStep(r) \/ WaitStep(r) \/ DropStep(r) \/ OtherStep(r)

\* The call goes on where run and try_recv_lanes say, once the effects are applied.
LEMMA ArriveReceiving ==
  ASSUME NEW e, e.then \in Arrivals
  PROVE  /\ Receiving(Arrive(e)) /\ Arrive(e).released = None
         /\ Arrive(e).pc \notin Busy /\ ~MakesClone(Arrive(e))
<1>1. \/ e.then = "idle" \/ e.then = "attempt" \/ e.then = "again" \/ e.then = "register"
      \/ e.then = "gone"
  BY DEF Arrivals
<1> QED
  BY <1>1, FirstPage
  DEF Arrive, Receiving, HasLane, Resumes, Arrivals, Settling, Busy, MakesClone, Idle, None

\* apply_effects keeps the lane to notify until it is notified.
LEMMA ApplyReceiving ==
  ASSUME NEW e, Receiving(e), e.pc \in {"return", "space"}, e.then \in Arrivals
  PROVE  /\ Receiving(Apply(e)) /\ Apply(e).released = e.released
         /\ Apply(e).pc \notin Busy /\ ~MakesClone(Apply(e))
<1>1. CASE e.released # None
  <2>1. Apply(e) = [e EXCEPT !.pc = "space"]
    BY <1>1 DEF Apply
  <2> QED
    BY <2>1 DEF Receiving, HasLane, Settling, Busy, MakesClone, Idle
<1>2. CASE e.released = None /\ e.wake # None
  <2>1. Apply(e) = [e EXCEPT !.pc = "notify"]
    BY <1>2 DEF Apply
  <2> QED
    BY <1>2, <2>1 DEF Receiving, HasLane, Settling, Busy, MakesClone, Idle
<1>3. CASE e.released = None /\ e.wake = None
  BY <1>3, ArriveReceiving DEF Apply
<1> QED
  BY <1>1, <1>2, <1>3

\* A receive that returns either parks, with nothing to announce, or applies its effects.
LEMMA ReturnFollows ==
  ASSUME NEW e, Receiving(e), e.pc = "return"
  PROVE  /\ Parks(e) => Follows(e, [e EXCEPT !.pc = "park"])
         /\ Follows(e, Apply([e EXCEPT !.then = Onwards(e), !.got = 0, !.progressed = FALSE,
                                       !.result = None, !.round = 0]))
<1> USE DEF Receiving, HasLane, Resumes, Arrivals, Settling, Busy, MakesClone, Follows, Idle, None
<1>1. Parks(e) => Follows(e, [e EXCEPT !.pc = "park"])
  BY DEF Parks, MustRetry, HasEffect
<1> DEFINE f == [e EXCEPT !.then = Onwards(e), !.got = 0, !.progressed = FALSE, !.result = None,
                          !.round = 0]
<1>2. Onwards(e) \in Arrivals
  BY DEF Onwards
<1>3. Receiving(f) /\ f.then = Onwards(e) /\ f.pc = "return" /\ f.released = e.released
  BY <1>2
<1> HIDE DEF f, Receiving, MakesClone, Arrivals
<1> DEFINE g == Apply(f)
<1>4. Receiving(g) /\ g.released = e.released /\ g.pc \notin Busy /\ ~MakesClone(g)
  BY <1>2, <1>3, ApplyReceiving
<1> HIDE DEF g
<1>5. Follows(e, g)
  BY <1>4
<1> QED
  BY <1>1, <1>5 DEF f, g

\* The last lane retired is announced after the drain.
LEMMA LastLaneFollows ==
  ASSUME NEW e, Receiving(e), e.pc = "lastLane", NEW wake
  PROVE  Follows(e, AfterDrain([e EXCEPT !.wake = wake]))
<1> DEFINE f == [e EXCEPT !.wake = wake]
<1>1. /\ DOMAIN f = DOMAIN Idle /\ f.plan \in Seq({"ready", "direct", "work"})
      /\ f.page \in Pages /\ f.rest \subseteq Receivers /\ f.peer \in Receivers \union {None}
      /\ f.lane = None /\ f.released \in Senders \union {None} /\ f.released = e.released
  BY DEF Receiving, HasLane, Idle
<1> HIDE DEF f
<1> DEFINE g == AfterDrain(f)
<1>2. /\ Receiving(g) /\ g.pc = "advance" /\ g.released = e.released
      /\ g.then \in {"staged", "return"}
  BY <1>1, AfterDrainReceiving, Zenon
<1> HIDE DEF g
<1>3. Follows(e, g)
  BY <1>2 DEF Follows, MakesClone, Busy, HasLane
<1> QED
  BY <1>3 DEF f, g

\* A step of pop_work, has_ready_lane, steal_batch_into and acquire_lane, of the scan that
\* follows a fruitless search, and of the end of a publication.
LEMMA SearchFollows ==
  ASSUME NEW e, Receiving(e)
  PROVE  /\ e.pc = "staged" => /\ Follows(e, [e EXCEPT !.pc = "return", !.got = 1])
                               /\ Follows(e, [e EXCEPT !.pc = "orphaned"])
         /\ e.pc = "orphaned" => /\ Follows(e, [e EXCEPT !.pc = "return", !.got = 1])
                                 /\ Follows(e, [e EXCEPT !.pc = "hasReady"])
         /\ e.pc \in {"hasReady", "steal"} =>
              \A plan \in {<<"ready", "direct", "work">>, <<"direct", "work", "ready">>} :
                Follows(e, [e EXCEPT !.pc = "search", !.plan = plan])
         /\ e.pc = "hasReady" =>
              \A rest \in SUBSET Receivers : Follows(e, [e EXCEPT !.pc = "steal", !.rest = rest])
         /\ e.pc = "steal" => \A v \in e.rest :
              /\ Follows(e, [e EXCEPT !.rest = @ \ {v}])
              /\ Follows(e, [e EXCEPT !.pc = "stealTake", !.rest = @ \ {v}, !.peer = v])
         /\ e.pc = "stealTake" =>
              /\ Follows(e, Ending([e EXCEPT !.peer = None], "steal"))
              /\ \A n : Follows(e, [e EXCEPT !.pc = "stealPut", !.peer = None, !.rest = {},
                                           !.got = 1, !.hand = n])
         /\ e.pc = "stealPut" => Follows(e, Ending([e EXCEPT !.hand = 0], "return"))
         /\ e.pc = "search" => Follows(e, [e EXCEPT !.pc = "scan"])
         /\ e.pc = "search" /\ e.plan # << >> =>
              /\ Follows(e, Onward(e))
              /\ \A p \in Pages : Follows(e, [e EXCEPT !.pc = Head(e.plan), !.page = p])
<1> USE DEF Receiving, HasLane, Resumes, Settling, Busy, MakesClone, Follows, Idle, Ending
<1>1. ASSUME e.pc = "staged"
      PROVE  /\ Follows(e, [e EXCEPT !.pc = "return", !.got = 1])
             /\ Follows(e, [e EXCEPT !.pc = "orphaned"])
  BY <1>1, ZenonT(30)
<1>2. ASSUME e.pc = "orphaned"
      PROVE  /\ Follows(e, [e EXCEPT !.pc = "return", !.got = 1])
             /\ Follows(e, [e EXCEPT !.pc = "hasReady"])
  BY <1>2
<1>3. ASSUME e.pc \in {"hasReady", "steal"},
             NEW plan \in {<<"ready", "direct", "work">>, <<"direct", "work", "ready">>}
      PROVE  Follows(e, [e EXCEPT !.pc = "search", !.plan = plan])
  <2>1. /\ <<"ready", "direct", "work">> \in Seq({"ready", "direct", "work"})
        /\ <<"direct", "work", "ready">> \in Seq({"ready", "direct", "work"})
    BY SMT
  <2>2. plan \in Seq({"ready", "direct", "work"})
    BY <2>1, Zenon
  <2> QED
    BY <1>3, <2>2, Zenon
<1>4. ASSUME e.pc = "hasReady", NEW rest \in SUBSET Receivers
      PROVE  Follows(e, [e EXCEPT !.pc = "steal", !.rest = rest])
  BY <1>4, Zenon
<1>5. ASSUME e.pc = "steal", NEW v \in e.rest
      PROVE  /\ Follows(e, [e EXCEPT !.rest = @ \ {v}])
             /\ Follows(e, [e EXCEPT !.pc = "stealTake", !.rest = @ \ {v}, !.peer = v])
  BY <1>5, Zenon
<1>6. ASSUME e.pc = "stealTake"
      PROVE  Follows(e, Ending([e EXCEPT !.peer = None], "steal"))
  BY <1>6
<1>10. ASSUME e.pc = "stealTake", NEW n
       PROVE  Follows(e, [e EXCEPT !.pc = "stealPut", !.peer = None, !.rest = {}, !.got = 1,
                                   !.hand = n])
  BY <1>10
<1>7. ASSUME e.pc = "stealPut"
      PROVE  Follows(e, Ending([e EXCEPT !.hand = 0], "return"))
  BY <1>7
<1>8. ASSUME e.pc = "search"
      PROVE  Follows(e, [e EXCEPT !.pc = "scan"])
  BY <1>8
<1>9. ASSUME e.pc = "search", e.plan # << >>, NEW p \in Pages
      PROVE  Follows(e, Onward(e)) /\ Follows(e, [e EXCEPT !.pc = Head(e.plan), !.page = p])
  <2>1. Head(e.plan) \in {"ready", "direct", "work"} /\ Tail(e.plan) \in Seq({"ready", "direct", "work"})
    BY <1>9
  <2> QED
    BY <1>9, <2>1, FirstPage, ZenonT(30) DEF Onward
<1> HIDE DEF Receiving, Follows, Ending
<1> QED
  BY <1>1, <1>2, <1>3, <1>4, <1>5, <1>6, <1>7, <1>8, <1>9, <1>10, FirstPage, Zenon

\* A step of empty_scan_state, and the end of a publication.
LEMMA ScanFollows ==
  ASSUME NEW e, Receiving(e)
  PROVE  /\ e.pc \in {"scan", "inFlight", "isDrained", "inFlightStill", "rescan"} =>
              /\ Follows(e, ScanChanged(e))
              /\ \A result : Follows(e, ScanEnd(e, result))
              /\ \A next \in {"inFlight", "isDrained", "inFlightStill", "rescan"} :
                   Follows(e, [e EXCEPT !.pc = next])
         /\ e.pc = "advance" => Follows(e, [e EXCEPT !.pc = "leave"])
         /\ e.pc = "leave" => Follows(e, [e EXCEPT !.pc = e.then, !.then = None])
<1> USE DEF Receiving, HasLane, Resumes, Settling, Busy, MakesClone, Follows, Idle
<1>1. ASSUME e.pc \in {"scan", "inFlight", "isDrained", "inFlightStill", "rescan"}
      PROVE  Follows(e, ScanChanged(e))
  BY <1>1 DEF ScanChanged, NextRound, None
<1>2. ASSUME e.pc \in {"scan", "inFlight", "isDrained", "inFlightStill", "rescan"}, NEW result
      PROVE  Follows(e, ScanEnd(e, result))
  BY <1>2, ZenonT(30) DEF ScanEnd
<1>3. ASSUME e.pc \in {"scan", "inFlight", "isDrained", "inFlightStill", "rescan"},
             NEW next \in {"inFlight", "isDrained", "inFlightStill", "rescan"}
      PROVE  Follows(e, [e EXCEPT !.pc = next])
  BY <1>3, ZenonT(30)
<1>4. ASSUME e.pc = "advance"
      PROVE  Follows(e, [e EXCEPT !.pc = "leave"])
  BY <1>4
<1>5. ASSUME e.pc = "leave"
      PROVE  Follows(e, [e EXCEPT !.pc = e.then, !.then = None])
  BY <1>5, Zenon
<1> HIDE DEF Receiving, Follows
<1> QED
  BY <1>1, <1>2, <1>3, <1>4, <1>5, Zenon

\* A call or a wait begins or ends, and a receiver is cloned or dropped.
LEMMA HandleFollows ==
  ASSUME NEW e, Receiving(e)
  PROVE  /\ e.pc \in {"idle", "register", "park", "asleep", "dropCount", "dropNotify"} =>
              /\ \A mode : Follows(e, [Idle EXCEPT !.pc = "staged", !.mode = mode])
              /\ \A next \in {"drop", "close", "dropNotify", "gone"} :
                   Follows(e, [Idle EXCEPT !.pc = next])
              /\ Follows(e, [Idle EXCEPT !.pc = "notify", !.wake = "all", !.then = "gone"])
         /\ e.pc = "park" => Follows(e, [e EXCEPT !.pc = "asleep"])
         /\ e.pc = "notify" => Follows(e, [e EXCEPT !.pc = "signal"])
         /\ e.pc \in {"notify", "signal"} => Follows(e, Arrive(e))
         /\ e.pc = "drop" => \A b : Follows(e, [e EXCEPT !.pc = "dropTake", !.progressed = b])
         /\ e.pc = "dropTake" =>
              \A b, n : Follows(e, [e EXCEPT !.pc = "dropPut", !.hand = n, !.progressed = b])
         /\ e.pc = "dropPut" => Follows(e, [e EXCEPT !.pc = "dropUnregister", !.hand = 0])
         /\ e.pc = "dropUnregister" => Follows(e, Ending(e, "dropCount"))
         /\ e.pc = "close" => Follows(e, [e EXCEPT !.pc = "closeSlots"])
         /\ e.pc = "clone" => Follows(e, [e EXCEPT !.pc = "cloneRegister"])
         /\ e.pc = "cloneRegister" => Follows(e, [e EXCEPT !.pc = "cloneCount"])
         /\ e.pc = "cloneCount" => Follows(e, Ending(e, "cloned"))
<1> USE DEF Receiving, HasLane, Resumes, Settling, Busy, MakesClone, Follows, Idle, Ending
<1>1. ASSUME e.pc \in {"idle", "register", "park", "asleep", "dropCount", "dropNotify"}, NEW mode
      PROVE  Follows(e, [Idle EXCEPT !.pc = "staged", !.mode = mode])
  BY <1>1, FirstPage DEF None
<1>2. ASSUME e.pc \in {"idle", "register", "park", "asleep", "dropCount", "dropNotify"},
             NEW next \in {"drop", "close", "dropNotify", "gone"}
      PROVE  Follows(e, [Idle EXCEPT !.pc = next])
  BY <1>2, FirstPage DEF None
<1>3. ASSUME e.pc \in {"idle", "register", "park", "asleep", "dropCount", "dropNotify"}
      PROVE  Follows(e, [Idle EXCEPT !.pc = "notify", !.wake = "all", !.then = "gone"])
  BY <1>3, FirstPage DEF None, Arrivals
<1>4. ASSUME e.pc \in {"notify", "signal"}
      PROVE  Follows(e, Arrive(e))
  <2>1. e.then \in Arrivals /\ e.released = None
    BY <1>4, Zenon
  <2> HIDE DEF Receiving, MakesClone
  <2> QED
    BY <1>4, <2>1, ArriveReceiving, Zenon
<1>5. /\ e.pc = "park" => Follows(e, [e EXCEPT !.pc = "asleep"])
      /\ e.pc = "notify" => Follows(e, [e EXCEPT !.pc = "signal"])
  BY ZenonT(30)
<1>6. ASSUME e.pc = "drop", NEW b
      PROVE  Follows(e, [e EXCEPT !.pc = "dropTake", !.progressed = b])
  BY <1>6
<1>7. ASSUME e.pc = "dropTake", NEW b, NEW n
      PROVE  Follows(e, [e EXCEPT !.pc = "dropPut", !.hand = n, !.progressed = b])
  BY <1>7, ZenonT(30)
<1>8. /\ e.pc = "dropPut" => Follows(e, [e EXCEPT !.pc = "dropUnregister", !.hand = 0])
      /\ e.pc = "dropUnregister" => Follows(e, Ending(e, "dropCount"))
  BY ZenonT(30)
<1>9. /\ e.pc = "close" => Follows(e, [e EXCEPT !.pc = "closeSlots"])
      /\ e.pc = "clone" => Follows(e, [e EXCEPT !.pc = "cloneRegister"])
  BY Zenon
<1>10. /\ e.pc = "cloneRegister" => Follows(e, [e EXCEPT !.pc = "cloneCount"])
       /\ e.pc = "cloneCount" => Follows(e, Ending(e, "cloned"))
  BY Zenon
<1> HIDE DEF Receiving, Follows, Ending
<1> QED
  BY <1>1, <1>2, <1>3, <1>4, <1>5, <1>6, <1>7, <1>8, <1>9, <1>10, Zenon

\* Steps that touch no lane.
LEMMA QuietMoves ==
  ASSUME TypeOK, NEW r \in Receivers, QuietStep(r)
  PROVE  Moves(r) /\ Follows(rx[r], rx'[r])
<1>1. Receiving(rx[r]) /\ DOMAIN rx = Receivers /\ queues \subseteq Receivers
  BY Zenon DEF TypeOK
<1>2. ASSUME NEW f, rx' = [rx EXCEPT ![r] = f], Follows(rx[r], f)
      PROVE  Moves(r) /\ Follows(rx[r], rx'[r])
  BY <1>1, <1>2 DEF Moves
<1> USE DEF At, To, Become, Begin
<1>3. CASE StageStep(r)
  <2>1. CASE PopStaged(r) \/ Snapshot(r) \/ PopOrphaned(r)
    BY <1>1, <1>2, <2>1, SearchFollows, Zenon DEF PopStaged, Snapshot, PopOrphaned
  <2>2. CASE HasReadyLane(r)
    BY <1>1, <1>2, <2>2, SearchFollows, Zenon DEF HasReadyLane, AcquireLane
  <2>3. CASE Steal(r)
    <3>1. \/ rx' = [rx EXCEPT ![r] = [rx[r] EXCEPT !.pc = "search",
                                                   !.plan = <<"ready", "direct", "work">>]]
          \/ rx' = [rx EXCEPT ![r] = [rx[r] EXCEPT !.pc = "search",
                                                   !.plan = <<"direct", "work", "ready">>]]
          \/ \E v \in rx[r].rest :
               \/ rx' = [rx EXCEPT ![r] = [rx[r] EXCEPT !.rest = @ \ {v}]]
               \/ rx' = [rx EXCEPT ![r] = [rx[r] EXCEPT !.pc = "stealTake", !.rest = @ \ {v},
                                                        !.peer = v]]
      BY <2>3, Zenon DEF Steal, AcquireLane
    <3>2. /\ \A plan \in {<<"ready", "direct", "work">>, <<"direct", "work", "ready">>} :
               Follows(rx[r], [rx[r] EXCEPT !.pc = "search", !.plan = plan])
          /\ \A v \in rx[r].rest :
               /\ Follows(rx[r], [rx[r] EXCEPT !.rest = @ \ {v}])
               /\ Follows(rx[r], [rx[r] EXCEPT !.pc = "stealTake", !.rest = @ \ {v}, !.peer = v])
      BY <1>1, <2>3, SearchFollows, Zenon DEF Steal
    <3> QED
      BY <1>2, <3>1, <3>2, Zenon
  <2>4. CASE StealTake(r)
    <3>1. \/ rx' = [rx EXCEPT ![r] = Ending([rx[r] EXCEPT !.peer = None], "steal")]
          \/ \E n : rx' = [rx EXCEPT ![r] = [rx[r] EXCEPT !.pc = "stealPut", !.peer = None,
                                                         !.rest = {}, !.got = 1, !.hand = n]]
      BY <2>4, Zenon DEF StealTake
    <3>2. /\ Follows(rx[r], Ending([rx[r] EXCEPT !.peer = None], "steal"))
          /\ \A n : Follows(rx[r], [rx[r] EXCEPT !.pc = "stealPut", !.peer = None, !.rest = {},
                                                 !.got = 1, !.hand = n])
      BY <1>1, <2>4, SearchFollows, Zenon DEF StealTake
    <3> QED
      BY <1>2, <3>1, <3>2, Zenon
  <2>5. CASE StealPut(r)
    BY <1>1, <1>2, <2>5, SearchFollows, Zenon DEF StealPut
  <2>6. CASE Search(r)
    <3>1. \/ rx' = [rx EXCEPT ![r] = [rx[r] EXCEPT !.pc = "scan"]]
          \/ /\ rx[r].plan # << >>
             /\ \/ rx' = [rx EXCEPT ![r] = Onward(rx[r])]
                \/ \E p \in Pages : rx' = [rx EXCEPT ![r] = [rx[r] EXCEPT !.pc = Head(rx[r].plan),
                                                                         !.page = p]]
      BY <2>6, FirstPage, Zenon DEF Search
    <3> QED
      BY <1>1, <1>2, <2>6, <3>1, SearchFollows, Zenon DEF Search
  <2> QED
    BY <1>3, <2>1, <2>2, <2>3, <2>4, <2>5, <2>6, Zenon DEF StageStep
<1>4. CASE ScanStep(r)
  BY <1>1, <1>2, <1>4, ScanFollows, Zenon
  DEF ScanStep, Scan, InFlight, IsDrained, InFlightStill, Rescan
<1>5. CASE WaitStep(r)
  <2>1. CASE Return(r)
    BY <1>1, <1>2, <2>1, ReturnFollows, Zenon DEF Return
  <2>2. CASE Notify(r) \/ SignalWaiters(r)
    BY <1>1, <1>2, <2>2, HandleFollows, Zenon DEF Notify, SignalWaiters
  <2>3. CASE RegisterWaiter(r) \/ ParkReceiver(r) \/ Wake(r)
    BY <1>1, <1>2, <2>3, HandleFollows, Zenon DEF RegisterWaiter, ParkReceiver, Wake
  <2> QED
    BY <1>5, <2>1, <2>2, <2>3, Zenon DEF WaitStep
<1>6. CASE DropStep(r)
  <2>1. CASE StartDrop(r)
    BY <1>1, <1>2, <2>1, HandleFollows, Zenon DEF StartDrop
  <2>4. CASE DropPrivate(r)
    <3> DEFINE any == private[r] > 0
    <3>1. /\ rx[r].pc = "drop"
          /\ rx' = [rx EXCEPT ![r] = [rx[r] EXCEPT !.pc = "dropTake", !.progressed = any]]
      BY <2>4, Zenon DEF DropPrivate
    <3> HIDE DEF any
    <3>2. Follows(rx[r], [rx[r] EXCEPT !.pc = "dropTake", !.progressed = any])
      BY <1>1, <3>1, HandleFollows, Zenon
    <3> QED
      BY <1>2, <3>1, <3>2, Zenon
  <2>3. CASE DropTake(r)
    <3> DEFINE any == rx[r].progressed \/ local[r] > 0
    <3>1. /\ rx[r].pc = "dropTake"
          /\ rx' = [rx EXCEPT ![r] = [rx[r] EXCEPT !.pc = "dropPut", !.hand = local[r],
                                                   !.progressed = any]]
      BY <2>3, Zenon DEF DropTake
    <3> HIDE DEF any
    <3>2. Follows(rx[r], [rx[r] EXCEPT !.pc = "dropPut", !.hand = local[r], !.progressed = any])
      BY <1>1, <3>1, HandleFollows, Zenon
    <3> QED
      BY <1>2, <3>1, <3>2, Zenon
  <2>5. CASE DropPut(r)
    BY <1>1, <1>2, <2>5, HandleFollows, Zenon DEF DropPut
  <2>2. CASE DropUnregister(r) \/ DropCount(r) \/ DropNotify(r) \/ CloseChannel(r)
    BY <1>1, <1>2, <2>2, HandleFollows, Zenon
    DEF DropUnregister, DropCount, DropNotify, CloseChannel
  <2> QED
    BY <1>6, <2>1, <2>2, <2>3, <2>4, <2>5, Zenon DEF DropStep
<1>7. CASE OtherStep(r)
  <2>1. CASE EndAdvance(r) \/ EndLeave(r)
    BY <1>1, <1>2, <2>1, ScanFollows, Zenon DEF EndAdvance, EndLeave
  <2>2. CASE LastLane(r)
    BY <1>1, <1>2, <2>2, LastLaneFollows, Zenon DEF LastLane
  <2>3. CASE StartRecv(r) \/ CloneStaged(r) \/ CloneRegister(r) \/ CloneCount(r)
    BY <1>1, <1>2, <2>3, HandleFollows, Zenon DEF StartRecv, CloneStaged, CloneRegister, CloneCount
  <2> QED
    BY <1>7, <2>1, <2>2, <2>3, Zenon DEF OtherStep
<1> QED
  BY <1>3, <1>4, <1>5, <1>6, <1>7, Zenon DEF QuietStep

-----------------------------------------------------------------------------
(* What a step that moves no token keeps. *)

\* The tokens stay where they are and so do the slots.
TokensStay ==
  /\ UNCHANGED <<queue, slots, slotOf, free, fresh>>
  /\ \A r \in Receivers : rx'[r].lane = rx[r].lane
LEMMA TokensKept ==
  ASSUME TokensStay, TokenInv, SlotInv
  PROVE  TokenInv' /\ SlotInv' /\ \A s \in Senders : Present(s)' <=> Present(s)
<1>1. \A s \in Senders : /\ InSlot(s)' <=> InSlot(s)
                         /\ InQueue(s)' <=> InQueue(s)
                         /\ Held(s)' <=> Held(s)
  BY Zenon DEF TokensStay, InSlot, InQueue, Held
<1>2. \A s \in Senders : Present(s)' <=> Present(s)
  BY <1>1, Zenon DEF Present
<1>3. TokenInv'
  BY <1>1, Zenon DEF TokensStay, TokenInv
<1>4. SlotInv'
  BY <1>2, Zenon DEF TokensStay, SlotInv
<1> QED
  BY <1>2, <1>3, <1>4, Zenon

\* Senders stay where they are, but for a notification.
SendersStay ==
  \A s \in Senders : /\ sx'[s].pc = sx[s].pc
                     /\ sx'[s].dropping <=> sx[s].dropping
                     /\ sx[s].notified => sx'[s].notified

\* A receiver that lets go of its lane, or takes one that no other has, leaves no lane with
\* two receivers.
LEMMA HoldersApart ==
  ASSUME TokenInv, NEW r \in Receivers, Moves(r),
         rx'[r].lane = None \/ \A q \in Receivers \ {r} : rx[q].lane # rx'[r].lane
  PROVE  \A q, t \in Receivers : rx'[q].lane = rx'[t].lane /\ rx'[t].lane # None => q = t
<1> SUFFICES ASSUME NEW q \in Receivers, NEW t \in Receivers,
                    rx'[q].lane = rx'[t].lane, rx'[t].lane # None
             PROVE  q = t
  BY Zenon
<1>1. CASE q # r /\ t # r
  <2>1. rx'[q] = rx[q] /\ rx'[t] = rx[t]
    BY <1>1, Zenon DEF Moves
  <2>2. rx[q].lane = rx[t].lane /\ rx[t].lane # None
    BY <2>1, Zenon
  <2> QED
    BY <2>2, Zenon DEF TokenInv
<1>2. CASE q = r /\ t # r
  <2>1. rx'[t] = rx[t]
    BY <1>2, Zenon DEF Moves
  <2> QED
    BY <1>2, <2>1, Zenon
<1>3. CASE q # r /\ t = r
  <2>1. rx'[q] = rx[q]
    BY <1>3, Zenon DEF Moves
  <2> QED
    BY <1>3, <2>1, Zenon
<1> QED
  BY <1>1, <1>2, <1>3, Zenon

\* A receiver that neither makes a clone nor is one leaves the clones alone.
LEMMA ClonesKept ==
  ASSUME CloneInv, NEW r \in Receivers, Moves(r), rx[r].pc # "new",
         \A q \in Receivers : rx[q].peer \in Receivers \union {None},
         MakesClone(rx'[r]) => MakesClone(rx[r]) /\ rx'[r].peer = rx[r].peer
  PROVE  CloneInv'
<1>1. \A q \in Receivers : MakesClone(rx'[q]) =>
        MakesClone(rx[q]) /\ rx'[q].peer = rx[q].peer /\ rx[q].peer \in Receivers
  BY Zenon DEF CloneInv, Moves
<1>2. \A q \in Receivers : rx[q].pc = "new" => rx'[q].pc = "new"
  BY DEF Moves
<1> QED
  BY <1>1, <1>2, Zenon DEF CloneInv

\* So does one that does not use the registry lock.
LEMMA LockKept ==
  ASSUME LockInv, NEW r \in Receivers, Moves(r), lock' = lock,
         rx[r].pc \notin {"reload", "dispose"}, rx'[r].pc \notin {"reload", "dispose"}
  PROVE  LockInv'
  BY DEF LockInv, Moves

\* A page in the index stays there while no receiver that holds it moves.
LEMMA PagesKept ==
  ASSUME PagesShown, NEW r \in Receivers, Moves(r), rx[r].pc # "activate",
         pageBits' \subseteq pageBits, readyGroup \subseteq readyGroup', slotOf' = slotOf,
         \A s \in Senders : sx'[s].pc = sx[s].pc
  PROVE  PagesShown'
  BY DEF PagesShown, Moves, At, SenderAt

\* A queue stays in the index likewise, unless it gains a lane.
LEMMA QueuesKept ==
  ASSUME QueuesShown, NEW r \in Receivers, Moves(r), rx[r].pc \notin {"mark", "claimed"},
         workGroup \subseteq workGroup', receiverAlive' => receiverAlive,
         \A p \in Pages : queue'[p] # << >> => queue[p] # << >>
  PROVE  QueuesShown'
  BY DEF QueuesShown, Moves

\* Nor does a sender lose its notification to a receiver that frees no slots.
LEMMA StrandedKept ==
  ASSUME SenderNotStranded, NEW r \in Receivers, Moves(r), SendersStay,
         rx[r].released # None => rx'[r].released = rx[r].released, None \notin Senders,
         receiverAlive' => receiverAlive, \A s \in Senders : HasRoom(s)' => HasRoom(s)
  PROVE  SenderNotStranded'
  BY DEF SenderNotStranded, Moves, SendersStay, SenderAt

\* A receiver that touches no lane preserves the invariant.
LEMMA BystanderInv ==
  ASSUME IInv, NEW r \in Receivers, Moves(r), Follows(rx[r], rx'[r]),
         UNCHANGED <<laneSide, sx, setup>>, queues' \subseteq Receivers,
         receiverAlive' => receiverAlive
  PROVE  IInv'
<1> USE DEF IInv
<1>1. /\ UNCHANGED <<ring, closed, shut, pending, pageBits, readyGroup, workGroup, queue, lock>>
      /\ UNCHANGED <<slots, slotOf, free, fresh, sx, setup>>
  BY Zenon DEF laneSide, ringVars, readyVars, workVars, registryVars
<1>2. /\ Receiving(rx[r]) /\ Receiving(rx'[r]) /\ rx'[r].released = rx[r].released
      /\ rx[r].pc \notin Busy \union {"new"} /\ rx'[r].pc \notin Busy
      /\ MakesClone(rx'[r]) => MakesClone(rx[r]) /\ rx'[r].peer = rx[r].peer
      /\ \A q \in Receivers \ {r} : rx'[q] = rx[q]
      /\ DOMAIN rx' = Receivers
  BY Zenon DEF Follows, Moves, TypeOK
<1>3. TypeOK'
  BY <1>1, <1>2, Zenon DEF TypeOK
<1>4. LockInv'
  BY <1>1, <1>2, LockKept, Zenon DEF Busy, HasLane
<1>5. CloneInv'
  BY <1>2, ClonesKept, Zenon DEF TypeOK, Receiving
<1>6. TokensStay
  BY <1>1, <1>2, Zenon DEF TokensStay, Receiving, Busy
<1>7. TokenInv' /\ SlotInv' /\ \A s \in Senders : Present(s)' <=> Present(s)
  BY <1>6, TokensKept, Zenon
<1>8. LifeInv'
  BY <1>1, <1>7, Zenon DEF LifeInv, LaneLife, SenderAt
<1>9. ReturnInv'
  BY <1>1, <1>2, ZenonT(30) DEF ReturnInv, Busy, HasLane, At, Buffered, SenderAt
<1>10. PagesShown' /\ QueuesShown'
  BY <1>1, <1>2, PagesKept, QueuesKept, Zenon DEF NothingHidden, Busy
<1>11. LanesShown'
  BY <1>1, Zenon DEF NothingHidden, LanesShown, LaneShown, Buffered, SenderAt
<1>12. SenderNotStranded'
  BY <1>1, <1>2, StrandedKept, HandleAssumption, Zenon DEF SendersStay, HasRoom, None
<1> QED
  BY <1>3, <1>4, <1>5, <1>7, <1>8, <1>9, <1>10, <1>11, <1>12 DEF NothingHidden

\* Searches, scans, waits, clones and drops of a receiver preserve the invariant.
LEMMA QuietInv ==
  ASSUME IInv, NEW r \in Receivers, QuietStep(r)
  PROVE  IInv'
<1>1. Moves(r) /\ Follows(rx[r], rx'[r])
  BY QuietMoves DEF IInv
<1>2. queues \subseteq Receivers /\ rx[r].peer \in Receivers \union {None}
  BY Zenon DEF IInv, TypeOK, Receiving
<1>3. laneSide' = laneSide /\ sx' = sx /\ setup' = setup /\ queues' \subseteq Receivers
      /\ (receiverAlive' => receiverAlive)
  <2>1. CASE ScanStep(r)
    BY <1>2, <2>1
    DEF ScanStep, Scan, InFlight, IsDrained, InFlightStill, Rescan, peerSide, countVars, senderVars
  <2>2. CASE StageStep(r)
    <3> USE DEF peerSide, countVars, senderVars
    <3>1. CASE PopStaged(r) \/ Snapshot(r) \/ PopOrphaned(r) \/ HasReadyLane(r)
      BY <1>2, <3>1 DEF PopStaged, Snapshot, PopOrphaned, HasReadyLane
    <3>2. CASE Steal(r)
      BY <1>2, <3>2, Zenon DEF Steal
    <3>3. CASE StealTake(r) \/ StealPut(r)
      BY <1>2, <3>3 DEF StealTake, StealPut
    <3>4. CASE Search(r)
      BY <1>2, <3>4, Zenon DEF Search
    <3> QED
      BY <2>2, <3>1, <3>2, <3>3, <3>4, Zenon DEF StageStep
  <2>3. CASE WaitStep(r)
    BY <1>2, <2>3
    DEF WaitStep, Return, Notify, SignalWaiters, RegisterWaiter, ParkReceiver, Wake, countVars,
        senderVars
  <2>4. CASE DropStep(r)
    <3>1. CASE DropUnregister(r)
      BY <1>2, <3>1, Zenon DEF DropUnregister, senderVars
    <3>2. CASE ~DropUnregister(r)
      BY <1>2, <2>4, <3>2
      DEF DropStep, StartDrop, DropPrivate, DropTake, DropPut, DropCount, DropNotify, CloseChannel,
          peerSide, countVars, senderVars
    <3> QED
      BY <3>1, <3>2
  <2>5. CASE OtherStep(r)
    <3>1. CASE CloneRegister(r)
      <4>1. MakesClone(rx[r])
        BY <3>1, Zenon DEF CloneRegister, MakesClone, At
      <4>2. rx[r].peer \in Receivers
        BY <1>2, <4>1, Zenon DEF IInv, CloneInv
      <4> QED
        BY <1>2, <3>1, <4>2, Zenon DEF CloneRegister, senderVars
    <3>2. CASE EndAdvance(r) \/ EndLeave(r)
      BY <1>2, <3>2 DEF EndAdvance, EndLeave, peerSide, countVars, senderVars
    <3>4. CASE StartRecv(r)
      BY <1>2, <3>4 DEF StartRecv, peerSide, countVars, senderVars
    <3>5. CASE LastLane(r)
      BY <1>2, <3>5 DEF LastLane, peerSide, countVars, senderVars
    <3>3. CASE CloneStaged(r) \/ CloneCount(r)
      BY <1>2, <3>3 DEF CloneStaged, CloneCount, peerSide, countVars, senderVars
    <3> QED
      BY <2>5, <3>1, <3>2, <3>3, <3>4, <3>5, Zenon DEF OtherStep
  <2> QED
    BY <2>1, <2>2, <2>3, <2>4, <2>5, Zenon DEF QuietStep
<1> QED
  BY <1>1, <1>3, BystanderInv, Zenon

-----------------------------------------------------------------------------
(* Senders. *)

\* Lanes that stay where they are keep their slots.
LEMMA SlotsKept ==
  ASSUME SlotInv, UNCHANGED <<slotOf, free, fresh>>, \A s \in Senders : Present(s)' => Present(s)
  PROVE  SlotInv'
  BY Zenon DEF SlotInv

\* The life of a lane goes on while it stays in the channel.
LEMMA LivesKept ==
  ASSUME LifeInv, UNCHANGED closed, shut \subseteq shut', pending' \subseteq pending,
         \A s \in Senders : /\ Present(s)' => Present(s)
                            /\ Present(s) => Present(s)' \/ s \in shut'
                            /\ ring'[s].unread = 0 \/ ring'[s].unread = ring[s].unread
                            /\ ring'[s].cached <= ring'[s].unread
                            /\ sx'[s].pc = sx[s].pc /\ (sx'[s].dropping <=> sx[s].dropping)
  PROVE  LifeInv'
  BY Zenon DEF LifeInv, LaneLife, SenderAt

\* A sender that pushes, marks or waits moves no token and touches no queue.
LEMMA SenderFrame ==
  ASSUME IInv, UNCHANGED senderStepUnchanged, UNCHANGED <<queues, receiverAlive>>
  PROVE  /\ UNCHANGED <<workGroup, queue, lock, slots, slotOf, free, fresh, rx, setup>>
         /\ LockInv' /\ CloneInv' /\ TokenInv' /\ SlotInv' /\ QueuesShown'
         /\ \A s \in Senders : Present(s)' <=> Present(s)
         /\ /\ DOMAIN ring' = Senders /\ \A s \in Senders : Buffering(ring'[s])
            /\ DOMAIN sx' = Senders /\ \A s \in Senders : Sending(sx'[s])
            /\ pending' \subseteq Senders /\ pageBits' \subseteq Slots /\ readyGroup' \subseteq Pages
            => TypeOK'
<1> USE DEF IInv
<1>1. UNCHANGED <<workGroup, queue, lock, slots, slotOf, free, fresh, rx, setup>>
  BY Zenon DEF senderStepUnchanged, workVars, registryVars
<1>2. TokensStay
  BY <1>1, Zenon DEF TokensStay
<1>3. LockInv' /\ CloneInv'
  BY <1>1, Zenon DEF LockInv, CloneInv
<1>4. QueuesShown'
  BY <1>1, Zenon DEF NothingHidden, QueuesShown
<1> QED
  BY <1>1, <1>2, <1>3, <1>4, TokensKept, Zenon DEF TypeOK

\* What was marked stays marked, while everybody who has something to mark does so or is
\* still about to.
LEMMA MarksKept ==
  ASSUME IInv, UNCHANGED <<slots, slotOf, rx>>,
         pending \subseteq pending', pageBits \subseteq pageBits', readyGroup \subseteq readyGroup',
         \A s \in Senders :
           /\ Buffered(s)' => Buffered(s) \/ SenderAt(s, "lane")'
           /\ SenderAt(s, "lane") => s \in pending' \/ SenderAt(s, "lane")'
           /\ s \in pending' => s \in pending \/ SenderAt(s, "page")'
           /\ SenderAt(s, "page") => slotOf[s] \in pageBits' \/ SenderAt(s, "page")'
           /\ SenderAt(s, "group") => Page(slotOf[s]) \in readyGroup' \/ SenderAt(s, "group")',
         \A k \in pageBits' :
           \/ \E j \in pageBits : Page(j) = Page(k)
           \/ \E s \in Senders : SenderAt(s, "group")' /\ Page(slotOf[s]) = Page(k)
  PROVE  ReturnInv' /\ LanesShown' /\ PagesShown'
<1> USE DEF IInv, NothingHidden
<1>1. /\ \A k \in Slots : slots[k] # None => slots[k] \in Senders /\ slotOf[slots[k]] = k
      /\ \A r \in Receivers : rx[r].pc \in {"reload", "dispose"} => rx[r].lane \in Senders
  BY Zenon DEF TypeOK, TokenInv, Receiving, HasLane
<1>2. LanesShown'
  BY <1>1, Zenon DEF LanesShown, LaneShown
<1>3. ReturnInv'
  BY <1>1, Zenon DEF ReturnInv, At
<1>4. PagesShown'
  <2> SUFFICES ASSUME NEW k \in pageBits'
               PROVE  \/ Page(k) \in readyGroup'
                      \/ \E s \in Senders : SenderAt(s, "group")' /\ Page(slotOf[s]) = Page(k)
                      \/ \E r \in Receivers : At(r, "activate") /\ rx[r].page = Page(k)
    BY Zenon DEF PagesShown, At
  <2>1. CASE \E j \in pageBits : Page(j) = Page(k)
    <3>1. PICK j \in pageBits : Page(j) = Page(k)
      BY <2>1, Zenon
    <3>2. \/ Page(k) \in readyGroup
          \/ \E s \in Senders : SenderAt(s, "group") /\ Page(slotOf[s]) = Page(k)
          \/ \E r \in Receivers : At(r, "activate") /\ rx[r].page = Page(k)
      BY <3>1, Zenon DEF PagesShown
    <3> QED
      BY <3>2, Zenon
  <2> QED
    BY <2>1, Zenon
<1> QED
  BY <1>2, <1>3, <1>4, Zenon

\* A push: only a sender that is not being dropped sends, and it marks its lane next.
LEMMA SendInv ==
  ASSUME IInv, NEW s \in Senders, Send(s)
  PROVE  IInv'
<1> USE DEF IInv
<1>1. /\ UNCHANGED senderStepUnchanged
      /\ UNCHANGED <<pending, pageBits, readyGroup, queues, receiverAlive, closed, shut>>
      /\ ring' = [ring EXCEPT ![s].unread = @ + 1]
      /\ sx' = [sx EXCEPT ![s].pc = "lane", ![s].notified = FALSE]
      /\ sx[s].pc \in {"idle", "recheck"}
  BY Zenon DEF Send, Push, readyVars, countVars, SenderAt
<1>2. /\ UNCHANGED <<workGroup, queue, lock, slots, slotOf, free, fresh, rx, setup>>
      /\ LockInv' /\ CloneInv' /\ TokenInv' /\ SlotInv' /\ QueuesShown'
      /\ \A t \in Senders : Present(t)' <=> Present(t)
  BY <1>1, SenderFrame, Zenon
<1>3. /\ DOMAIN ring' = Senders /\ DOMAIN sx' = Senders
      /\ \A t \in Senders : Buffering(ring'[t]) /\ Sending(sx'[t])
  <2>1. /\ DOMAIN ring' = Senders /\ DOMAIN sx' = Senders
        /\ \A t \in Senders \ {s} : ring'[t] = ring[t] /\ sx'[t] = sx[t]
    BY <1>1, Zenon DEF TypeOK
  <2>2. Buffering(ring'[s])
    BY <1>1 DEF TypeOK, Buffering
  <2>3. Sending(sx'[s])
    BY <1>1, ZenonT(30) DEF TypeOK, Sending
  <2> QED
    BY <2>1, <2>2, <2>3, Zenon DEF TypeOK
<1>10. TypeOK'
  <2>1. pending' \subseteq Senders /\ pageBits' \subseteq Slots /\ readyGroup' \subseteq Pages
    BY <1>1, Zenon DEF TypeOK
  <2> QED
    BY <1>1, <1>3, <2>1, SenderFrame, Zenon
<1>4. /\ \A t \in Senders \ {s} : ring'[t] = ring[t] /\ sx'[t] = sx[t]
      /\ sx'[s].pc = "lane" /\ sx'[s].dropping = sx[s].dropping
      /\ ring[s].unread \in Nat /\ ring'[s].unread = ring[s].unread + 1
      /\ ring'[s].cached = ring[s].cached /\ ring'[s].unreleased = ring[s].unreleased
  BY <1>1, ZenonT(30) DEF TypeOK, Buffering, Sending
<1>5. LifeInv'
  <2>1. ring[s].cached \in Nat /\ ring[s].unread \in Nat /\ ring[s].cached <= ring[s].unread
    BY Zenon DEF TypeOK, Buffering, LifeInv, LaneLife
  <2>2. s \notin closed /\ ~sx[s].dropping /\ (Present(s) \/ s \in shut)
    BY <1>1, Zenon DEF LifeInv, LaneLife, SenderAt
  <2> SUFFICES ASSUME NEW t \in Senders
               PROVE  LaneLife(t)'
    BY Zenon DEF LifeInv
  <2>3. CASE t = s
    BY <1>1, <1>2, <1>4, <2>1, <2>2, <2>3 DEF LaneLife, SenderAt
  <2>4. CASE t # s
    <3>1. ring'[t] = ring[t] /\ sx'[t] = sx[t] /\ closed' = closed /\ shut' = shut /\ pending' = pending
      BY <1>1, <1>4, <2>4, Zenon
    <3> QED
      BY <1>2, <3>1, Zenon DEF LifeInv, LaneLife, SenderAt
  <2> QED
    BY <2>3, <2>4
<1>6. \A t \in Senders :
         /\ Buffered(t)' => Buffered(t) \/ SenderAt(t, "lane")'
         /\ \A label \in {"lane", "page", "group"} : SenderAt(t, label) => SenderAt(t, label)'
  BY <1>1, <1>4, Zenon DEF SenderAt, Buffered
<1>7. ReturnInv' /\ LanesShown' /\ PagesShown'
  BY <1>1, <1>2, <1>6, MarksKept, Zenon
<1>9. SenderNotStranded'
  BY <1>1, <1>2, <1>4, ZenonT(30) DEF SenderNotStranded, SenderAt, HasRoom
<1> QED
  BY <1>2, <1>5, <1>7, <1>9, <1>10 DEF NothingHidden

\* A sender that waits, or is done with its call: it sleeps only beside a full ring.
LEMMA WaitInv ==
  ASSUME IInv, NEW s \in Senders,
         SendFull(s) \/ Park(s) \/ Unpark(s) \/ CountDown(s) \/ SenderNotify(s) \/ SenderSignal(s)
  PROVE  IInv'
<1> USE DEF IInv
<1>1. /\ UNCHANGED senderStepUnchanged
      /\ UNCHANGED <<pending, pageBits, readyGroup, queues, receiverAlive, ring, closed, shut>>
  BY Zenon DEF SendFull, Park, Unpark, CountDown, SenderNotify, SenderSignal, readyVars, ringVars, countVars
<1>2. /\ UNCHANGED <<workGroup, queue, lock, slots, slotOf, free, fresh, rx, setup>>
      /\ LockInv' /\ CloneInv' /\ TokenInv' /\ SlotInv' /\ QueuesShown'
      /\ \A t \in Senders : Present(t)' <=> Present(t)
  BY <1>1, SenderFrame, Zenon
<1>3. /\ \A t \in Senders \ {s} : sx'[t] = sx[t]
      /\ sx'[s].dropping = sx[s].dropping
      /\ sx[s].pc \in {"idle", "recheck", "parked", "count", "notify", "signal"}
      /\ sx'[s].pc \in {"idle", "recheck", "parked", "notify", "signal", "gone"}
      /\ sx[s].dropping => sx'[s].pc \in {"notify", "signal", "gone"}
      /\ sx'[s].pc = "parked" => ~HasRoom(s)
      /\ DOMAIN sx' = Senders /\ Sending(sx'[s])
  <2> USE DEF TypeOK, LifeInv, LaneLife, SenderAt, SenderTo, Sending
  <2>1. CASE SendFull(s)
    BY <2>1, ZenonT(30) DEF SendFull
  <2>2. CASE Park(s)
    <3>1. CASE sx' = [sx EXCEPT ![s].pc = "parked"] /\ ~HasRoom(s)
      BY <2>2, <3>1, ZenonT(30) DEF Park
    <3>2. CASE sx' = [sx EXCEPT ![s].pc = "idle", ![s].notified = FALSE]
      BY <2>2, <3>2, Zenon DEF Park
    <3> QED
      BY <2>2, <3>1, <3>2, Zenon DEF Park
  <2>3. CASE Unpark(s)
    BY <2>3, Zenon DEF Unpark
  <2>4. CASE CountDown(s)
    BY <2>4, ZenonT(30) DEF CountDown
  <2>5. CASE SenderNotify(s)
    BY <2>5, ZenonT(30) DEF SenderNotify, Ended
  <2>6. CASE SenderSignal(s)
    BY <2>6, ZenonT(30) DEF SenderSignal, Ended
  <2> QED
    BY <2>1, <2>2, <2>3, <2>4, <2>5, <2>6, Zenon
<1>4. TypeOK'
  BY <1>1, <1>3, SenderFrame, Zenon DEF TypeOK
<1>5. LifeInv'
  BY <1>1, <1>2, <1>3, ZenonT(30) DEF LifeInv, LaneLife, SenderAt
<1>6. \A t \in Senders :
         /\ Buffered(t)' <=> Buffered(t)
         /\ \A label \in {"lane", "page", "group"} : SenderAt(t, label) => SenderAt(t, label)'
  BY <1>1, <1>3, Zenon DEF SenderAt, Buffered
<1>7. ReturnInv' /\ LanesShown' /\ PagesShown'
  BY <1>1, <1>2, <1>6, MarksKept, Zenon
<1>9. SenderNotStranded'
  BY <1>1, <1>2, <1>3, ZenonT(30) DEF SenderNotStranded, SenderAt, HasRoom
<1> QED
  BY <1>2, <1>4, <1>5, <1>6, <1>7, <1>9, Zenon DEF NothingHidden

\* A sender that marks its lane and what is above it, or closes it and marks it then.
LEMMA MarkInv ==
  ASSUME IInv, NEW s \in Senders, MarkLane(s) \/ MarkPage(s) \/ MarkGroup(s) \/ SenderClose(s)
  PROVE  IInv'
<1> USE DEF IInv
<1>1. /\ UNCHANGED senderStepUnchanged
      /\ UNCHANGED <<queues, receiverAlive, ring, shut>>
  BY Zenon DEF MarkLane, MarkPage, MarkGroup, SenderClose, ringVars, countVars
<1>2. /\ UNCHANGED <<workGroup, queue, lock, slots, slotOf, free, fresh, rx, setup>>
      /\ LockInv' /\ CloneInv' /\ TokenInv' /\ SlotInv' /\ QueuesShown'
      /\ \A t \in Senders : Present(t)' <=> Present(t)
  BY <1>1, SenderFrame, Zenon
<1>3. /\ \A t \in Senders \ {s} : sx'[t] = sx[t]
      /\ sx[s].dropping => sx'[s].dropping
      /\ sx[s].pc \in {"lane", "page", "group", "idle"}
      /\ sx'[s].pc \in {"lane", "page", "group", "count", "idle", "notify"}
      /\ sx'[s].dropping => sx'[s].pc \in {"lane", "page", "group", "count"}
      /\ sx[s].pc = "lane" => s \in pending'
      /\ sx[s].pc = "page" => slotOf[s] \in pageBits'
      /\ sx[s].pc = "group" => Page(slotOf[s]) \in readyGroup'
      /\ pending' \in {pending, pending \union {s}}
      /\ pageBits' \in {pageBits, pageBits \union {slotOf[s]}}
      /\ readyGroup' \in {readyGroup, readyGroup \union {Page(slotOf[s])}}
      /\ closed' = closed \/ (closed' = closed \union {s} /\ sx'[s].dropping)
      /\ s \in pending' => s \in pending \/ sx'[s].pc = "page"
      /\ pageBits' # pageBits =>
           sx'[s].pc = "group" \/ \E k \in pageBits : Page(k) = Page(slotOf[s])
      /\ DOMAIN sx' = Senders /\ Sending(sx'[s])
  <2> USE DEF TypeOK, LifeInv, LaneLife, SenderAt, SenderTo, Sending
  <2>1. CASE MarkLane(s)
    <3>1. CASE s \in pending
      BY <2>1, <3>1, Zenon DEF MarkLane, AfterMark, ringVars
    <3>2. CASE s \notin pending
      BY <2>1, <3>2, Zenon DEF MarkLane, ringVars
    <3> QED
      BY <3>1, <3>2, Zenon
  <2>2. CASE MarkPage(s)
    <3>1. CASE \E k \in pageBits : Page(k) = Page(slotOf[s])
      BY <2>2, <3>1, Zenon DEF MarkPage, AfterMark, ringVars
    <3>2. CASE ~\E k \in pageBits : Page(k) = Page(slotOf[s])
      BY <2>2, <3>2, Zenon DEF MarkPage, ringVars
    <3> QED
      BY <3>1, <3>2, Zenon
  <2>3. CASE MarkGroup(s)
    BY <2>3, Zenon DEF MarkGroup, AfterMark, ringVars
  <2>4. CASE SenderClose(s)
    BY <2>4, ZenonT(30) DEF SenderClose, readyVars
  <2> QED
    BY <2>1, <2>2, <2>3, <2>4, Zenon
<1>4. TypeOK'
  <2>1. slotOf[s] \in Slots /\ Page(slotOf[s]) \in Pages
    BY Zenon DEF TypeOK, Pages
  <2> QED
    BY <1>1, <1>3, <2>1, SenderFrame, Zenon DEF TypeOK
<1>5. LifeInv'
  <2> SUFFICES ASSUME NEW t \in Senders
               PROVE  LaneLife(t)'
    BY Zenon DEF LifeInv
  <2>1. LaneLife(t) /\ ring' = ring /\ shut' = shut /\ (Present(t)' <=> Present(t))
    BY <1>1, <1>2, Zenon DEF LifeInv
  <2>2. CASE t = s
    BY <1>3, <2>1, <2>2, Zenon DEF LaneLife, SenderAt
  <2>3. CASE t # s
    <3>1. sx'[t] = sx[t] /\ (t \in pending' <=> t \in pending) /\ (t \in closed' <=> t \in closed)
      BY <1>3, <2>3, Zenon
    <3> QED
      BY <2>1, <3>1, Zenon DEF LaneLife, SenderAt
  <2> QED
    BY <2>2, <2>3
<1>6. \A t \in Senders :
         /\ Buffered(t)' <=> Buffered(t)
         /\ SenderAt(t, "lane") => t \in pending' \/ SenderAt(t, "lane")'
         /\ t \in pending' => t \in pending \/ SenderAt(t, "page")'
         /\ SenderAt(t, "page") => slotOf[t] \in pageBits' \/ SenderAt(t, "page")'
         /\ SenderAt(t, "group") => Page(slotOf[t]) \in readyGroup' \/ SenderAt(t, "group")'
  BY <1>1, <1>3, Zenon DEF SenderAt, Buffered
<1>7. ReturnInv' /\ LanesShown' /\ PagesShown'
  <2>1. \A k \in pageBits' :
          \/ \E j \in pageBits : Page(j) = Page(k)
          \/ \E t \in Senders : SenderAt(t, "group")' /\ Page(slotOf[t]) = Page(k)
    BY <1>3, Zenon DEF SenderAt
  <2> QED
    BY <1>2, <1>3, <1>6, <2>1, MarksKept, Zenon
<1>9. SenderNotStranded'
  BY <1>1, <1>2, <1>3, Zenon DEF SenderNotStranded, SenderAt, HasRoom
<1> QED
  BY <1>2, <1>4, <1>5, <1>6, <1>7, <1>9, Zenon DEF NothingHidden

\* A registration takes a slot that nobody has, and the lane goes there.
LEMMA RegisterInv ==
  ASSUME IInv, NEW s \in Senders, Register(s)
  PROVE  IInv'
<1> USE DEF IInv
<1>1. /\ SenderAt(s, "new") /\ SenderTo(s, "idle")
      /\ UNCHANGED <<ring, closed, shut, pending, pageBits, readyGroup, workGroup, queue, lock>>
      /\ UNCHANGED <<receiverAlive, queues, rx, setup>>
  BY Zenon DEF Register, ringVars, readyVars, workVars
<1>2. /\ free \in Seq(Slots) /\ fresh \subseteq Slots /\ IsInjective(free)
      /\ Range(free) \intersect fresh = {}
  BY Zenon DEF TypeOK, SlotInv
<1>3. PICK k : /\ k \in Slots /\ k \in Range(free) \union fresh
               /\ free' \in Seq(Slots) /\ fresh' = fresh \ {k} /\ IsInjective(free')
               /\ Range(free') \subseteq Range(free) \ {k}
               /\ slots' = [slots EXCEPT ![k] = s] /\ slotOf' = [slotOf EXCEPT ![s] = k]
  <2>1. CASE free # << >>
    <3>1. Len(free) \in Nat /\ Len(free) > 0 /\ Len(free) \in DOMAIN free
      BY <1>2, <2>1
    <3> DEFINE k == free[Len(free)]
               less == SubSeq(free, 1, Len(free) - 1)
    <3>2. /\ less \in Seq(Slots) /\ DOMAIN less = 1 .. (Len(free) - 1)
          /\ \A i \in 1 .. (Len(free) - 1) : less[i] = free[i]
      BY <1>2, <3>1
    <3>3. k \in Slots /\ k \in Range(free)
      BY <1>2, <3>1 DEF Range
    <3>4. IsInjective(less) /\ Range(less) \subseteq Range(free) \ {k}
      <4>1. \A i \in DOMAIN less : i \in DOMAIN free /\ i # Len(free) /\ less[i] = free[i]
        BY <1>2, <3>1, <3>2
      <4> HIDE DEF less
      <4> QED
        BY <1>2, <3>1, <4>1, Zenon DEF IsInjective, Range
    <3>5. /\ free' = less /\ fresh' = fresh \ {k}
          /\ slots' = [slots EXCEPT ![k] = s] /\ slotOf' = [slotOf EXCEPT ![s] = k]
      BY <2>1, Zenon DEF Register
    <3> HIDE DEF k, less
    <3> QED
      BY <3>2, <3>3, <3>4, <3>5, Zenon
  <2>2. CASE free = << >>
    <3>1. PICK k \in fresh : /\ free' = free /\ fresh' = fresh \ {k}
                             /\ slots' = [slots EXCEPT ![k] = s]
                             /\ slotOf' = [slotOf EXCEPT ![s] = k]
      BY <2>2, Zenon DEF Register
    <3>2. Range(free) = {}
      BY <2>2 DEF Range
    <3> QED
      BY <1>2, <3>1, <3>2, Zenon
  <2> QED
    BY <2>1, <2>2, Zenon
<1>4. /\ ~InSlot(s) /\ ~InQueue(s) /\ ~Held(s) /\ ring[s].unread = 0 /\ s \notin pending
      /\ ~sx[s].dropping /\ s \notin closed /\ s # None
  BY <1>1, HandleAssumption, Zenon DEF LifeInv, LaneLife, Present, SenderAt, None
<1>5. \A t \in Senders : Present(t) => slotOf[t] # k
  BY <1>3, Zenon DEF SlotInv
<1>6. slots[k] = None
  <2>1. slots[k] # None => slots[k] \in Senders /\ InSlot(slots[k]) /\ slotOf[slots[k]] = k
    BY <1>3, Zenon DEF TypeOK, TokenInv, InSlot
  <2> QED
    BY <1>5, <2>1 DEF Present
<1>7. \A p \in Pages : s \notin Range(queue[p])
  BY <1>4, Zenon DEF TokenInv, InQueue
<1>8. \A t \in Senders \ {s} : /\ slotOf'[t] = slotOf[t] /\ sx'[t] = sx[t]
                               /\ InSlot(t)' <=> InSlot(t)
                               /\ InQueue(t)' <=> InQueue(t)
                               /\ Held(t)' <=> Held(t)
                               /\ Present(t)' <=> Present(t)
  <2>1. \A t \in Senders \ {s} : slotOf'[t] = slotOf[t] /\ sx'[t] = sx[t] /\ slotOf[t] \in Slots
    BY <1>1, <1>3, Zenon DEF TypeOK, SenderTo
  <2>2. \A t \in Senders \ {s} : InSlot(t)' <=> InSlot(t)
    BY <1>3, <1>6, <2>1, HandleAssumption, SMTT(30) DEF InSlot, TypeOK, None
  <2>3. \A t \in Senders \ {s} : (InQueue(t)' <=> InQueue(t)) /\ (Held(t)' <=> Held(t))
    BY <1>1, <2>1, Zenon DEF InQueue, Held
  <2> QED
    BY <2>1, <2>2, <2>3, Zenon DEF Present
<1>9. /\ slotOf'[s] = k /\ sx'[s].pc = "idle" /\ ~sx'[s].dropping /\ slots'[k] = s
      /\ InSlot(s)' /\ ~InQueue(s)' /\ ~Held(s)' /\ Present(s)'
  <2>1. slotOf'[s] = k /\ sx'[s].pc = "idle" /\ ~sx'[s].dropping /\ slots'[k] = s
    BY <1>1, <1>3, <1>4, Zenon DEF TypeOK, SenderTo, Sending
  <2>2. Page(k) \in Pages
    BY <1>3, Zenon DEF Pages
  <2> QED
    BY <1>1, <1>4, <1>7, <2>1, <2>2, Zenon DEF InSlot, InQueue, Held, Present
<1>10. TypeOK'
  <2>1. /\ slots' \in [Slots -> Senders \union {None}] /\ slotOf' \in [Senders -> Slots]
        /\ fresh' \subseteq Slots /\ DOMAIN sx' = Senders
    BY <1>1, <1>3, Zenon DEF TypeOK, SenderTo
  <2>2. Sending(sx'[s])
    BY <1>1, Zenon DEF TypeOK, Sending, SenderTo
  <2> QED
    BY <1>1, <1>3, <1>8, <2>1, <2>2, Zenon DEF TypeOK
<1>11. LockInv' /\ CloneInv' /\ QueuesShown'
  BY <1>1, Zenon DEF LockInv, CloneInv, NothingHidden, QueuesShown
<1>12. TokenInv'
  <2>1. \A j \in Slots : slots'[j] # None => slotOf'[slots'[j]] = j
    <3>1. \A j \in Slots \ {k} : slots'[j] = slots[j] /\ slots[j] # s
      BY <1>3, <1>4, Zenon DEF TypeOK, TokenInv, InSlot
    <3> QED
      <4> SUFFICES ASSUME NEW j \in Slots, slots'[j] # None
                   PROVE  slotOf'[slots'[j]] = j
        BY Zenon
      <4>1. CASE j = k
        BY <1>8, <1>9, <4>1, Zenon
      <4>2. CASE j # k
        <5>1. slots'[j] = slots[j] /\ slots[j] \in Senders \ {s} /\ slotOf[slots[j]] = j
          BY <3>1, <4>2, ZenonT(30) DEF TypeOK, TokenInv
        <5> QED
          BY <1>8, <5>1, Zenon
      <4> QED
        BY <4>1, <4>2, Zenon
  <2>2. \A p \in Pages : IsInjective(queue'[p]) /\ \A t \in Range(queue'[p]) : Page(slotOf'[t]) = p
    <3>1. \A p \in Pages : \A t \in Range(queue[p]) : t \in Senders \ {s}
      BY <1>7, SMTT(30) DEF TypeOK, Range
    <3> QED
      BY <1>1, <1>8, <3>1, Zenon DEF TokenInv
  <2> QED
    BY <1>1, <1>8, <1>9, <2>1, <2>2, Zenon DEF TokenInv
<1>13. SlotInv'
  <2>1. IsInjective(free') /\ Range(free') \intersect fresh' = {}
    BY <1>2, <1>3, Zenon
  <2>2. \A t \in Senders : Present(t)' => slotOf'[t] \notin Range(free') \union fresh'
    <3> SUFFICES ASSUME NEW t \in Senders, Present(t)'
                 PROVE  slotOf'[t] \notin Range(free') \union fresh'
      BY Zenon
    <3>1. CASE t = s
      BY <1>3, <1>9, <3>1
    <3>2. CASE t # s
      <4>1. slotOf'[t] = slotOf[t] /\ slotOf[t] \notin Range(free) \union fresh
        BY <1>8, <3>2, Zenon DEF SlotInv
      <4> QED
        BY <1>3, <4>1
    <3> QED
      BY <3>1, <3>2, Zenon
  <2>3. \A t, u \in Senders : Present(t)' /\ Present(u)' /\ slotOf'[t] = slotOf'[u] => t = u
    BY <1>5, <1>8, <1>9, SMTT(30) DEF SlotInv
  <2> QED
    BY <2>1, <2>2, <2>3, Zenon DEF SlotInv
<1>14. LifeInv'
  <2> SUFFICES ASSUME NEW t \in Senders
               PROVE  LaneLife(t)'
    BY Zenon DEF LifeInv
  <2>1. LaneLife(t) /\ UNCHANGED <<ring, closed, shut, pending>>
    BY <1>1 DEF LifeInv
  <2>2. CASE t = s
    BY <1>4, <1>9, <2>1, <2>2, Zenon DEF LaneLife, SenderAt
  <2>3. CASE t # s
    BY <1>8, <2>1, <2>3, Zenon DEF LaneLife, SenderAt
  <2> QED
    BY <2>2, <2>3
<1>15. LanesShown'
  <2> SUFFICES ASSUME NEW j \in Slots, NEW t, t = slots'[j], t # None
               PROVE  LaneShown(t, j)'
    BY Zenon DEF LanesShown, LaneShown, Buffered, SenderAt
  <2>1. CASE j = k
    BY <1>1, <1>4, <1>9, <2>1, SMTT(30) DEF LaneShown, Buffered
  <2>2. CASE j # k
    <3>1. t = slots[j] /\ t \in Senders \ {s}
      BY <1>3, <1>4, <2>2, ZenonT(30) DEF TypeOK, TokenInv, InSlot
    <3> QED
      BY <1>1, <1>8, <3>1, ZenonT(30) DEF NothingHidden, LanesShown, LaneShown, Buffered, SenderAt
  <2> QED
    BY <2>1, <2>2, Zenon
<1>16. PagesShown'
  <2>1. \A t \in Senders : SenderAt(t, "group") => t # s
    BY <1>1, Zenon DEF SenderAt
  <2> QED
    BY <1>1, <1>8, <2>1, SMTT(30) DEF NothingHidden, PagesShown, SenderAt, At
<1>17. ReturnInv'
  <2>1. \A r \in Receivers : rx[r].pc \in {"reload", "dispose"} => rx[r].lane \in Senders \ {s}
    BY <1>4, Zenon DEF TypeOK, Receiving, HasLane, Held
  <2> QED
    BY <1>1, <1>8, <2>1, Zenon DEF ReturnInv, Buffered, SenderAt, At
<1>18. SenderNotStranded'
  BY <1>1, <1>8, <1>9, Zenon DEF SenderNotStranded, SenderAt, HasRoom
<1> QED
  BY <1>10, <1>11, <1>12, <1>13, <1>14, <1>15, <1>16, <1>17, <1>18, Zenon DEF NothingHidden

-----------------------------------------------------------------------------
(* Receivers that take pages and drain lanes. *)

\* A receiver that is not making a clone moves alone.
LEMMA ReceiverFrame ==
  ASSUME IInv, NEW r \in Receivers, NEW f, rx' = [rx EXCEPT ![r] = f], Receiving(f),
         ~MakesClone(f), rx[r].pc # "new"
  PROVE  /\ Moves(r) /\ rx'[r] = f /\ CloneInv'
         /\ DOMAIN rx' = Receivers /\ \A q \in Receivers : Receiving(rx'[q])
<1> USE DEF IInv
<1>1. Moves(r) /\ rx'[r] = f /\ DOMAIN rx' = Receivers
  BY Zenon DEF TypeOK, Moves
<1>2. CloneInv'
  BY <1>1, ClonesKept, Zenon DEF TypeOK, Receiving
<1>3. \A q \in Receivers : Receiving(rx'[q])
  BY <1>1, Zenon DEF TypeOK, Moves
<1> QED
  BY <1>1, <1>2, <1>3, Zenon

\* A receiver that puts a page into its hands, or takes one out of them.
LEMMA PageStepInv ==
  ASSUME IInv, NEW r \in Receivers, NEW f, rx' = [rx EXCEPT ![r] = f], Receiving(f),
         ~MakesClone(f), rx[r].pc \in {"ready", "work", "mark"}, f.pc \notin HasLane,
         f.released = rx[r].released,
         UNCHANGED <<ring, closed, shut, pending, pageBits, queue, lock, slots, slotOf>>,
         UNCHANGED <<free, fresh, sx, setup, receiverAlive, queues>>,
         readyGroup' \subseteq Pages, workGroup' \subseteq Pages,
         rx[r].pc = "ready" =>
           \A p \in readyGroup : p \in readyGroup' \/ (f.pc = "activate" /\ f.page = p),
         rx[r].pc # "ready" => readyGroup' = readyGroup,
         \A p \in Pages : p \in workGroup \/ (rx[r].pc = "mark" /\ rx[r].page = p) =>
           p \in workGroup' \/ (f.pc = "claimed" /\ f.page = p)
  PROVE  IInv'
<1> USE DEF IInv
<1>1. /\ Moves(r) /\ rx'[r] = f /\ CloneInv'
      /\ DOMAIN rx' = Receivers /\ \A q \in Receivers : Receiving(rx'[q])
  BY ReceiverFrame, Zenon
<1>2. rx[r].pc \notin HasLane /\ rx[r].lane = None /\ f.lane = None
  BY Zenon DEF TypeOK, Receiving, HasLane
<1>3. TypeOK'
  BY <1>1, Zenon DEF TypeOK
<1>4. LockInv'
  BY <1>1, <1>2, LockKept, Zenon DEF HasLane
<1>5. TokensStay
  BY <1>1, <1>2, Zenon DEF TokensStay, Moves
<1>6. TokenInv' /\ SlotInv' /\ \A s \in Senders : Present(s)' <=> Present(s)
  BY <1>5, TokensKept, Zenon
<1>7. LifeInv'
  BY <1>6, Zenon DEF LifeInv, LaneLife, SenderAt
<1>8. ReturnInv'
  BY <1>1, <1>2, Zenon DEF ReturnInv, HasLane, At, Buffered, SenderAt, Moves
<1>9. LanesShown'
  BY Zenon DEF NothingHidden, LanesShown, LaneShown, Buffered, SenderAt
<1>10. PagesShown'
  <2> SUFFICES ASSUME NEW k \in pageBits
               PROVE  \/ Page(k) \in readyGroup'
                      \/ \E s \in Senders : SenderAt(s, "group") /\ Page(slotOf[s]) = Page(k)
                      \/ \E q \in Receivers : At(q, "activate")' /\ rx'[q].page = Page(k)
    BY Zenon DEF PagesShown, SenderAt
  <2>1. CASE Page(k) \in readyGroup
    BY <1>1, <2>1, Zenon DEF At
  <2>2. CASE \E s \in Senders : SenderAt(s, "group") /\ Page(slotOf[s]) = Page(k)
    BY <2>2, Zenon
  <2>3. CASE \E q \in Receivers : At(q, "activate") /\ rx[q].page = Page(k)
    <3>1. PICK q \in Receivers : At(q, "activate") /\ rx[q].page = Page(k)
      BY <2>3, Zenon
    <3>2. rx'[q] = rx[q]
      BY <1>1, <3>1, Zenon DEF Moves, At
    <3> QED
      BY <3>1, <3>2, Zenon DEF At
  <2> QED
    BY <2>1, <2>2, <2>3, Zenon DEF NothingHidden, PagesShown
<1>11. QueuesShown'
  <2> SUFFICES ASSUME NEW p \in Pages, queue[p] # << >>, receiverAlive
               PROVE  \/ p \in workGroup'
                      \/ \E q \in Receivers : rx'[q].pc \in {"mark", "claimed"} /\ rx'[q].page = p
    BY Zenon DEF QueuesShown
  <2>1. CASE p \in workGroup \/ (rx[r].pc = "mark" /\ rx[r].page = p)
    BY <1>1, <2>1, Zenon
  <2>2. CASE \E q \in Receivers \ {r} : rx[q].pc \in {"mark", "claimed"} /\ rx[q].page = p
    BY <1>1, <2>2, Zenon DEF Moves
  <2>3. rx[r].pc # "claimed"
    BY Zenon
  <2> QED
    BY <2>1, <2>2, <2>3, Zenon DEF NothingHidden, QueuesShown
<1>12. SenderNotStranded'
  BY <1>1, StrandedKept, HandleAssumption, Zenon DEF SendersStay, HasRoom, None
<1> QED
  BY <1>1, <1>3, <1>4, <1>6, <1>7, <1>8, <1>9, <1>10, <1>11, <1>12, Zenon DEF NothingHidden

\* Pages are taken from the group of ready lanes and from that of queued work, and a
\* requeued lane's page goes back to the latter.
LEMMA TakeInv ==
  ASSUME IInv, NEW r \in Receivers, TakeReady(r) \/ TakeWork(r) \/ RequeueMark(r)
  PROVE  IInv'
<1> USE DEF IInv
<1>1. /\ Receiving(rx[r]) /\ rx[r].pc \in {"ready", "work", "mark"}
      /\ UNCHANGED <<ring, closed, shut, pending, pageBits, queue, lock, slots, slotOf>>
      /\ UNCHANGED <<free, fresh, sx, setup, receiverAlive, queues>>
      /\ readyGroup \subseteq Pages /\ workGroup \subseteq Pages
  <2> USE DEF At, peerSide, senderVars, ringVars, registryVars, readyVars, workVars, countVars
  <2>1. Receiving(rx[r]) /\ readyGroup \subseteq Pages /\ workGroup \subseteq Pages
    BY Zenon DEF TypeOK
  <2>2. CASE TakeReady(r)
    BY <2>1, <2>2, Zenon DEF TakeReady
  <2>3. CASE TakeWork(r)
    BY <2>1, <2>3, Zenon DEF TakeWork
  <2>4. CASE RequeueMark(r)
    BY <2>1, <2>4, Zenon DEF RequeueMark
  <2> QED
    BY <2>2, <2>3, <2>4, Zenon
<1> DEFINE Ok(f) == Receiving(f) /\ ~MakesClone(f) /\ f.pc \notin HasLane /\ f.released = rx[r].released
<1>2. rx[r].pc \in {"ready", "work"} => Ok(Nothing(rx[r])) /\ rx[r].released = None
  <2>1. rx[r].pc \in {"ready", "work"} =>
          rx[r].pc \notin HasLane /\ rx[r].released = None /\ rx[r].plan # << >>
    BY <1>1, Zenon DEF Receiving, HasLane, Settling
  <2> DEFINE g == Nothing(rx[r])
  <2>2. rx[r].pc \in {"ready", "work"} =>
          Receiving(g) /\ g.pc = "advance" /\ g.then = "search" /\ g.released = None
    BY <1>1, <2>1, NothingReceiving, Zenon
  <2> HIDE DEF g
  <2>3. rx[r].pc \in {"ready", "work"} => Ok(g) /\ rx[r].released = None
    BY <2>1, <2>2, Zenon DEF MakesClone, HasLane
  <2> QED
    BY <2>3, Zenon DEF g
<1>3. ASSUME NEW p \in Pages, NEW pc \in {"activate", "claimed"}, rx[r].pc \in {"ready", "work"}
      PROVE  Ok([rx[r] EXCEPT !.pc = pc, !.page = p])
  BY <1>1, <1>3, Zenon DEF Receiving, HasLane, MakesClone, Settling, Idle
<1>4. CASE TakeReady(r)
  <2>1. rx[r].pc = "ready" /\ workGroup' = workGroup
    BY <1>4, Zenon DEF TakeReady, At, workVars
  <2>2. CASE readyGroup' = readyGroup /\ Become(r, Nothing(rx[r]))
    BY <1>1, <1>2, <2>1, <2>2, PageStepInv, Zenon DEF Become
  <2>3. ASSUME NEW p \in readyGroup, readyGroup' = readyGroup \ {p},
               Become(r, [rx[r] EXCEPT !.pc = "activate", !.page = p])
        PROVE  IInv'
    <3> DEFINE f == [rx[r] EXCEPT !.pc = "activate", !.page = p]
    <3>1. Ok(f) /\ f.pc = "activate" /\ f.page = p /\ rx' = [rx EXCEPT ![r] = f]
      BY <1>1, <1>3, <2>1, <2>3, ZenonT(30) DEF Become, Receiving, Idle
    <3>2. readyGroup' \subseteq Pages /\ \A j \in readyGroup : j \in readyGroup' \/ j = p
      BY <1>1, <2>3, Zenon
    <3> HIDE DEF f
    <3> QED
      BY <1>1, <2>1, <3>1, <3>2, PageStepInv, Zenon
  <2> QED
    BY <1>4, <2>2, <2>3, Zenon DEF TakeReady
<1>5. CASE TakeWork(r)
  <2>1. rx[r].pc = "work" /\ readyGroup' = readyGroup
    BY <1>5, Zenon DEF TakeWork, At, readyVars
  <2>2. CASE workGroup' = workGroup /\ Become(r, Nothing(rx[r]))
    BY <1>1, <1>2, <2>1, <2>2, PageStepInv, Zenon DEF Become
  <2>3. ASSUME NEW p \in workGroup, workGroup' = workGroup \ {p},
               Become(r, [rx[r] EXCEPT !.pc = "claimed", !.page = p])
        PROVE  IInv'
    <3> DEFINE f == [rx[r] EXCEPT !.pc = "claimed", !.page = p]
    <3>1. Ok(f) /\ f.pc = "claimed" /\ f.page = p /\ rx' = [rx EXCEPT ![r] = f]
      BY <1>1, <1>3, <2>1, <2>3, ZenonT(30) DEF Become, Receiving, Idle
    <3>2. workGroup' \subseteq Pages /\ \A j \in workGroup : j \in workGroup' \/ j = p
      BY <1>1, <2>3, Zenon
    <3> HIDE DEF f
    <3> QED
      BY <1>1, <2>1, <3>1, <3>2, PageStepInv, Zenon
  <2> QED
    BY <1>5, <2>2, <2>3, Zenon DEF TakeWork
<1>6. CASE RequeueMark(r)
  <2>1. /\ rx[r].pc = "mark" /\ readyGroup' = readyGroup
        /\ workGroup' = workGroup \union {rx[r].page}
        /\ rx' = [rx EXCEPT ![r] = AfterDrain([rx[r] EXCEPT !.page = 0])]
    BY <1>6, Zenon DEF RequeueMark, At, readyVars, Become
  <2> DEFINE e == [rx[r] EXCEPT !.page = 0]
  <2>2. /\ DOMAIN e = DOMAIN Idle /\ e.plan \in Seq({"ready", "direct", "work"})
        /\ e.page \in Pages /\ e.rest \subseteq Receivers /\ e.peer \in Receivers \union {None}
        /\ e.lane = None /\ e.released \in Senders \union {None} /\ e.released = rx[r].released
    BY <1>1, <2>1, FirstPage, Zenon DEF Receiving, HasLane, Idle
  <2> HIDE DEF e
  <2> DEFINE f == AfterDrain(e)
  <2>3. /\ Receiving(f) /\ f.pc = "advance" /\ f.then \in {"staged", "return"}
        /\ f.released = rx[r].released
    BY <2>2, AfterDrainReceiving, Zenon
  <2>4. rx' = [rx EXCEPT ![r] = f]
    BY <2>1, Zenon DEF e
  <2> HIDE DEF f
  <2>5. Ok(f)
    BY <2>3, Zenon DEF MakesClone, HasLane
  <2>6. rx[r].page \in Pages
    BY <1>1, Zenon DEF Receiving
  <2> QED
    BY <1>1, <2>1, <2>4, <2>5, <2>6, PageStepInv, Zenon
<1> QED
  BY <1>4, <1>5, <1>6, Zenon

\* The lane that a receiver drains: it is in no slot, no other receiver has it, and its
\* sender has been registered.
LEMMA HeldLane ==
  ASSUME IInv, NEW r \in Receivers, rx[r].pc \in HasLane
  PROVE  /\ rx[r].lane \in Senders /\ rx[r].lane # None /\ Present(rx[r].lane)
         /\ Held(rx[r].lane) /\ ~InSlot(rx[r].lane) /\ ~InQueue(rx[r].lane)
         /\ \A k \in Slots : slots[k] # rx[r].lane
         /\ \A p \in Pages : rx[r].lane \notin Range(queue[p])
         /\ \A q \in Receivers : rx[q].lane = rx[r].lane => q = r
         /\ ~SenderAt(rx[r].lane, "new")
<1> USE DEF IInv
<1>1. rx[r].lane \in Senders /\ rx[r].lane # None
  BY ZenonT(30) DEF TypeOK, Receiving
<1>2. Held(rx[r].lane) /\ Present(rx[r].lane)
  BY <1>1, Zenon DEF Held, Present
<1>3. ~InSlot(rx[r].lane) /\ ~InQueue(rx[r].lane)
  BY <1>1, <1>2, Zenon DEF TokenInv
<1>4. \A k \in Slots : slots[k] # rx[r].lane
  BY <1>1, <1>3, Zenon DEF TokenInv, InSlot
<1>5. \A p \in Pages : rx[r].lane \notin Range(queue[p])
  BY <1>1, <1>3, Zenon DEF TokenInv, InQueue
<1>6. \A q \in Receivers : rx[q].lane = rx[r].lane => q = r
  BY <1>1, Zenon DEF TokenInv
<1>7. ~SenderAt(rx[r].lane, "new")
  BY <1>1, <1>2, Zenon DEF LifeInv, LaneLife
<1> QED
  BY <1>1, <1>2, <1>3, <1>4, <1>5, <1>6, <1>7, Zenon

\* A receiver that drains its lane without moving it: what it does to the ring and to
\* the lane's PENDING concerns nobody else, and it will tell the sender of freed slots.
LEMMA HolderInv ==
  ASSUME IInv, NEW r \in Receivers, NEW f, NEW l, l = rx[r].lane,
         rx' = [rx EXCEPT ![r] = f], Receiving(f), f.lane = l, rx[r].pc \in HasLane, f.pc \in HasLane,
         rx[r].released # None => f.released = rx[r].released,
         UNCHANGED <<closed, shut, pageBits, readyGroup, workGroup, queue, slots, slotOf>>,
         UNCHANGED <<free, fresh, sx, setup, receiverAlive, queues>>,
         LockInv', pending' \in {pending, pending \union {l}, pending \ {l}},
         DOMAIN ring' = Senders, \A s \in Senders \ {l} : ring'[s] = ring[s], Buffering(ring'[l]),
         ring'[l].cached <= ring'[l].unread, ring'[l].unread <= ring[l].unread,
         HasRoom(l)' => HasRoom(l) \/ f.released = l,
         f.pc = "dispose" => ring'[l].unread = 0,
         f.pc \in {"reload", "dispose"} /\ l \in pending' =>
           slotOf[l] \in pageBits \/ SenderAt(l, "page")
  PROVE  IInv'
<1> USE DEF IInv
<1>1. /\ l \in Senders /\ l # None /\ Present(l) /\ ~SenderAt(l, "new")
      /\ \A k \in Slots : slots[k] # l
      /\ \A q \in Receivers \ {r} : rx[q].lane # l
  BY HeldLane, ZenonT(30)
<1>2. ~MakesClone(f) /\ rx[r].pc # "new"
  BY Zenon DEF MakesClone, HasLane
<1>3. /\ Moves(r) /\ rx'[r] = f /\ CloneInv'
      /\ DOMAIN rx' = Receivers /\ \A q \in Receivers : Receiving(rx'[q])
  BY <1>2, ReceiverFrame, Zenon
<1>4. TypeOK'
  <2>1. pending' \subseteq Senders
    BY <1>1, Zenon DEF TypeOK
  <2> QED
    BY <1>1, <1>3, <2>1, Zenon DEF TypeOK
<1>5. TokensStay
  BY <1>3, Zenon DEF TokensStay, Moves
<1>6. TokenInv' /\ SlotInv' /\ \A s \in Senders : Present(s)' <=> Present(s)
  BY <1>5, TokensKept, Zenon
<1>7. LifeInv'
  <2> SUFFICES ASSUME NEW s \in Senders
               PROVE  LaneLife(s)'
    BY Zenon DEF LifeInv
  <2>1. LaneLife(s)
    BY Zenon DEF LifeInv
  <2>2. CASE s = l
    BY <1>1, <1>6, <2>1, <2>2, Zenon DEF LaneLife, SenderAt
  <2>3. CASE s # l
    <3>1. ring'[s] = ring[s] /\ (s \in pending' <=> s \in pending)
      BY <2>3, Zenon
    <3> QED
      BY <1>6, <2>1, <3>1, Zenon DEF LaneLife, SenderAt
  <2> QED
    BY <2>2, <2>3, Zenon
<1>8. ReturnInv'
  <2> SUFFICES ASSUME NEW q \in Receivers, NEW s, s = rx'[q].lane
               PROVE  /\ At(q, "dispose")' /\ Buffered(s)' => s \in pending' \/ SenderAt(s, "lane")'
                      /\ rx'[q].pc \in {"reload", "dispose"} /\ s \in pending' =>
                           slotOf[s]' \in pageBits' \/ SenderAt(s, "page")'
    BY Zenon DEF ReturnInv, At, Buffered, SenderAt
  <2>1. CASE q = r
    <3>1. s = l /\ rx'[q].pc = f.pc
      BY <1>3, <2>1, Zenon
    <3>2. At(q, "dispose")' => ~Buffered(s)'
      <4>1. At(q, "dispose")' => ring'[s].unread = 0
        BY <3>1, Zenon DEF At
      <4> QED
        BY <4>1 DEF Buffered
    <3> QED
      BY <3>1, <3>2, Zenon DEF SenderAt
  <2>2. CASE q # r
    <3>1. rx'[q] = rx[q] /\ s # l /\ s = rx[q].lane
      BY <1>1, <1>3, <2>2, Zenon DEF Moves
    <3>2. rx[q].pc \in {"reload", "dispose"} => ring'[s] = ring[s]
      BY <3>1, HeldLane, Zenon DEF HasLane
    <3>3. s \in pending' <=> s \in pending
      BY <3>1, Zenon
    <3> QED
      BY <3>1, <3>2, <3>3, Zenon DEF ReturnInv, At, Buffered, SenderAt
  <2> QED
    BY <2>1, <2>2, Zenon
<1>9. LanesShown'
  <2> SUFFICES ASSUME NEW k \in Slots, NEW s, s = slots[k], s # None
               PROVE  LaneShown(s, k)'
    BY Zenon DEF LanesShown, LaneShown, Buffered, SenderAt
  <2>1. s \in Senders \ {l} /\ LaneShown(s, k)
    BY <1>1, Zenon DEF TypeOK, NothingHidden, LanesShown
  <2>2. ring'[s] = ring[s] /\ (s \in pending' <=> s \in pending)
    BY <2>1, Zenon
  <2> QED
    BY <2>1, <2>2, Zenon DEF LaneShown, Buffered, SenderAt
<1>10. PagesShown' /\ QueuesShown'
  BY <1>3, PagesKept, QueuesKept, Zenon DEF NothingHidden, HasLane
<1>11. SenderNotStranded'
  <2> SUFFICES ASSUME NEW s \in Senders, SenderAt(s, "parked"), ~sx[s].notified, receiverAlive,
                      HasRoom(s)'
               PROVE  \E q \in Receivers : rx'[q].released = s
    BY Zenon DEF SenderNotStranded, SenderAt
  <2>1. CASE HasRoom(s)
    <3>1. PICK q \in Receivers : rx[q].released = s
      BY <2>1, Zenon DEF SenderNotStranded
    <3>2. s # None
      BY HandleAssumption, Zenon DEF None
    <3>3. rx'[q].released = s
      BY <1>3, <3>1, <3>2, Zenon DEF Moves
    <3> QED
      BY <3>3, Zenon
  <2>2. CASE ~HasRoom(s)
    <3>1. s = l
      BY <2>2, Zenon DEF HasRoom
    <3> QED
      BY <1>3, <2>2, <3>1, Zenon
  <2> QED
    BY <2>1, <2>2, Zenon
<1> QED
  BY <1>3, <1>4, <1>6, <1>7, <1>8, <1>9, <1>10, <1>11, Zenon DEF NothingHidden

\* The smaller of two numbers.
LEMMA MinOfTwo ==
  ASSUME NEW a \in Nat, NEW b \in Nat
  PROVE  Min({a, b}) \in Nat /\ Min({a, b}) <= a /\ Min({a, b}) <= b
<1>1. \E x \in {a, b} : \A y \in {a, b} : x <= y
  OBVIOUS
<1>2. Min({a, b}) \in {a, b} /\ \A y \in {a, b} : Min({a, b}) <= y
  BY <1>1 DEF Min
<1> QED
  BY <1>2

\* What a drain leaves the receiver with, the lane with values or without,
Drains(e, f, pc, released) ==
  Receiving(f) /\ f.lane = e.lane /\ f.pc = pc /\ f.released = released
Drained(e, pc, wake, released) ==
  [e EXCEPT !.pc = pc, !.got = 1, !.wake = wake, !.released = released]
LEMMA DrainReceiving ==
  ASSUME NEW e, Receiving(e), e.pc = "drain", NEW pc \in {"finish", "requeue"}, NEW wake,
         NEW released \in {None, e.lane}
  PROVE  Drains(e, Drained(e, pc, wake, released), pc, released)
  BY DEF Drains, Drained, Receiving, HasLane, Settling, Idle
LEMMA DrainEmptyReceiving ==
  ASSUME NEW e, Receiving(e), e.pc = "drain", NEW released \in {None, e.lane}
  PROVE  LET f == [e EXCEPT !.pc = "finish", !.released = released]
         IN  Receiving(f) /\ f.lane = e.lane /\ f.pc = "finish" /\ f.released = released
  BY DEF Receiving, HasLane, Settling, Idle

\* and what finish_empty_lane leaves it with, until the lane is disposed of.
LEMMA FinishReceiving ==
  ASSUME NEW e, Receiving(e), e.pc \in {"finish", "reload"}, NEW pc \in {"reload", "dispose"}
  PROVE  LET f == [e EXCEPT !.pc = pc]
         IN  Receiving(f) /\ f.lane = e.lane /\ f.pc = pc /\ f.released = e.released
  BY DEF Receiving, HasLane, Settling, Idle
LEMMA KeepReceiving ==
  ASSUME NEW e, Receiving(e), e.pc = "reload", NEW wake
  PROVE  LET f == [e EXCEPT !.pc = "requeue", !.wake = wake]
         IN  Receiving(f) /\ f.lane = e.lane /\ f.pc = "requeue" /\ f.released = e.released
  BY DEF Receiving, HasLane, Settling, Idle

\* Draining takes values and gives slots back, under the receiver's token alone.
LEMMA DrainInv ==
  ASSUME IInv, NEW r \in Receivers, DrainEmpty(r) \/ DrainLane(r)
  PROVE  IInv'
<1> USE DEF IInv
<1>0. PICK l : l = rx[r].lane
  OBVIOUS
<1>1. /\ rx[r].pc = "drain" /\ rx[r].pc \in HasLane /\ Receiving(rx[r])
      /\ UNCHANGED <<closed, shut, pageBits, readyGroup, workGroup, queue, slots, slotOf>>
      /\ UNCHANGED <<free, fresh, sx, setup, receiverAlive, queues, lock, pending>>
  <2> USE DEF At, HasLane, peerSide, senderVars, ringVars, registryVars, readyVars, workVars, countVars
  <2>1. Receiving(rx[r])
    BY Zenon DEF TypeOK
  <2>2. CASE DrainEmpty(r)
    BY <2>1, <2>2, Zenon DEF DrainEmpty
  <2>3. CASE DrainLane(r)
    BY <2>1, <2>3, Zenon DEF DrainLane
  <2> QED
    BY <2>2, <2>3, Zenon
<1>2. /\ l \in Senders /\ l # None /\ DOMAIN ring = Senders /\ Buffering(ring[l])
      /\ ring[l].cached <= ring[l].unread /\ setup.cap \in Nat \ {0}
  BY <1>1, <1>0, HeldLane, HandleAssumption, Zenon DEF TypeOK, LifeInv, LaneLife, IsSetup
<1>3. ASSUME NEW f, rx' = [rx EXCEPT ![r] = f], Receiving(f), f.lane = l,
             f.pc \in {"finish", "requeue"},
             NEW b, ring' = [ring EXCEPT ![l] = b], Buffering(b), b.cached <= b.unread,
             b.unread <= ring[l].unread,
             b.unread + b.unreleased = ring[l].unread + ring[l].unreleased \/ f.released = l
      PROVE  IInv'
  <2>1. /\ DOMAIN ring' = Senders /\ ring'[l] = b
        /\ \A s \in Senders \ {l} : ring'[s] = ring[s]
    BY <1>2, <1>3, Zenon
  <2>2. HasRoom(l)' => HasRoom(l) \/ f.released = l
    BY <1>1, <1>3, <2>1, Zenon DEF HasRoom
  <2>3. LockInv'
    <3>1. Moves(r) /\ rx'[r] = f
      BY <1>3, Zenon DEF TypeOK, Moves
    <3> QED
      BY <1>1, <1>3, <3>1, LockKept, Zenon
  <2>4. rx[r].released = None
    BY <1>1, Zenon DEF Receiving, Settling
  <2>5. f.pc \in HasLane
    BY <1>3, Zenon DEF HasLane
  <2> QED
    BY <1>1, <1>2, <1>3, <2>1, <2>2, <2>3, <2>4, <2>5, HolderInv, <1>0, Zenon
<1>4. CASE DrainEmpty(r)
  <2> DEFINE rel == IF ring[l].unreleased > 0 THEN l ELSE rx[r].released
             f == [rx[r] EXCEPT !.pc = "finish", !.released = rel]
             b == [ring[l] EXCEPT !.unreleased = 0]
  <2>1. /\ rx' = [rx EXCEPT ![r] = f] /\ ring' = [ring EXCEPT ![l] = b] /\ ring[l].unread = 0
    BY <1>0, <1>4, Zenon DEF DrainEmpty, Become
  <2>2. rel \in {None, l} /\ (ring[l].unreleased = 0 \/ rel = l)
    <3>1. ring[l].unreleased = 0 \/ ring[l].unreleased > 0
      BY <1>2 DEF Buffering
    <3>2. rx[r].released = None
      BY <1>1, Zenon DEF Receiving, Settling
    <3> QED
      BY <3>1, <3>2, Zenon
  <2>3. /\ Buffering(b) /\ b.cached <= b.unread /\ b.unread <= ring[l].unread
        /\ b.unread = ring[l].unread /\ b.unreleased = 0
    BY <1>2 DEF Buffering
  <2> HIDE DEF rel
  <2>4. Receiving(f) /\ f.lane = l /\ f.pc = "finish" /\ f.released = rel
    <3>1. rel \in {None, rx[r].lane}
      BY <1>0, <2>2, Zenon
    <3>2. Receiving(f) /\ f.lane = rx[r].lane /\ f.pc = "finish" /\ f.released = rel
      BY <1>1, <3>1, DrainEmptyReceiving, Zenon
    <3> QED
      BY <1>0, <3>2
  <2> HIDE DEF f, b
  <2> QED
    BY <1>2, <1>3, <2>1, <2>2, <2>3, <2>4, Zenon DEF Buffering
<1>5. CASE DrainLane(r)
  <2> DEFINE available == IF ring[l].cached = 0 THEN ring[l].unread ELSE ring[l].cached
             batch == Min({available, PrefetchLimit})
             cached == available - batch
             unreleased == ring[l].unreleased + batch
             release == unreleased >= ReleaseBatch \/ cached = 0
             wake == Merged(IF batch > 1 THEN "all" ELSE None, IF cached > 0 THEN "one" ELSE None)
             rel == IF release THEN l ELSE rx[r].released
             pc == IF cached > 0 THEN "requeue" ELSE "finish"
             f == [rx[r] EXCEPT !.pc = pc, !.got = 1, !.wake = wake, !.released = rel]
             b == [unread |-> ring[l].unread - batch, cached |-> cached,
                   unreleased |-> IF release THEN 0 ELSE unreleased]
  <2>1. /\ rx' = [rx EXCEPT ![r] = f] /\ ring' = [ring EXCEPT ![l] = b] /\ ring[l].unread > 0
    BY <1>0, <1>5, ZenonT(30) DEF DrainLane, Become
  <2>2. available \in Nat /\ available <= ring[l].unread /\ PrefetchLimit \in Nat
    BY <1>2, LimitAssumption, SMTT(30) DEF Buffering
  <2> HIDE DEF available
  <2>3. batch \in Nat /\ batch <= available
    BY <2>2, MinOfTwo, Zenon
  <2> HIDE DEF batch
  <2>4. rel \in {None, l} /\ (~release => rel = None) /\ (release => rel = l)
    BY <1>1, <1>2, Zenon DEF Receiving, Settling
  <2>5. /\ Buffering(b) /\ b.cached <= b.unread /\ b.unread <= ring[l].unread
        /\ ~release => b.unread + b.unreleased = ring[l].unread + ring[l].unreleased
    <3>1. /\ ring[l].unread \in Nat /\ ring[l].unreleased \in Nat /\ batch <= ring[l].unread
      BY <1>2, <2>2, <2>3, SMTT(30) DEF Buffering
    <3>2. /\ cached \in Nat /\ cached <= ring[l].unread - batch /\ unreleased \in Nat
          /\ ring[l].unread - batch \in Nat
      BY <2>2, <2>3, <3>1, SMTT(30)
    <3>3. b.unread = ring[l].unread - batch /\ b.cached = cached
      BY Zenon
    <3>4. b.unreleased = IF release THEN 0 ELSE unreleased
      BY Zenon
    <3>5. DOMAIN b = {"unread", "cached", "unreleased"}
      BY Zenon
    <3> HIDE DEF b, release, cached
    <3> QED
      BY <2>3, <3>1, <3>2, <3>3, <3>4, <3>5, SMTT(30) DEF Buffering
  <2> HIDE DEF release, rel, wake
  <2>6. pc \in {"finish", "requeue"}
    OBVIOUS
  <2> HIDE DEF pc
  <2>7. Receiving(f) /\ f.lane = l /\ f.pc = pc /\ f.released = rel
    <3>1. rel \in {None, rx[r].lane}
      BY <1>0, <2>4, Zenon
    <3>2. Receiving(f) /\ f.lane = rx[r].lane /\ f.pc = pc /\ f.released = rel
      <4>1. Drains(rx[r], Drained(rx[r], pc, wake, rel), pc, rel)
        BY <1>1, <2>6, <3>1, DrainReceiving, Zenon
      <4>2. f = Drained(rx[r], pc, wake, rel)
        BY Zenon DEF Drained
      <4> HIDE DEF f
      <4> QED
        BY <4>1, <4>2, Zenon DEF Drains
    <3> QED
      BY <1>0, <3>2
  <2> HIDE DEF f, b
  <2> QED
    BY <1>2, <1>3, <2>1, <2>4, <2>5, <2>6, <2>7, Zenon
<1> QED
  BY <1>4, <1>5

\* finish_empty_lane holds the registry lock from the finish of the drain until the lane
\* is kept or disposed of.
LEMMA FinishInv ==
  ASSUME IInv, NEW r \in Receivers, FinishDrain(r) \/ Reload(r)
  PROVE  IInv'
<1> USE DEF IInv
<1>0. PICK l : l = rx[r].lane
  OBVIOUS
<1>1. /\ rx[r].pc \in {"finish", "reload"} /\ rx[r].pc \in HasLane /\ Receiving(rx[r])
      /\ UNCHANGED <<closed, shut, pageBits, readyGroup, workGroup, queue, slots, slotOf>>
      /\ UNCHANGED <<free, fresh, sx, setup, receiverAlive, queues>>
  <2> USE DEF At, HasLane, peerSide, senderVars, ringVars, registryVars, workVars, countVars
  <2>1. Receiving(rx[r])
    BY Zenon DEF TypeOK
  <2>2. CASE FinishDrain(r)
    BY <2>1, <2>2, Zenon DEF FinishDrain
  <2>3. CASE Reload(r)
    BY <2>1, <2>3, Zenon DEF Reload
  <2> QED
    BY <2>2, <2>3, Zenon
<1>2. /\ l \in Senders /\ DOMAIN ring = Senders /\ Buffering(ring[l])
      /\ ring[l].cached <= ring[l].unread
  BY <1>1, <1>0, HeldLane, Zenon DEF TypeOK, LifeInv, LaneLife
<1>2a. ring[l].unread \in Nat /\ ring[l].unread <= ring[l].unread
  BY <1>2 DEF Buffering
<1>3. ASSUME NEW f, rx' = [rx EXCEPT ![r] = f]
      PROVE  Moves(r) /\ rx'[r] = f
  BY <1>3, Zenon DEF TypeOK, Moves
<1>4. None \notin Receivers
  BY HandleAssumption, Zenon DEF None
<1>5. CASE FinishDrain(r)
  <2> DEFINE f == [rx[r] EXCEPT !.pc = "reload"]
  <2>1. /\ rx' = [rx EXCEPT ![r] = f] /\ lock = None /\ lock' = r /\ pending' = pending \ {l}
        /\ ring' = ring /\ rx[r].pc = "finish"
    BY <1>0, <1>5, Zenon DEF FinishDrain, At, To, Become, ringVars
  <2>2. Receiving(f) /\ f.lane = l /\ f.pc = "reload" /\ f.released = rx[r].released
    BY <1>0, <1>1, <2>1, FinishReceiving, Zenon
  <2> HIDE DEF f
  <2>3. Moves(r) /\ rx'[r] = f
    BY <1>3, <2>1, Zenon
  <2>4. LockInv'
    BY <1>4, <2>1, <2>2, <2>3, Zenon DEF LockInv, Moves
  <2>5. f.pc \in HasLane /\ HasRoom(l)' = HasRoom(l)
    BY <1>1, <2>1, <2>2, Zenon DEF HasLane, HasRoom
  <2> QED
    <3>1. /\ DOMAIN ring' = Senders /\ \A s \in Senders \ {l} : ring'[s] = ring[s]
          /\ Buffering(ring'[l]) /\ ring'[l].cached <= ring'[l].unread
          /\ ring'[l].unread <= ring[l].unread
          /\ pending' \in {pending, pending \union {l}, pending \ {l}} /\ l \notin pending'
          /\ f.pc # "dispose" /\ (HasRoom(l)' => HasRoom(l) \/ f.released = l)
      BY <1>2, <1>2a, <2>1, <2>2, <2>5, Zenon
    <3> QED
      BY <1>0, <1>1, <2>1, <2>2, <2>4, <2>5, <3>1, HolderInv, Zenon
<1>6. CASE Reload(r)
  <2>1. /\ rx[r].pc = "reload" /\ ring' = [ring EXCEPT ![l].cached = ring[l].unread]
    BY <1>0, <1>6, Zenon DEF Reload, At
  <2>2. /\ DOMAIN ring' = Senders /\ Buffering(ring'[l]) /\ ring'[l].cached <= ring'[l].unread
        /\ ring'[l].unread = ring[l].unread /\ ring'[l].unreleased = ring[l].unreleased
        /\ \A s \in Senders \ {l} : ring'[s] = ring[s]
    BY <1>2, <2>1 DEF Buffering
  <2>3. HasRoom(l)' = HasRoom(l)
    BY <1>1, <2>2, Zenon DEF HasRoom
  <2>4. lock = r /\ \A q \in Receivers \ {r} : rx[q].pc \notin {"reload", "dispose"}
    BY <2>1, Zenon DEF LockInv
  <2>5. CASE ring[l].unread > 0
    <3> DEFINE f == [rx[r] EXCEPT !.pc = "requeue", !.wake = Merged(rx[r].wake, "one")]
    <3>1. rx' = [rx EXCEPT ![r] = f] /\ pending' = pending \union {l} /\ lock' = None
      BY <1>0, <1>6, <2>5, Zenon DEF Reload, Become
    <3>2. Receiving(f) /\ f.lane = l /\ f.pc = "requeue" /\ f.released = rx[r].released
      BY <1>0, <1>1, <2>1, KeepReceiving, Zenon
    <3> HIDE DEF f
    <3>3. LockInv'
      BY <1>3, <1>4, <2>4, <3>1, <3>2, Zenon DEF LockInv, Moves
    <3>4. f.pc \in HasLane
      BY <3>2, Zenon DEF HasLane
    <3> QED
      <4>1. /\ ring'[l].unread <= ring[l].unread
            /\ pending' \in {pending, pending \union {l}, pending \ {l}}
            /\ f.pc \notin {"reload", "dispose"} /\ f.pc # "dispose"
            /\ HasRoom(l)' => HasRoom(l) \/ f.released = l
        BY <1>2a, <2>2, <2>3, <3>1, <3>2, ZenonT(30)
      <4> QED
        BY <1>0, <1>1, <2>2, <3>1, <3>2, <3>3, <3>4, <4>1, HolderInv, Zenon
  <2>6. CASE ring[l].unread = 0
    <3> DEFINE f == [rx[r] EXCEPT !.pc = "dispose"]
    <3>1. rx' = [rx EXCEPT ![r] = f] /\ pending' = pending /\ lock' = lock
      BY <1>0, <1>6, <2>6, SMTT(30) DEF Reload, To, Become
    <3>2. Receiving(f) /\ f.lane = l /\ f.pc = "dispose" /\ f.released = rx[r].released
      BY <1>0, <1>1, <2>1, FinishReceiving, Zenon
    <3> HIDE DEF f
    <3>3. LockInv'
      BY <1>3, <2>4, <3>1, <3>2, Zenon DEF LockInv, Moves
    <3>4. f.pc \in HasLane
      BY <3>2, Zenon DEF HasLane
    <3>5. l \in pending' => slotOf[l] \in pageBits \/ SenderAt(l, "page")
      BY <1>0, <2>1, <3>1, Zenon DEF ReturnInv
    <3> QED
      <4>1. /\ ring'[l].unread <= ring[l].unread /\ ring'[l].unread = 0
            /\ pending' \in {pending, pending \union {l}, pending \ {l}}
            /\ HasRoom(l)' => HasRoom(l) \/ f.released = l
        BY <1>2a, <2>2, <2>3, <2>6, <3>1, ZenonT(30)
      <4> QED
        BY <1>0, <1>1, <2>2, <3>1, <3>2, <3>3, <3>4, <3>5, <4>1, HolderInv, Zenon
  <2>7. ring[l].unread > 0 \/ ring[l].unread = 0
    BY <1>2a
  <2> QED
    BY <2>5, <2>6, <2>7, Zenon
<1> QED
  BY <1>5, <1>6

-----------------------------------------------------------------------------
(* Receivers that move a token. *)

\* What is left to show of a step that moves the token of a lane from one of its places to
\* another: that it stays the only one, and that the lanes can be found.
LEMMA MoveInv ==
  ASSUME IInv, NEW r \in Receivers, NEW f, rx' = [rx EXCEPT ![r] = f], Receiving(f),
         ~MakesClone(f), rx[r].pc \notin {"new", "reload", "dispose"},
         f.pc \notin {"reload", "dispose"}, rx[r].released # None => f.released = rx[r].released,
         UNCHANGED <<ring, closed, shut, pending, readyGroup, lock, slotOf>>,
         UNCHANGED <<free, fresh, sx, setup, receiverAlive, queues>>,
         pageBits' \subseteq pageBits, pageBits' = pageBits \/ lock = None,
         workGroup' \subseteq Pages, queue' \in [Pages -> Seq(Senders)],
         slots' \in [Slots -> Senders \union {None}],
         TokenInv', \A s \in Senders : Present(s)' <=> Present(s),
         LanesShown', PagesShown', QueuesShown'
  PROVE  IInv'
<1> USE DEF IInv
<1>1. /\ Moves(r) /\ rx'[r] = f /\ CloneInv'
      /\ DOMAIN rx' = Receivers /\ \A q \in Receivers : Receiving(rx'[q])
  BY ReceiverFrame, ZenonT(30)
<1>2. TypeOK'
  BY <1>1, Zenon DEF TypeOK
<1>3. LockInv'
  BY <1>1, LockKept, Zenon
<1>4. SlotInv'
  BY SlotsKept, Zenon
<1>5. LifeInv'
  BY Zenon DEF LifeInv, LaneLife, SenderAt
<1>6. ReturnInv'
  <2>1. CASE pageBits' = pageBits
    BY <1>1, <2>1, Zenon DEF ReturnInv, At, Buffered, SenderAt, Moves
  <2>2. CASE lock = None
    <3>1. \A q \in Receivers : rx'[q].pc \notin {"reload", "dispose"}
      BY <1>1, <2>2, HandleAssumption, Zenon DEF LockInv, Moves, None
    <3> QED
      BY <3>1, Zenon DEF ReturnInv, At
  <2> QED
    BY <2>1, <2>2, Zenon
<1>7. SenderNotStranded'
  BY <1>1, StrandedKept, HandleAssumption, Zenon DEF SendersStay, HasRoom, None
<1> QED
  BY <1>1, <1>2, <1>3, <1>4, <1>5, <1>6, <1>7, Zenon DEF NothingHidden

\* A queue without duplicates, when one lane leaves it or joins it.
LEMMA TailRange ==
  ASSUME NEW S, NEW q \in Seq(S), q # << >>, IsInjective(q)
  PROVE  /\ Head(q) \in S /\ Head(q) \in Range(q) /\ Tail(q) \in Seq(S) /\ IsInjective(Tail(q))
         /\ \A s : s \in Range(Tail(q)) <=> s \in Range(q) /\ s # Head(q)
<1>1. /\ Head(q) = q[1] /\ 1 \in DOMAIN q /\ Head(q) \in S /\ Tail(q) \in Seq(S)
      /\ DOMAIN q = 1 .. Len(q) /\ DOMAIN Tail(q) = 1 .. (Len(q) - 1) /\ Len(q) \in Nat
      /\ \A i \in 1 .. (Len(q) - 1) : Tail(q)[i] = q[i + 1]
  OBVIOUS
<1>2. IsInjective(Tail(q))
  BY <1>1 DEF IsInjective
<1>3. \A s : s \in Range(Tail(q)) => s \in Range(q) /\ s # Head(q)
  BY <1>1 DEF IsInjective, Range
<1>4. ASSUME NEW s, s \in Range(q), s # Head(q)
      PROVE  s \in Range(Tail(q))
  <2>1. PICK i \in DOMAIN q : q[i] = s
    BY <1>4, Zenon DEF Range
  <2>2. i - 1 \in DOMAIN Tail(q) /\ Tail(q)[i - 1] = s
    BY <1>1, <1>4, <2>1
  <2> QED
    BY <2>2, Zenon DEF Range
<1> QED
  BY <1>1, <1>2, <1>3, <1>4, Zenon DEF Range
LEMMA AppendRange ==
  ASSUME NEW S, NEW q \in Seq(S), NEW l \in S, IsInjective(q), l \notin Range(q)
  PROVE  /\ Append(q, l) \in Seq(S) /\ IsInjective(Append(q, l)) /\ Append(q, l) # << >>
         /\ \A s : s \in Range(Append(q, l)) <=> s \in Range(q) \/ s = l
<1> DEFINE a == Append(q, l)
<1>1. /\ a \in Seq(S) /\ a # << >> /\ DOMAIN q = 1 .. Len(q) /\ DOMAIN a = 1 .. (Len(q) + 1)
      /\ Len(q) \in Nat /\ a[Len(q) + 1] = l /\ \A i \in 1 .. Len(q) : a[i] = q[i]
  OBVIOUS
<1> HIDE DEF a
<1>2. \A i \in DOMAIN a : i = Len(q) + 1 \/ (i \in DOMAIN q /\ a[i] = q[i])
  BY <1>1
<1>3. IsInjective(a)
  BY <1>1, <1>2, Zenon DEF IsInjective, Range
<1>4. \A i \in DOMAIN q : i \in DOMAIN a /\ a[i] = q[i]
  BY <1>1
<1>5. Len(q) + 1 \in DOMAIN a
  BY <1>1
<1>6. \A s : s \in Range(a) <=> s \in Range(q) \/ s = l
  BY <1>1, <1>2, <1>4, <1>5, Zenon DEF Range
<1> QED
  BY <1>1, <1>3, <1>6, Zenon DEF a

\* A lane leaves the queue of its page for the receiver that pops it.
LEMMA PopInv ==
  ASSUME IInv, NEW r \in Receivers, PopDirect(r) \/ PopAfterClaim(r)
  PROVE  IInv'
<1> USE DEF IInv
<1>1. /\ rx[r].pc \in {"direct", "claimed"} /\ Receiving(rx[r])
      /\ UNCHANGED <<ring, closed, shut, pending, pageBits, readyGroup, lock, slots, slotOf>>
      /\ UNCHANGED <<free, fresh, sx, setup, receiverAlive, queues>>
      /\ PopPage(r)
      /\ workGroup' = workGroup \/ workGroup' = workGroup \union {rx[r].page}
      /\ rx[r].pc = "claimed" /\ queue[rx[r].page] # << >> => rx[r].page \in workGroup'
  <2> USE DEF At, peerSide, senderVars, ringVars, registryVars, readyVars, countVars
  <2>1. Receiving(rx[r])
    BY Zenon DEF TypeOK
  <2>2. CASE PopDirect(r)
    BY <2>1, <2>2, Zenon DEF PopDirect
  <2>3. CASE PopAfterClaim(r)
    BY <2>1, <2>3, Zenon DEF PopAfterClaim
  <2> QED
    BY <2>2, <2>3, Zenon
<1>2. PICK p \in Pages : p = rx[r].page
  BY <1>1, Zenon DEF Receiving
<1>3. /\ rx[r].lane = None /\ rx[r].released = None /\ rx[r].plan # << >> /\ rx[r].pc \notin HasLane
      /\ queue \in [Pages -> Seq(Senders)] /\ IsInjective(queue[p])
  BY <1>1, <1>2, Zenon DEF TypeOK, TokenInv, Receiving, HasLane, Settling
<1>4. workGroup' \subseteq Pages /\ workGroup \subseteq workGroup'
  BY <1>1, <1>2, ZenonT(30) DEF TypeOK
<1>5. ASSUME NEW f, rx' = [rx EXCEPT ![r] = f], Receiving(f), ~MakesClone(f),
             f.pc \in {"drain", "advance"}, f.released = None, queue' \in [Pages -> Seq(Senders)],
             \A j \in Pages : queue'[j] # << >> => queue[j] # << >>,
             TokenInv', \A s \in Senders : Present(s)' <=> Present(s)
      PROVE  IInv'
  <2>1. /\ Moves(r) /\ rx'[r] = f
    BY <1>1, <1>5, ReceiverFrame, Zenon
  <2>2. LanesShown'
    BY <1>1, Zenon DEF NothingHidden, LanesShown, LaneShown, Buffered, SenderAt
  <2>3. PagesShown'
    BY <1>1, <2>1, PagesKept, Zenon DEF NothingHidden
  <2>4. QueuesShown'
    <3> SUFFICES ASSUME NEW j \in Pages, queue'[j] # << >>, receiverAlive'
                 PROVE  \/ j \in workGroup'
                        \/ \E q \in Receivers : rx'[q].pc \in {"mark", "claimed"} /\ rx'[q].page = j
      BY Zenon DEF QueuesShown
    <3>1. queue[j] # << >> /\ receiverAlive
      BY <1>1, <1>5, Zenon
    <3>2. CASE j \in workGroup
      BY <1>4, <3>2, Zenon
    <3>3. CASE \E q \in Receivers : rx[q].pc \in {"mark", "claimed"} /\ rx[q].page = j
      <4>1. PICK q \in Receivers : rx[q].pc \in {"mark", "claimed"} /\ rx[q].page = j
        BY <3>3, Zenon
      <4>2. CASE q = r
        BY <1>1, <3>1, <4>1, <4>2, Zenon
      <4>3. CASE q # r
        BY <2>1, <4>1, <4>3, Zenon DEF Moves
      <4> QED
        BY <4>2, <4>3, Zenon
    <3> QED
      BY <3>1, <3>2, <3>3, Zenon DEF NothingHidden, QueuesShown
  <2>5. slots' \in [Slots -> Senders \union {None}]
    BY <1>1, Zenon DEF TypeOK
  <2>6. /\ rx[r].pc \notin {"new", "reload", "dispose"} /\ f.pc \notin {"reload", "dispose"}
        /\ rx[r].released # None => f.released = rx[r].released
        /\ pageBits' \subseteq pageBits /\ (pageBits' = pageBits \/ lock = None)
        /\ UNCHANGED <<ring, closed, shut, pending, readyGroup, lock, slotOf>>
        /\ UNCHANGED <<free, fresh, sx, setup, receiverAlive, queues>>
    BY <1>1, <1>3, <1>5, Zenon
  <2> QED
    BY <1>4, <1>5, <2>2, <2>3, <2>4, <2>5, <2>6, MoveInv, Zenon
<1>6. CASE queue[p] = << >>
  <2> DEFINE f == Nothing(rx[r])
  <2>1. rx' = [rx EXCEPT ![r] = f] /\ queue' = queue
    BY <1>1, <1>2, <1>6, Zenon DEF PopPage, Become
  <2>2. /\ Receiving(f) /\ f.pc = "advance" /\ f.then = "search" /\ f.lane = None
        /\ f.released = None
    BY <1>1, <1>3, NothingReceiving, Zenon
  <2> HIDE DEF f
  <2>3. ~MakesClone(f)
    BY <2>2, Zenon DEF MakesClone
  <2>4. Moves(r) /\ rx'[r] = f
    BY <1>1, <2>1, <2>2, <2>3, ReceiverFrame, Zenon
  <2>5. TokensStay
    BY <1>1, <1>3, <2>1, <2>2, <2>4, Zenon DEF TokensStay, Moves
  <2>6. TokenInv' /\ \A s \in Senders : Present(s)' <=> Present(s)
    BY <2>5, TokensKept, Zenon
  <2> QED
    BY <1>3, <1>5, <2>1, <2>2, <2>3, <2>6, Zenon
<1>7. CASE queue[p] # << >>
  <2>1. PICK l : l = Head(queue[p])
    BY Zenon
  <2> DEFINE f == Claim(rx[r], l)
  <2>2. rx' = [rx EXCEPT ![r] = f] /\ queue' = [queue EXCEPT ![p] = Tail(@)]
    BY <1>1, <1>2, <1>7, <2>1, Zenon DEF PopPage, Become
  <2>3. /\ l \in Senders /\ l \in Range(queue[p]) /\ IsInjective(Tail(queue[p]))
        /\ Tail(queue[p]) \in Seq(Senders)
        /\ \A s : s \in Range(Tail(queue[p])) <=> s \in Range(queue[p]) /\ s # l
    <3>1. queue[p] \in Seq(Senders)
      BY <1>3, Zenon
    <3> QED
      BY <1>3, <1>7, <2>1, <3>1, TailRange, Zenon
  <2>4. /\ Receiving(f) /\ f.pc = "drain" /\ f.lane = l /\ f.released = None
    BY <1>1, <1>3, <2>3, ClaimReceiving, Zenon
  <2> HIDE DEF f
  <2>5. ~MakesClone(f)
    BY <2>4, Zenon DEF MakesClone
  <2>6. Moves(r) /\ rx'[r] = f
    BY <1>1, <2>2, <2>4, <2>5, ReceiverFrame, Zenon
  <2>7. /\ queue' \in [Pages -> Seq(Senders)] /\ queue'[p] = Tail(queue[p])
        /\ \A j \in Pages \ {p} : queue'[j] = queue[j]
    BY <1>3, <2>2, <2>3, Zenon
  <2>8. Page(slotOf[l]) = p /\ InQueue(l) /\ ~InSlot(l) /\ ~Held(l) /\ l # None
    BY <2>3, HandleAssumption, Zenon DEF TokenInv, InQueue, None
  <2>9. \A s \in Senders : /\ InSlot(s)' <=> InSlot(s)
                           /\ InQueue(s)' <=> InQueue(s) /\ s # l
                           /\ Held(s)' <=> Held(s) \/ s = l
    <3>1. \A s \in Senders : slotOf[s] \in Slots /\ Page(slotOf[s]) \in Pages /\ s # None
      BY HandleAssumption, Zenon DEF TypeOK, Pages, None
    <3>2. \A s \in Senders : InSlot(s)' <=> InSlot(s)
      BY <1>1, Zenon DEF InSlot
    <3>3. \A s \in Senders : InQueue(s)' <=> InQueue(s) /\ s # l
      BY <1>1, <2>3, <2>7, <2>8, <3>1, Zenon DEF InQueue
    <3>4. \A s \in Senders : Held(s)' <=> Held(s) \/ s = l
      BY <1>3, <2>4, <2>6, <3>1, Zenon DEF Held, Moves
    <3> QED
      BY <3>2, <3>3, <3>4, Zenon
  <2>10. \A s \in Senders : Present(s)' <=> Present(s)
    BY <2>8, <2>9, Zenon DEF Present
  <2>11. TokenInv'
    <3>1. /\ \A j \in Pages : IsInjective(queue'[j])
          /\ \A j \in Pages : \A s \in Range(queue'[j]) : s \in Range(queue[j])
      BY <2>3, <2>7, ZenonT(30) DEF TokenInv
    <3>2. \A q, t \in Receivers : rx'[q].lane = rx'[t].lane /\ rx'[t].lane # None => q = t
      <4>1. Moves(r) /\ \A q \in Receivers \ {r} : rx[q].lane # rx'[r].lane
        BY <2>4, <2>6, <2>8, Zenon DEF Held
      <4> QED
        BY <4>1, HoldersApart, Zenon
    <3> QED
      BY <1>1, <2>8, <2>9, <3>1, <3>2, Zenon DEF TokenInv
  <2>12. \A j \in Pages : queue'[j] # << >> => queue[j] # << >>
    BY <1>7, <2>7, Zenon
  <2> QED
    BY <1>5, <2>2, <2>4, <2>5, <2>7, <2>10, <2>11, <2>12, Zenon
<1> QED
  BY <1>6, <1>7, Zenon

\* A lane goes from the receiver that drained a part of it to the queue of its page.
LEMMA RequeueInv ==
  ASSUME IInv, NEW r \in Receivers, Requeue(r)
  PROVE  IInv'
<1> USE DEF IInv
<1>1. /\ rx[r].pc = "requeue" /\ rx[r].pc \in HasLane /\ Receiving(rx[r])
      /\ UNCHANGED <<ring, closed, shut, pending, pageBits, readyGroup, lock, slots, slotOf>>
      /\ UNCHANGED <<free, fresh, sx, setup, receiverAlive, queues, workGroup>>
  BY ZenonT(30) DEF Requeue, At, HasLane, TypeOK, peerSide, senderVars, ringVars, registryVars, readyVars,
         countVars
<1>2. PICK l : l = rx[r].lane
  BY Zenon
<1>3. /\ l \in Senders /\ l # None /\ Present(l) /\ Held(l) /\ ~InSlot(l) /\ ~InQueue(l)
      /\ \A p \in Pages : l \notin Range(queue[p])
      /\ \A q \in Receivers : rx[q].lane = l => q = r
  BY <1>1, <1>2, HeldLane, Zenon
<1>4. PICK p \in Pages : p = Page(slotOf[l])
  BY <1>3, Zenon DEF TypeOK, Pages
<1> DEFINE f == [rx[r] EXCEPT !.pc = "mark", !.page = p, !.lane = None]
<1>5. rx' = [rx EXCEPT ![r] = f] /\ queue' = [queue EXCEPT ![p] = Append(@, l)]
  BY <1>2, <1>4, Zenon DEF Requeue, Become
<1>6. Receiving(f) /\ f.pc = "mark" /\ f.page = p /\ f.lane = None /\ f.released = rx[r].released
  BY <1>1, Zenon DEF Receiving, HasLane, Settling, Idle
<1> HIDE DEF f
<1>7. ~MakesClone(f)
  BY <1>6, Zenon DEF MakesClone
<1>8. Moves(r) /\ rx'[r] = f
  BY <1>1, <1>5, <1>6, <1>7, ReceiverFrame, Zenon
<1>9. /\ queue \in [Pages -> Seq(Senders)] /\ IsInjective(queue[p])
      /\ workGroup \subseteq Pages /\ slots \in [Slots -> Senders \union {None}]
  BY Zenon DEF TypeOK, TokenInv
<1>10. /\ Append(queue[p], l) \in Seq(Senders) /\ IsInjective(Append(queue[p], l))
       /\ \A s : s \in Range(Append(queue[p], l)) <=> s \in Range(queue[p]) \/ s = l
  BY <1>3, <1>9, AppendRange
<1>11. /\ queue' \in [Pages -> Seq(Senders)] /\ queue'[p] = Append(queue[p], l)
       /\ \A j \in Pages \ {p} : queue'[j] = queue[j]
  BY <1>5, <1>9, <1>10, Zenon
<1>12. \A s \in Senders : /\ InSlot(s)' <=> InSlot(s)
                          /\ InQueue(s)' <=> InQueue(s) \/ s = l
                          /\ Held(s)' <=> Held(s) /\ s # l
  <2>1. \A s \in Senders : Page(slotOf[s]) \in Pages /\ s # None
    BY HandleAssumption, Zenon DEF TypeOK, Pages, None
  <2>2. \A s \in Senders : InSlot(s)' <=> InSlot(s)
    BY <1>1, Zenon DEF InSlot
  <2>3. \A s \in Senders : InQueue(s)' <=> InQueue(s) \/ s = l
    BY <1>1, <1>3, <1>4, <1>10, <1>11, <2>1, Zenon DEF InQueue
  <2>4. \A s \in Senders : Held(s)' <=> Held(s) /\ s # l
    BY <1>2, <1>3, <1>6, <1>8, <2>1, ZenonT(30) DEF Held, Moves
  <2> QED
    BY <2>2, <2>3, <2>4, Zenon
<1>13. \A s \in Senders : Present(s)' <=> Present(s)
  BY <1>3, <1>12, Zenon DEF Present
<1>14. TokenInv'
  <2>1. \A j \in Pages : IsInjective(queue'[j])
    BY <1>10, <1>11, ZenonT(30) DEF TokenInv
  <2>2. \A j \in Pages : \A s \in Range(queue'[j]) : Page(slotOf'[s]) = j
    BY <1>1, <1>4, <1>10, <1>11, ZenonT(30) DEF TokenInv
  <2>3. \A q, t \in Receivers : rx'[q].lane = rx'[t].lane /\ rx'[t].lane # None => q = t
    BY <1>6, <1>8, HoldersApart, ZenonT(30)
  <2> QED
    BY <1>1, <1>3, <1>12, <2>1, <2>2, <2>3, Zenon DEF TokenInv
<1>15. LanesShown'
  BY <1>1, Zenon DEF NothingHidden, LanesShown, LaneShown, Buffered, SenderAt
<1>16. PagesShown'
  BY <1>1, <1>8, PagesKept, Zenon DEF NothingHidden
<1>17. QueuesShown'
  <2> SUFFICES ASSUME NEW j \in Pages, queue'[j] # << >>, receiverAlive
               PROVE  \/ j \in workGroup
                      \/ \E q \in Receivers : rx'[q].pc \in {"mark", "claimed"} /\ rx'[q].page = j
    BY <1>1, Zenon DEF QueuesShown
  <2>1. CASE j = p
    BY <1>6, <1>8, <2>1, Zenon
  <2>2. CASE j # p
    <3>1. \/ j \in workGroup
          \/ \E q \in Receivers : rx[q].pc \in {"mark", "claimed"} /\ rx[q].page = j
      BY <1>11, <2>2, Zenon DEF NothingHidden, QueuesShown
    <3> QED
      BY <1>1, <1>8, <3>1, Zenon DEF Moves
  <2> QED
    BY <2>1, <2>2, Zenon
<1>18. /\ rx[r].pc \notin {"new", "reload", "dispose"} /\ f.pc \notin {"reload", "dispose"}
       /\ pageBits' \subseteq pageBits /\ workGroup' \subseteq Pages /\ pageBits' = pageBits
       /\ slots' \in [Slots -> Senders \union {None}]
  BY <1>1, <1>6, <1>9, Zenon
<1> QED
  BY <1>1, <1>5, <1>6, <1>7, <1>11, <1>13, <1>14, <1>15, <1>16, <1>17, <1>18, MoveInv, Zenon
=============================================================================
