----------------------------- MODULE MpscReceiver -----------------------------
(***************************************************************************)
(* The bookkeeping of the MPSC receiver (src/mpsc/receiver.rs and          *)
(* receiver/{lane,batch,lane_control,registry}.rs): the rotation of lanes, *)
(* the burst of each lane, the poll budget, the fast window, batched slot  *)
(* release, and the operations that change them: ordinary, fair, targeted, *)
(* bulk and scanning receives, pause, resume and close_lane.               *)
(*                                                                         *)
(* A ring is counted from the receiver's position: values not yet popped,  *)
(* how many of them are prefetched, and slots popped and not released, so  *)
(* traffic is unbounded.  A send is one step and so is a visit of the      *)
(* index (MpscChannel takes both apart); settling an empty lane is two,    *)
(* since a send between them is what Keep is about.  What a call does to   *)
(* the receiver alone goes with its next look at a ring: a scan queues the *)
(* lanes with its first chunk, and a filled batch releases with its last.  *)
(***************************************************************************)
EXTENDS Integers, Sequences, FiniteSets

CONSTANTS
  SlotCount,          \* lanes, numbered from 0
  LanesPerGroup,      \* lanes under one ready group
  Capacity,           \* the capacity of each lane's ring
  PrefetchLimit,      \* PREFETCH_LIMIT, the burst of a lane
  ReadyPollInterval,  \* READY_POLL_INTERVAL
  MinReleaseBatch,    \* MIN_RELEASE_BATCH
  WordSize,           \* values of a usize
  Unsignaled,         \* lanes whose sender also sends unsignaled
  Controlled,         \* lanes that are paused, resumed, closed and received from
  MaxLimit            \* bound on the limit of a bulk receive

Lanes == 0 .. (SlotCount - 1)
GroupCount == SlotCount \div LanesPerGroup
Group(l) == l \div LanesPerGroup

ASSUME SlotAssumption ==
  /\ LanesPerGroup \in Nat \ {0}
  /\ SlotCount \in Nat \ {0} /\ SlotCount % LanesPerGroup = 0
ASSUME LimitAssumption ==
  /\ Capacity \in [Lanes -> Nat \ {0}] /\ PrefetchLimit \in Nat \ {0}
  /\ ReadyPollInterval \in Nat \ {0} /\ MinReleaseBatch \in Nat \ {0}
  /\ MaxLimit \in Nat /\ Unsignaled \subseteq Lanes /\ Controlled \subseteq Lanes
  /\ WordSize \in Nat /\ WordSize > ReadyPollInterval

VARIABLES
  ring,       \* per lane: unread, of these prefetched, and popped but unreleased
  sending,    \* lanes whose sender is alive
  pending,    \* lanes whose LaneSignal is PENDING
  ready,      \* lanes in the ready index
  counters,   \* the counters of each Lane
  lanes,      \* lanes that are not retired
  active,     \* Receiver.active
  queued,     \* lanes flagged queued
  paused,     \* Receiver.paused
  budget,     \* Receiver.items_until_ready_poll
  fastSlot,   \* Receiver.fast_slot
  cursor,     \* Receiver.ready_group_cursor, brought into range
  rpc, op,    \* where the receiver is, and in which call
  key,        \* the lane it is settling
  left, some, \* values a bulk receive may still take; whether it took any
  unseen      \* lanes a scan has not yet observed empty

rotationVars == <<active, queued, paused, lanes>>
callVars == <<op, key, left, some, unseen>>
vars == <<ring, sending, pending, ready, counters, rotationVars, budget, fastSlot, cursor,
          rpc, callVars>>

None == "none"
Smaller(i, j) == IF i < j THEN i ELSE j
Larger(i, j) == IF i < j THEN j ELSE i

\* Lane::new: half a ring, at least the minimum, at most a ring.
ReleaseBatch(l) ==
  Smaller(Larger((Capacity[l] + 1) \div 2, MinReleaseBatch), Capacity[l])
NewLane(l) ==
  [cachedAvailable |-> 0, unreleased |-> 0, releaseBatch |-> ReleaseBatch(l), burst |-> 0,
   fastLeft |-> 0]
EmptyRing == [unread |-> 0, loaded |-> 0, consumed |-> 0]

Init ==
  /\ ring = [l \in Lanes |-> EmptyRing]
  /\ sending = Lanes
  /\ pending = {} /\ ready = {}
  /\ counters = [l \in Lanes |-> NewLane(l)]
  /\ lanes = Lanes /\ active = << >> /\ queued = {} /\ paused = {}
  /\ budget = ReadyPollInterval /\ fastSlot = 0 /\ cursor = 0
  /\ rpc = "idle" /\ op = None /\ key = 0 /\ left = 0
  /\ some = FALSE /\ unseen = {}

-----------------------------------------------------------------------------
(* Senders. *)

HasRoom(l) == ring[l].unread + ring[l].consumed < Capacity[l]

\* A signalled send into an open lane: publish, and index the lane if it is IDLE.
Mark(l) ==
  /\ pending' = pending \union {l}
  /\ ready' = IF l \in pending THEN ready ELSE ready \union {l}

Publish(l) ==
  /\ l \in sending /\ l \in lanes /\ HasRoom(l)
  /\ ring' = [ring EXCEPT ![l].unread = @ + 1]

Send(l) ==
  /\ Publish(l) /\ Mark(l)
  /\ UNCHANGED <<sending, counters, rotationVars, budget, fastSlot, cursor, rpc, callVars>>

SendUnsignaled(l) ==
  /\ Publish(l)
  /\ UNCHANGED <<sending, pending, ready, counters, rotationVars, budget, fastSlot, cursor,
                 rpc, callVars>>

SenderDrop(l) ==
  /\ l \in sending
  /\ sending' = sending \ {l}
  /\ Mark(l)
  /\ UNCHANGED <<ring, counters, rotationVars, budget, fastSlot, cursor, rpc, callVars>>

-----------------------------------------------------------------------------
(* The lane: functions on its ring and on its counters. *)

Popped(k, n) == [k EXCEPT !.unread = @ - n, !.loaded = @ - n, !.consumed = @ + n]
Released(k) == [k EXCEPT !.consumed = 0]
Prefetched(k) == [k EXCEPT !.loaded = k.unread]

CloseFastForgotten(c) == [c EXCEPT !.unreleased = @ - c.fastLeft, !.burst = @ - c.fastLeft,
                                   !.fastLeft = 0]
CloseFast(c) ==
  [c EXCEPT !.cachedAvailable = @ + c.fastLeft, !.unreleased = @ - c.fastLeft,
            !.burst = @ - c.fastLeft, !.fastLeft = 0]

\* The window is reloaded once it is used up; prefetch returns what is new.
Loads(c) == c.cachedAvailable = 0
LoadedRing(c, k) == IF Loads(c) THEN Prefetched(k) ELSE k
LoadedCounters(c, k) ==
  IF Loads(c) THEN [c EXCEPT !.cachedAvailable = k.unread - k.loaded] ELSE c

Granted(c, pollBudget) ==
  Smaller(Smaller(c.cachedAvailable, Larger(c.releaseBatch - (c.unreleased + 1), 0)),
          Smaller(Larger(PrefetchLimit - (c.burst + 1), 0), pollBudget))

\* grant_fast after the reload: the window's values are charged up front.
GrantFast(c, pollBudget) ==
  LET n == Granted(c, pollBudget)
  IN  [c EXCEPT !.cachedAvailable = @ - n, !.unreleased = @ + n, !.burst = @ + n,
                !.fastLeft = n]

\* The bookkeeping of n values popped outside a fast window; a complete batch
\* is released.
Charged(c, n, burst) ==
  [c EXCEPT !.cachedAvailable = @ - n, !.burst = burst,
            !.unreleased = IF @ + n = c.releaseBatch THEN 0 ELSE @ + n]
AfterCharge(c, k, n) ==
  IF c.unreleased + n = c.releaseBatch THEN Released(Popped(k, n)) ELSE Popped(k, n)

\* Lane::release_pending.
ReleasedCounters(c) == [CloseFast(c) EXCEPT !.unreleased = 0]
ReleasedRing(c, k) == IF CloseFast(c).unreleased = 0 THEN k ELSE Released(k)

-----------------------------------------------------------------------------
(* The rotation. *)

rotation == [active |-> active, queued |-> queued, ready |-> ready, cursor |-> cursor]

\* Groups are visited from the cursor on, lanes of a group in order.
StartGroup == cursor
VisitOrder == [i \in 1 .. SlotCount |-> (StartGroup * LanesPerGroup + i - 1) % SlotCount]
VisitedAt(g) == (g - StartGroup) % GroupCount
ReadyGroups == {Group(l) : l \in ready}
FirstReady == CHOOSE g \in ReadyGroups : \A h \in ReadyGroups : VisitedAt(g) <= VisitedAt(h)
LastReady == CHOOSE g \in ReadyGroups : \A h \in ReadyGroups : VisitedAt(h) <= VisitedAt(g)

\* collect_ready: every group, or up to the first that has a page marked.  r is
\* the rotation it adds to.
Collected(r, all) ==
  IF ready = {} THEN r
  ELSE LET taken == IF all THEN ready ELSE {l \in ready : Group(l) = FirstReady}
           Joins(l) == l \in taken /\ l \in lanes /\ l \notin paused
                         /\ l \in pending /\ l \notin r.queued
       IN  [active |-> r.active \o SelectSeq(VisitOrder, Joins),
            queued |-> r.queued \union {l \in taken : Joins(l)},
            ready  |-> ready \ taken,
            cursor |-> ((IF all THEN LastReady ELSE FirstReady) + 1) % GroupCount]

\* refresh_active: collect when the rotation is empty or the poll is due.
NeverPoll(r) == FALSE
PollDue(r) == r.active # << >> /\ budget = 0
Refreshed(r) ==
  IF r.active = << >> THEN Collected(r, TRUE) ELSE IF PollDue(r) THEN Collected(r, FALSE) ELSE r
RefreshedBudget(r) == IF PollDue(r) THEN ReadyPollInterval ELSE budget
Rotate(r) == active' = r.active /\ queued' = r.queued /\ ready' = r.ready /\ cursor' = r.cursor

\* items_until_ready_poll -= n, on a usize.
Spent(b, n) == (b - n) % WordSize

Without(seq, l) == SelectSeq(seq, LAMBDA m : m # l)

\* The Lane of a retired slot is dropped.
ClearLane(l) ==
  /\ lanes' = lanes \ {l} /\ paused' = paused \ {l}
  /\ ring' = [ring EXCEPT ![l] = EmptyRing]
  /\ counters' = [counters EXCEPT ![l] = NewLane(l)]

-----------------------------------------------------------------------------
(* Single-value receives. *)

\* A value is returned, or is the first of a blocking batch.
Return(l) ==
  IF op = "batchRecv"
  THEN op' = "batch" /\ some' = TRUE /\ left' = left - 1 /\ rpc' = "drain"
  ELSE op' = None /\ rpc' = "idle" /\ UNCHANGED <<some, left>>

Attempting == rpc = "idle" \/ rpc = "attempt"
FastOpen == fastSlot \in lanes /\ counters[fastSlot].fastLeft > 0

\* try_recv_output with an open fast window.
RecvFast ==
  /\ Attempting /\ FastOpen
  /\ counters' = [counters EXCEPT ![fastSlot].fastLeft = @ - 1]
  /\ ring' = [ring EXCEPT ![fastSlot] = Popped(@, 1)]
  /\ budget' = Spent(budget, 1)
  /\ Return(fastSlot)
  /\ UNCHANGED <<sending, pending, ready, rotationVars, fastSlot, cursor, key, unseen>>

\* try_recv_refill: a due poll, then a window on the front lane; without one
\* the full path.
RecvRefill ==
  /\ Attempting /\ ~FastOpen
  /\ LET r == IF PollDue(rotation) THEN Collected(rotation, FALSE) ELSE rotation
         l == Head(r.active)
         k == LoadedRing(CloseFast(counters[l]), ring[l])
         grant == RefreshedBudget(rotation)
         c == GrantFast(LoadedCounters(CloseFast(counters[l]), ring[l]), grant)
     IN  /\ Rotate(r)
         /\ IF r.active # << >> /\ c.fastLeft > 0
            THEN /\ counters' = [counters EXCEPT ![l] = [c EXCEPT !.fastLeft = @ - 1]]
                 /\ ring' = [ring EXCEPT ![l] = Popped(k, 1)]
                 /\ budget' = Spent(grant, 1)
                 /\ fastSlot' = l
                 /\ Return(l)
            ELSE /\ counters' = IF r.active = << >> THEN counters ELSE [counters EXCEPT ![l] = c]
                 /\ ring' = IF r.active = << >> THEN ring ELSE [ring EXCEPT ![l] = k]
                 /\ budget' = grant
                 /\ op' = IF op = None THEN "recv" ELSE op
                 /\ rpc' = "inner"
                 /\ UNCHANGED <<fastSlot, some, left>>
  /\ UNCHANGED <<sending, pending, paused, lanes, key, unseen>>

\* Lane::pop_fair: the window of the last fair receive, or a new one.
FairCounters(c, k) ==
  IF c.fastLeft > 0 THEN c
  ELSE GrantFast(LoadedCounters([c EXCEPT !.burst = 0], k), ReadyPollInterval)
FairRing(c, k) == IF c.fastLeft > 0 THEN k ELSE LoadedRing(c, k)

\* try_recv_fair: a lone lane keeps its window.
RecvFair ==
  /\ rpc = "idle"
  /\ LET r == IF ready # {} THEN Collected(rotation, TRUE) ELSE rotation
         l == Head(r.active)
         k == FairRing(counters[l], ring[l])
         c == FairCounters(counters[l], ring[l])
         alone == Len(r.active) = 1
     IN  /\ Rotate(r)
         /\ IF alone /\ c.fastLeft > 0
            THEN /\ counters' = [counters EXCEPT ![l] = [c EXCEPT !.fastLeft = @ - 1,
                                                                  !.burst = c.fastLeft - 1]]
                 /\ ring' = [ring EXCEPT ![l] = Popped(k, 1)]
                 /\ budget' = Spent(ReadyPollInterval, 1)
                 /\ fastSlot' = l
                 /\ Return(l)
            ELSE /\ counters' = IF alone THEN [counters EXCEPT ![l] = c] ELSE counters
                 /\ ring' = IF alone THEN [ring EXCEPT ![l] = k] ELSE ring
                 /\ budget' = ReadyPollInterval
                 /\ rpc' = "inner" /\ op' = "fair"
                 /\ UNCHANGED <<fastSlot, some, left>>
  /\ UNCHANGED <<sending, pending, paused, lanes, key, unseen>>

\* What a poll or a targeted receive of a lane finds (Lane::refill).
RefilledRing(l) == LoadedRing(CloseFast(counters[l]), ring[l])
RefilledCounters(l) == LoadedCounters(CloseFast(counters[l]), ring[l])

\* The full path (try_recv_inner): recv takes it at once, and so does the recheck of
\* a blocked one; the others come to it without a fast window.
FullPath == rpc \in {"idle", "attempt", "inner"}

\* Lane::poll takes a value; the lane keeps its turn until its burst is full.
PollItem ==
  /\ FullPath
  /\ LET r == Refreshed(rotation)
         l == Head(r.active)
         c == RefilledCounters(l)
         rotate == op = "fair" \/ c.burst + 1 = PrefetchLimit
     IN  /\ r.active # << >> /\ c.cachedAvailable > 0
         /\ ring' = [ring EXCEPT ![l] = AfterCharge(c, RefilledRing(l), 1)]
         /\ counters' = [counters EXCEPT ![l] = Charged(c, 1, IF rotate THEN 0 ELSE c.burst + 1)]
         /\ Return(l)
         /\ Rotate(IF rotate THEN [r EXCEPT !.active = Append(Tail(@), l)] ELSE r)
  /\ budget' = Spent(RefreshedBudget(rotation), 1)
  /\ UNCHANGED <<sending, pending, paused, lanes, fastSlot, key, unseen>>

\* The front lane is empty: settle_empty releases its credit and sets it IDLE ...
SettleFront(rot) ==
  /\ LET r == Refreshed(rot)
         l == Head(r.active)
         c == RefilledCounters(l)
     IN  /\ r.active # << >> /\ c.cachedAvailable = 0
         /\ key' = l
         /\ ring' = [ring EXCEPT ![l] = ReleasedRing(c, RefilledRing(l))]
         /\ counters' = [counters EXCEPT ![l] = ReleasedCounters(c)]
         /\ pending' = pending \ {l}
         /\ Rotate([r EXCEPT !.active = Tail(@)])
  /\ budget' = RefreshedBudget(rot)
  /\ rpc' = "settle"
  /\ UNCHANGED <<sending, paused, lanes, fastSlot>>
PollSettle ==
  /\ FullPath /\ SettleFront(rotation)
  /\ op' = IF op = None THEN "recv" ELSE op
  /\ UNCHANGED <<left, some, unseen>>

\* ... and looks again: the lane goes to the back, or leaves, or is retired.
Settle ==
  /\ rpc = "settle"
  /\ rpc' = IF op \in {"recv", "fair", "batchRecv"} THEN "inner" ELSE "drain"
  /\ IF ring[key].unread > 0
     THEN /\ ring' = [ring EXCEPT ![key] = Prefetched(@)]
          /\ counters' = [counters EXCEPT ![key].cachedAvailable = ring[key].unread - ring[key].loaded,
                                          ![key].burst = 0]
          /\ pending' = pending \union {key}
          /\ active' = Append(active, key)
          /\ UNCHANGED <<queued, lanes, paused, unseen>>
     ELSE /\ queued' = queued \ {key} /\ unseen' = unseen \ {key}
          /\ IF key \in sending
             THEN /\ counters' = [counters EXCEPT ![key].burst = 0]
                  /\ UNCHANGED <<ring, lanes, paused>>
             ELSE ClearLane(key)
          /\ UNCHANGED <<pending, active>>
  /\ key' = 0
  /\ UNCHANGED <<sending, ready, budget, fastSlot, cursor, op, left, some>>

\* is_drained: with the last sender gone, paused lanes that are empty are
\* retired.  ks and cs are the rings and counters it starts from.
Drained == sending = {}
Reloaded(l) == Drained /\ l \in paused
DrainedRing(ks, cs) ==
  [l \in Lanes |-> IF Reloaded(l) THEN LoadedRing(CloseFast(cs[l]), ks[l]) ELSE ks[l]]
DrainedCounters(ks, cs) ==
  [l \in Lanes |-> IF Reloaded(l) THEN LoadedCounters(CloseFast(cs[l]), ks[l]) ELSE cs[l]]
EmptyWindow(ks, cs) == {l \in paused : Drained /\ cs[l].cachedAvailable + cs[l].fastLeft = 0}
EmptyPaused(ks, cs) ==
  {l \in paused : Reloaded(l) /\ DrainedCounters(ks, cs)[l].cachedAvailable = 0}
CheckDrained(ks, cs) ==
  /\ ring' = DrainedRing(ks, cs) /\ counters' = DrainedCounters(ks, cs)
  /\ lanes' = lanes \ EmptyPaused(ks, cs) /\ paused' = paused \ EmptyPaused(ks, cs)

\* The full path finds no lane: Empty or Disconnected.  A blocking batch goes
\* on attempting unless it is disconnected.
PollEmpty ==
  /\ FullPath /\ Refreshed(rotation).active = << >>
  /\ Rotate(Refreshed(rotation))
  /\ CheckDrained(ring, counters)
  /\ IF op = "batchRecv"
     THEN /\ rpc' = IF Drained /\ lanes' = {} THEN "drained" ELSE "attempt"
          /\ UNCHANGED op
     ELSE rpc' = "idle" /\ op' = None
  /\ UNCHANGED <<sending, pending, budget, fastSlot, key, left, some, unseen>>

-----------------------------------------------------------------------------
(* Bulk receives. *)

\* The lanes poll_all_lanes adds, in slot order.
ScannedPending(l) == l \in (lanes \intersect pending) \ (paused \union queued)
Scanned(l) == l \in lanes \ (paused \union queued)
QueuedAll ==
  [rotation EXCEPT !.active = @ \o SelectSeq([i \in 1 .. SlotCount |-> i - 1], Scanned),
                   !.queued = @ \union {l \in Lanes : Scanned(l)}]

PollAllLanes ==
  /\ rpc = "idle"
  /\ Rotate(QueuedAll)
  /\ UNCHANGED <<ring, sending, pending, counters, paused, lanes, budget, fastSlot, rpc, callVars>>

\* release_consumed.
AllReleasedRing(ks, cs) == [l \in Lanes |-> ReleasedRing(cs[l], ks[l])]
AllReleasedCounters(cs) == [l \in Lanes |-> ReleasedCounters(cs[l])]
EndBatch == rpc' = "idle" /\ op' = None /\ left' = 0 /\ some' = FALSE /\ unseen' = {}

\* Lane::chunk_limit, and what the rest of the limit and of the budget allow.
ChunkLimit(c) ==
  Smaller(c.cachedAvailable, Smaller(PrefetchLimit - c.burst, c.releaseBatch - c.unreleased))
Take(c, rest, grant) == Smaller(Smaller(rest, grant), ChunkLimit(c))

\* The loop of drain_into, in the bulk receive o of up to n more values with the
\* rotation rot and the lanes u unseen.  One chunk of the front lane: a predicate may
\* accept only a part of it, which ends the batch.
DrainChunk(o, n, rot, u) ==
  /\ n > 0
  /\ LET r == Refreshed(rot)
         l == Head(r.active)
         c == RefilledCounters(l)
         take == Take(c, n, RefreshedBudget(rot))
         full(moved) == c.burst + moved = PrefetchLimit
         ks(moved) == [ring EXCEPT ![l] = AfterCharge(c, RefilledRing(l), moved)]
         cs(moved) == [counters EXCEPT ![l] =
                         Charged(c, moved, IF full(moved) THEN 0 ELSE c.burst + moved)]
     IN  /\ r.active # << >> /\ c.cachedAvailable > 0
         /\ \E moved \in 0 .. take :
              /\ moved = take \/ o \in {"while", "scan"}
              /\ Rotate(IF full(moved) THEN [r EXCEPT !.active = Append(Tail(@), l)] ELSE r)
              /\ budget' = Spent(RefreshedBudget(rot), moved)
              /\ IF moved < take \/ moved = n
                 THEN /\ ring' = AllReleasedRing(ks(moved), cs(moved))
                      /\ counters' = AllReleasedCounters(cs(moved))
                      /\ EndBatch
                 ELSE /\ ring' = ks(moved) /\ counters' = cs(moved)
                      /\ rpc' = "drain" /\ op' = o /\ left' = n - moved /\ some' = TRUE
                      /\ unseen' = u
  /\ UNCHANGED <<sending, pending, paused, lanes, fastSlot, key>>

DrainSettle(o, n, rot, u) ==
  /\ n > 0 /\ SettleFront(rot)
  /\ op' = o /\ left' = n /\ unseen' = u
  /\ UNCHANGED some

\* The limit is reached or nothing is ready; a blocking batch without a value
\* waits for one.
DrainEnd(o, n, rot, u) ==
  /\ IF n = 0
     THEN /\ ring' = AllReleasedRing(ring, counters) /\ counters' = AllReleasedCounters(counters)
          /\ EndBatch
          /\ UNCHANGED <<active, queued, ready, cursor>>
     ELSE /\ Refreshed(rot).active = << >> /\ Rotate(Refreshed(rot))
          /\ IF o = "batch" /\ ~some THEN rpc' = "inner" /\ op' = "batchRecv"
             ELSE rpc' = "drained" /\ op' = o
          /\ left' = n /\ unseen' = u
          /\ UNCHANGED <<ring, counters, some>>
  /\ UNCHANGED <<sending, pending, paused, lanes, budget, fastSlot, key>>

\* release_consumed, and an empty batch tells Empty from Disconnected.
Finish ==
  /\ rpc = "drained"
  /\ EndBatch
  /\ LET ks == AllReleasedRing(ring, counters)
         cs == AllReleasedCounters(counters)
     IN  IF ~some /\ op \in {"while", "scan"} THEN CheckDrained(ks, cs)
         ELSE ring' = ks /\ counters' = cs /\ UNCHANGED <<lanes, paused>>
  /\ UNCHANGED <<sending, pending, ready, active, queued, budget, fastSlot, cursor, key>>

ReleaseConsumed ==
  /\ rpc = "idle"
  /\ ring' = AllReleasedRing(ring, counters) /\ counters' = AllReleasedCounters(counters)
  /\ UNCHANGED <<sending, pending, ready, rotationVars, budget, fastSlot, cursor, rpc, callVars>>

-----------------------------------------------------------------------------
(* Lane control. *)

\* pop_targeted, and the lane joins the rotation if it may.
TakeRequeued(l, c, k) ==
  /\ ring' = [ring EXCEPT ![l] = AfterCharge(c, k, 1)]
  /\ counters' = [counters EXCEPT ![l] = Charged(c, 1, c.burst)]
  /\ IF l \in paused THEN UNCHANGED <<pending, ready, active, queued>>
     ELSE Mark(l) /\ active' = Append(active, l) /\ queued' = queued \union {l}
  /\ rpc' = "idle"
TakeTargeted(l, c, k) ==
  /\ ring' = [ring EXCEPT ![l] = AfterCharge(c, k, 1)]
  /\ counters' = [counters EXCEPT ![l] = Charged(c, 1, c.burst)]
  /\ IF l \in paused \union queued
     THEN UNCHANGED <<pending, ready, active, queued>>
     ELSE Mark(l) /\ active' = Append(active, l) /\ queued' = queued \union {l}
  /\ rpc' = "idle"

TryRecvFrom(l) ==
  /\ rpc = "idle" /\ l \in lanes
  /\ LET k == RefilledRing(l)
         c == RefilledCounters(l)
     IN  IF c.cachedAvailable > 0
         THEN TakeTargeted(l, c, k) /\ UNCHANGED key
         ELSE /\ ring' = [ring EXCEPT ![l] = ReleasedRing(c, k)]
              /\ counters' = [counters EXCEPT ![l] = ReleasedCounters(c)]
              /\ pending' = pending \ {l}
              /\ key' = l /\ rpc' = "settleFrom"
              /\ UNCHANGED <<ready, active, queued>>
  /\ UNCHANGED <<sending, paused, lanes, budget, fastSlot, cursor, op, left, some, unseen>>

\* The second half of settle_empty under try_recv_from.
SettleFrom ==
  /\ rpc = "settleFrom"
  /\ LET c == [counters[key] EXCEPT !.cachedAvailable = ring[key].unread - ring[key].loaded,
                                    !.burst = 0]
     IN  IF ring[key].unread > 0
         THEN /\ ring' = [ring EXCEPT ![key] = AfterCharge(c, Prefetched(@), 1)]
              /\ counters' = [counters EXCEPT ![key] = Charged(c, 1, 0)]
              /\ pending' = pending \union {key}
              /\ IF key \in paused \union queued THEN UNCHANGED <<active, queued>>
                 ELSE active' = Append(active, key) /\ queued' = queued \union {key}
              /\ UNCHANGED <<paused, lanes>>
         ELSE /\ queued' = queued \ {key} /\ active' = Without(active, key)
              /\ IF key \in sending
                 THEN /\ counters' = [counters EXCEPT ![key] = c]
                      /\ UNCHANGED <<ring, paused, lanes>>
                 ELSE ClearLane(key)
              /\ UNCHANGED pending
  /\ rpc' = "idle" /\ key' = 0
  /\ UNCHANGED <<sending, ready, budget, fastSlot, cursor, op, left, some, unseen>>

Pause(l) ==
  /\ rpc = "idle" /\ l \in lanes
  /\ ring' = [ring EXCEPT ![l] = ReleasedRing(counters[l], @)]
  /\ counters' = [counters EXCEPT ![l] = ReleasedCounters(@)]
  /\ queued' = queued \ {l} /\ paused' = paused \union {l} /\ active' = Without(active, l)
  /\ UNCHANGED <<sending, pending, ready, lanes, budget, fastSlot, cursor, rpc, callVars>>

ResumeUnqueued(l) ==
  /\ rpc = "idle" /\ l \in paused
  /\ paused' = paused \ {l}
  /\ Mark(l)
  /\ UNCHANGED <<ring, sending, counters, active, queued, lanes, budget, fastSlot, cursor, rpc,
                 callVars>>
Resume(l) ==
  /\ rpc = "idle" /\ l \in paused
  /\ paused' = paused \ {l} /\ queued' = queued \union {l} /\ active' = Append(active, l)
  /\ Mark(l)
  /\ UNCHANGED <<ring, sending, counters, lanes, budget, fastSlot, cursor, rpc, callVars>>

CloseLane(l) ==
  /\ rpc = "idle" /\ l \in lanes
  /\ active' = Without(active, l) /\ queued' = queued \ {l}
  /\ ClearLane(l)
  /\ UNCHANGED <<sending, pending, ready, budget, fastSlot, cursor, rpc, callVars>>

-----------------------------------------------------------------------------

Senders ==
  \/ \E l \in Lanes : Send(l) \/ SenderDrop(l)
  \/ \E l \in Unsignaled : SendUnsignaled(l)
SingleReceive ==
  RecvFast \/ RecvRefill \/ RecvFair \/ PollItem \/ PollSettle \/ Settle \/ PollEmpty

\* The first or a later turn of the loop of a bulk receive.
Drain(o, n, rot, u) == DrainChunk(o, n, rot, u) \/ DrainSettle(o, n, rot, u) \/ DrainEnd(o, n, rot, u)
BulkReceive ==
  \/ rpc = "idle" /\ \E n \in 1 .. MaxLimit :
       \/ \E o \in {"batch", "while"} : Drain(o, n, rotation, {})
       \/ Drain("scan", n, QueuedAll, lanes \ paused)
  \/ rpc = "drain" /\ Drain(op, left, rotation, unseen)
  \/ Finish
LaneControl ==
  \/ \E l \in Controlled : TryRecvFrom(l) \/ Pause(l) \/ Resume(l) \/ CloseLane(l)
  \/ SettleFrom

Next ==
  Senders \/ SingleReceive \/ BulkReceive \/ PollAllLanes \/ ReleaseConsumed \/ LaneControl

Spec == Init /\ [][Next]_vars

\* A receiver that makes ordinary and fair receives, again and again: it always
\* has a step to take, so that weak fairness of its steps is to take them for ever.
SchedulingSpec == Init /\ [][Senders \/ SingleReceive]_vars /\ []<><<SingleReceive>>_vars

-----------------------------------------------------------------------------
(* Properties. *)

\* "The counters above already include them": cached_available and unreleased
\* with the open window refunded are what the ring holds, and both limits are
\* ahead, so that a chunk or a poll always has room to take a value.  "Only that
\* lane can hold one" and "The window fits in the poll budget": an open window is
\* the front lane's, and its values are within the budget.
CountersExact ==
  \A l \in lanes :
    LET c == counters[l] IN
    /\ c.cachedAvailable + c.fastLeft = ring[l].loaded
    /\ c.unreleased = ring[l].consumed + c.fastLeft
    /\ c.fastLeft <= c.burst /\ c.burst < PrefetchLimit
    /\ c.unreleased < c.releaseBatch
    /\ c.fastLeft > 0 =>
         /\ l = fastSlot /\ c.fastLeft <= budget
         /\ active # << >> /\ (rpc \in {"idle", "attempt"} => Head(active) = l)

\* Lanes in rotation: each once, flagged, never paused and never a retired one,
\* so that no poll finds a stale key.
Settling == rpc = "settle"
RotationExact ==
  /\ Len(active) = Cardinality({active[i] : i \in DOMAIN active})
  /\ queued = {active[i] : i \in DOMAIN active} \union (IF Settling THEN {key} ELSE {})
  /\ queued \subseteq lanes \ paused

\* A lane whose signal is PENDING swallows the signals of later sends, so
\* unless it is paused it is in the rotation or the index leads to it, whatever
\* pauses, resumes, scans and targeted receives came in between.
NothingHidden ==
  \A l \in (lanes \intersect pending) \ paused :
    l \in queued \/ l \in ready

\* "when fewer than `limit` values are appended and `admit` rejected none, every
\* unpaused lane registered when the call started was observed empty".
ScanComplete == (rpc = "drained" /\ op = "scan" /\ left > 0) => unseen = {}

\* "Buffered values precede disconnect": other than by close_lane, a lane is
\* retired only after its sender is gone and its last value is received, paused
\* or not.
RetiredWhenDone ==
  [][\A l \in lanes \ lanes' : rpc = "idle" \/ (l \notin sending /\ ring[l].unread = 0)]_vars

\* "Ordinary receives serve bounded bursts, polling new readiness between
\* bursts": the next poll is at most an interval away.
PollBound == budget <= ReadyPollInterval

\* "Registry readiness ... rotate to keep busy lanes from hiding other ready work":
\* a signalled lane gets its turn at the front, however busy the others are.
Signalled(l) == l \in pending \intersect lanes
Served == \A l \in Lanes : Signalled(l) ~> (~Signalled(l) \/ (active # << >> /\ Head(active) = l))
=============================================================================
