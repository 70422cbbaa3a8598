----------------------------- MODULE MpmcChannel -----------------------------
(***************************************************************************)
(* The MPMC channel (src/mpmc.rs and src/mpmc): senders and receivers that *)
(* come and go.  Each lane has one token, which is in its registry slot, in*)
(* the queue of its page, or with one receiver; the values a receiver      *)
(* drains beyond the one it returns are staged, where other receivers may  *)
(* steal them.                                                             *)
(*                                                                         *)
(* An access to a shared word and a critical section are a step of their   *)
(* own, except that these are one step: a send's check of receiver_alive   *)
(* and its push; a look at a group or queue and the begin of a publication *)
(* after it; the two looks of has_ready_lane; the swap of a page and the   *)
(* selection; the re-mark and the pop of pop_after_claim; the prefetch,    *)
(* pops and release of a drain; the second prefetch and the claim; a       *)
(* notify_change and the registry update before it.                        *)
(*                                                                         *)
(* A lane is known by the sender that registered it, since slots are       *)
(* reused.  Values are counted (their order between receivers is not       *)
(* promised).  The publication generation is kept as the set of receivers  *)
(* whose snapshot is current, and so is the notification generation of the *)
(* wait cell.  There is one ready group and one work group, with all pages *)
(* in place; the cursors of a receiver, which only say where a search      *)
(* starts, are left open.  A timed receive is a receive that wakes early.  *)
(***************************************************************************)
EXTENDS Naturals, Sequences, FiniteSetsExt, Functions

CONSTANTS
  Senders, Receivers,   \* identities, each used for one handle
  Setups,               \* the channels built, and how they are used
  SlotCount,            \* registry slots, numbered from 0
  LanesPerPage,         \* LANES_PER_PAGE
  PrefetchLimit,        \* PREFETCH_LIMIT
  StealLimit,           \* STEAL_BATCH_LIMIT
  Retries               \* TRY_RECV_RETRIES

\* A setup: the slots of each ring; the senders registered at the start, with
\* their lanes' slots; how many receivers there are, the first and its clones;
\* the handles that may be made later; the receives used, "try" for try_recv and
\* "recv" for recv; and a bound on what each sender sends.
IsSetup(u) ==
  /\ u.cap \in Nat \ {0} /\ u.calls \subseteq {"try", "recv"} /\ u.sends \in [Senders -> Nat]
  /\ DOMAIN u.senders \subseteq Senders /\ u.later \subseteq Senders \union Receivers
  /\ u.senders \in [DOMAIN u.senders -> 0 .. (SlotCount - 1)] /\ IsInjective(u.senders)
  /\ Range(u.senders) = 0 .. (Cardinality(DOMAIN u.senders) - 1)
  /\ u.receivers \in 1 .. Cardinality(Receivers)

ASSUME HandleAssumption ==
  /\ IsFiniteSet(Senders) /\ IsFiniteSet(Receivers)
  /\ "none" \notin Senders \union Receivers
  /\ \A u \in Setups : IsSetup(u)
ASSUME LimitAssumption ==
  /\ SlotCount \in Nat \ {0} /\ LanesPerPage \in Nat \ {0}
  /\ PrefetchLimit \in Nat \ {0} /\ StealLimit \in Nat \ {0}
  /\ Retries \in Nat

Slots == 0 .. (SlotCount - 1)
Page(k) == k \div LanesPerPage
Pages == {Page(k) : k \in Slots}
None == "none"

VARIABLES
  ring,           \* per lane: unread values, of these prefetched, and popped but unreleased
  closed, shut,   \* lanes whose producer, whose consumer is closed
  pending,        \* lanes whose LaneSignal is PENDING
  pageBits,       \* the bits of the ready pages, as slots
  readyGroup,     \* the bits of the ready group, as pages
  workGroup,      \* the bits of the work group, as pages
  queue,          \* LanePage.lanes
  lock,           \* the receiver that holds the registry mutex
  slots, slotOf,  \* Slot.lane, and the slot of each lane
  free, fresh,    \* Registry.free, and slots never used
  queues,         \* Registry.work_queues, as receivers
  registered,     \* Shared.registered_lanes
  live, liveR,    \* Shared.live_senders, Shared.live_receivers
  receiverAlive,  \* Shared.receiver_alive
  private, local, \* values staged by each receiver
  orphaned,       \* values in Shared.orphaned_work
  publishing,     \* receivers with a Publication under way (in_flight counts them)
  stable,         \* searching receivers whose snapshot of the generation is current
  waiters,        \* receivers registered with data_waiters
  current,        \* of these, the ones not notified since they registered
  asleep,         \* receivers in the condition variable
  rx, sx,         \* what each receiver and each sender is doing
  left,           \* values each sender may still send
  setup           \* the setup, which never changes

ringVars == <<ring, closed, shut>>
readyVars == <<pending, pageBits, readyGroup>>
workVars == <<workGroup, queue>>
registryVars == <<slots, slotOf, free, fresh, registered>>
countVars == <<live, liveR, receiverAlive, queues>>
stagedVars == <<private, local, orphaned>>
trackerVars == <<publishing, stable>>
waitVars == <<waiters, current, asleep>>
senderVars == <<sx, left>>
vars == <<ringVars, readyVars, workVars, lock, registryVars, countVars, stagedVars, trackerVars,
          waitVars, rx, senderVars, setup>>

\* A receiver outside a call.  mode: the call, or where run is in it; round and
\* again count the two loops of try_recv; plan and rest are what its search has
\* left; released, wake and progressed are its Effects; then is where it goes on
\* after its publication.
Idle ==
  [pc |-> "idle", mode |-> None, round |-> 0, again |-> 0, plan |-> << >>, rest |-> {},
   page |-> 0, lane |-> None, peer |-> None, got |-> 0, hand |-> 0, released |-> None,
   wake |-> None, progressed |-> FALSE, result |-> None, then |-> None]
Unborn == [Idle EXCEPT !.pc = "new"]

\* build_channel, and the registrations and clones made before the others start.
Opened == DOMAIN setup.senders

Init ==
  /\ setup \in Setups
  /\ ring = [s \in Senders |-> [unread |-> 0, cached |-> 0, unreleased |-> 0]]
  /\ closed = {} /\ shut = {}
  /\ pending = {} /\ pageBits = {} /\ readyGroup = {}
  /\ workGroup = {} /\ queue = [p \in Pages |-> << >>]
  /\ lock = None
  /\ slotOf = [s \in Senders |-> IF s \in Opened THEN setup.senders[s] ELSE 0]
  /\ slots = [k \in Slots |-> IF k \in Range(setup.senders)
                              THEN CHOOSE s \in Opened : setup.senders[s] = k ELSE None]
  /\ free = << >> /\ fresh = Slots \ Range(setup.senders)
  /\ queues \in kSubset(setup.receivers, Receivers) /\ registered = Cardinality(Opened)
  /\ live = Cardinality(Opened) /\ liveR = setup.receivers /\ receiverAlive = TRUE
  /\ private = [r \in Receivers |-> 0] /\ local = [r \in Receivers |-> 0] /\ orphaned = 0
  /\ publishing = {} /\ stable = {}
  /\ waiters = {} /\ current = {} /\ asleep = {}
  /\ rx = [r \in Receivers |-> IF r \in queues THEN Idle ELSE Unborn]
  /\ sx = [s \in Senders |-> [pc |-> IF s \in Opened THEN "idle" ELSE "new",
                              dropping |-> FALSE, wake |-> None, notified |-> FALSE]]
  /\ left = setup.sends

-----------------------------------------------------------------------------
(* The wait cell of the receivers (MultiWaitCell). *)

\* notify_one and notify_all advance the generation, and return if nobody is
\* registered; then, under the mutex, they signal the condition variable.
Advance == current' = {} /\ UNCHANGED <<waiters, asleep>>
Signal(wake) ==
  /\ asleep' \in IF wake = "all" \/ asleep = {} THEN {{}} ELSE {asleep \ {w} : w \in asleep}
  /\ UNCHANGED <<waiters, current>>

\* Registrations end with finish or drop.
Unregister(r) == waiters' = waiters \ {r} /\ current' = current \ {r} /\ UNCHANGED asleep

-----------------------------------------------------------------------------
(* Senders. *)

HasRoom(s) == ring[s].unread + ring[s].unreleased < setup.cap
SenderAt(s, label) == sx[s].pc = label
SenderTo(s, label) == sx' = [sx EXCEPT ![s].pc = label]

\* register_sender, for a sender that another one creates: under the registry lock
\* it takes the last freed slot, or a new one.
Register(s) ==
  /\ SenderAt(s, "new") /\ s \in setup.later /\ receiverAlive /\ lock = None
  /\ \E by \in Senders : SenderAt(by, "idle")
  /\ \E k \in IF free # << >> THEN {free[Len(free)]} ELSE {k \in fresh : \A j \in fresh : k <= j} :
       /\ free' = IF free # << >> THEN SubSeq(free, 1, Len(free) - 1) ELSE free
       /\ fresh' = fresh \ {k}
       /\ slots' = [slots EXCEPT ![k] = s]
       /\ slotOf' = [slotOf EXCEPT ![s] = k]
  /\ registered' = registered + 1 /\ live' = live + 1
  /\ SenderTo(s, "idle")
  /\ UNCHANGED <<ringVars, readyVars, workVars, lock, liveR, receiverAlive, queues, stagedVars,
                 trackerVars, waitVars, rx, left, setup>>

senderStepUnchanged == <<workVars, lock, registryVars, stagedVars, trackerVars, rx, setup>>

\* try_send_inner pushes, or finds the ring full; send then registers for space.
Push(s) ==
  /\ left[s] > 0 /\ receiverAlive /\ HasRoom(s)
  /\ ring' = [ring EXCEPT ![s].unread = @ + 1]
  /\ left' = [left EXCEPT ![s] = @ - 1]
  /\ UNCHANGED <<closed, shut>>

Send(s) ==
  /\ SenderAt(s, "idle") \/ SenderAt(s, "recheck")
  /\ Push(s)
  /\ sx' = [sx EXCEPT ![s].pc = "lane", ![s].notified = FALSE]
  /\ UNCHANGED <<readyVars, countVars, waitVars, senderStepUnchanged>>

SendFull(s) ==
  /\ SenderAt(s, "idle") /\ left[s] > 0 /\ receiverAlive /\ ~HasRoom(s)
  /\ SenderTo(s, "recheck")
  /\ UNCHANGED <<left, ringVars, readyVars, countVars, waitVars, senderStepUnchanged>>

\* The attempt made while registered fails: park, or give up if disconnected.
Park(s) ==
  /\ SenderAt(s, "recheck") /\ ~(receiverAlive /\ HasRoom(s))
  /\ IF receiverAlive /\ s \notin shut THEN SenderTo(s, "parked")
     ELSE sx' = [sx EXCEPT ![s].pc = "idle", ![s].notified = FALSE]
  /\ UNCHANGED <<left, ringVars, readyVars, countVars, waitVars, senderStepUnchanged>>

Unpark(s) ==
  /\ SenderAt(s, "parked") /\ sx[s].notified
  /\ sx' = [sx EXCEPT ![s].pc = "idle", ![s].notified = FALSE]
  /\ UNCHANGED <<left, ringVars, readyVars, countVars, waitVars, senderStepUnchanged>>

\* LaneSignal::mark: the lane, its page when the lane was IDLE, and the group
\* when the page was empty.  A send notifies if the lane was IDLE; a drop always.
AfterMark(s, was) == IF sx[s].dropping THEN "count" ELSE IF was THEN "idle" ELSE "notify"
MarkLane(s) ==
  /\ SenderAt(s, "lane")
  /\ pending' = pending \union {s}
  /\ SenderTo(s, IF s \in pending THEN AfterMark(s, TRUE) ELSE "page")
  /\ UNCHANGED <<pageBits, readyGroup, left, ringVars, countVars, waitVars, senderStepUnchanged>>

MarkPage(s) ==
  /\ SenderAt(s, "page")
  /\ pageBits' = pageBits \union {slotOf[s]}
  /\ SenderTo(s, IF \E k \in pageBits : Page(k) = Page(slotOf[s]) THEN AfterMark(s, FALSE)
                 ELSE "group")
  /\ UNCHANGED <<pending, readyGroup, left, ringVars, countVars, waitVars, senderStepUnchanged>>

MarkGroup(s) ==
  /\ SenderAt(s, "group")
  /\ readyGroup' = readyGroup \union {Page(slotOf[s])}
  /\ SenderTo(s, AfterMark(s, FALSE))
  /\ UNCHANGED <<pending, pageBits, left, ringVars, countVars, waitVars, senderStepUnchanged>>

\* Sender::drop closes the ring, marks the lane, counts itself out and notifies.
SenderClose(s) ==
  /\ SenderAt(s, "idle")
  /\ closed' = closed \union {s}
  /\ sx' = [sx EXCEPT ![s].pc = "lane", ![s].dropping = TRUE]
  /\ UNCHANGED <<ring, shut, left, readyVars, countVars, waitVars, senderStepUnchanged>>

CountDown(s) ==
  /\ SenderAt(s, "count")
  /\ live' = live - 1
  /\ sx' = [sx EXCEPT ![s].pc = "notify", ![s].wake = IF live = 1 THEN "all" ELSE "one"]
  /\ UNCHANGED <<liveR, receiverAlive, queues, left, ringVars, readyVars, waitVars,
                 senderStepUnchanged>>

Ended(s) == [sx[s] EXCEPT !.pc = IF sx[s].dropping THEN "gone" ELSE "idle", !.wake = None]
SenderNotify(s) ==
  /\ SenderAt(s, "notify") /\ Advance
  /\ sx' = [sx EXCEPT ![s] = IF waiters = {} THEN Ended(s) ELSE [@ EXCEPT !.pc = "signal"]]
  /\ UNCHANGED <<left, ringVars, readyVars, countVars, senderStepUnchanged>>

SenderSignal(s) ==
  /\ SenderAt(s, "signal") /\ Signal(sx[s].wake)
  /\ sx' = [sx EXCEPT ![s] = Ended(s)]
  /\ UNCHANGED <<left, ringVars, readyVars, countVars, senderStepUnchanged>>

-----------------------------------------------------------------------------
(* Receivers: the loops of a receive. *)

At(r, label) == rx[r].pc = label
Become(r, next) == rx' = [rx EXCEPT ![r] = next]
To(r, label) == Become(r, [rx[r] EXCEPT !.pc = label])

laneSide == <<ringVars, readyVars, workVars, lock, registryVars>>
peerSide == <<countVars, senderVars, waitVars, setup>>

HasEffect(e) == e.released # None \/ e.wake # None
Merged(wake, other) ==
  IF "all" \in {wake, other} THEN "all" ELSE IF "one" \in {wake, other} THEN "one" ELSE None

\* A publication begins (with the look at what it is for, which may be gone by the
\* time it is taken) and ends in two steps: it advances the generation, then leaves.
Begin(r, next) ==
  /\ publishing' = publishing \union {r}
  /\ stable' = stable \ {r}
  /\ Become(r, next)
Ending(e, next) == [e EXCEPT !.pc = "advance", !.then = next]
EndUnnoticed(r) ==
  /\ At(r, "advance")
  /\ To(r, "leave")
  /\ UNCHANGED <<trackerVars, laneSide, stagedVars, peerSide>>
EndAdvance(r) ==
  /\ At(r, "advance")
  /\ stable' = {}
  /\ To(r, "leave")
  /\ UNCHANGED <<publishing, laneSide, stagedVars, peerSide>>
EndLeave(r) ==
  /\ At(r, "leave")
  /\ publishing' = publishing \ {r}
  /\ Become(r, [rx[r] EXCEPT !.pc = rx[r].then, !.then = None])
  /\ UNCHANGED <<stable, laneSide, stagedVars, peerSide>>

StartRecv(r) ==
  /\ At(r, "idle")
  /\ \E c \in setup.calls : Become(r, [Idle EXCEPT !.pc = "staged",
                                           !.mode = IF c = "try" THEN "try" ELSE "attempt"])
  /\ UNCHANGED <<trackerVars, laneSide, stagedVars, peerSide>>

\* The loop of try_recv_inner goes on, or its attempts are used up.
NextRound(e) ==
  IF e.round < Retries
  THEN [e EXCEPT !.pc = "staged", !.round = @ + 1, !.lane = None, !.plan = << >>]
  ELSE [e EXCEPT !.pc = "return"]

\* pop_work: own staged values, then a snapshot and the orphaned ones.
PopStaged(r) ==
  /\ At(r, "staged") /\ private[r] + local[r] > 0
  /\ IF private[r] > 0
     THEN private' = [private EXCEPT ![r] = @ - 1] /\ UNCHANGED local
     ELSE local' = [local EXCEPT ![r] = @ - 1] /\ UNCHANGED private
  /\ Become(r, [rx[r] EXCEPT !.pc = "return", !.got = 1])
  /\ UNCHANGED <<orphaned, trackerVars, laneSide, peerSide>>

Snapshot(r) ==
  /\ At(r, "staged") /\ private[r] + local[r] = 0
  /\ stable' = stable \union {r}
  /\ To(r, "orphaned")
  /\ UNCHANGED <<publishing, laneSide, stagedVars, peerSide>>

PopOrphaned(r) ==
  /\ At(r, "orphaned")
  /\ IF orphaned > 0
     THEN orphaned' = orphaned - 1 /\ Become(r, [rx[r] EXCEPT !.pc = "return", !.got = 1])
     ELSE UNCHANGED orphaned /\ To(r, "hasReady")
  /\ UNCHANGED <<private, local, trackerVars, laneSide, peerSide>>

\* acquire_lane: prefer_work alternates which of the two orders is taken.
AcquireLane(r) ==
  \E plan \in {<<"ready", "direct", "work">>, <<"direct", "work", "ready">>} :
    Become(r, [rx[r] EXCEPT !.pc = "search", !.plan = plan])

\* has_ready_lane; without one, the receiver tries to steal from the others.
HasReadyLane(r) ==
  /\ At(r, "hasReady")
  /\ IF readyGroup \union workGroup # {} THEN AcquireLane(r)
     ELSE Become(r, [rx[r] EXCEPT !.pc = "steal", !.rest = queues \ {r}])
  /\ UNCHANGED <<trackerVars, laneSide, stagedVars, peerSide>>

Steal(r) ==
  /\ At(r, "steal")
  /\ \/ rx[r].rest = {} /\ AcquireLane(r) /\ UNCHANGED trackerVars
     \/ \E v \in rx[r].rest :
          IF local[v] = 0
          THEN Become(r, [rx[r] EXCEPT !.rest = @ \ {v}]) /\ UNCHANGED trackerVars
          ELSE Begin(r, [rx[r] EXCEPT !.pc = "stealTake", !.rest = @ \ {v}, !.peer = v])
  /\ UNCHANGED <<laneSide, stagedVars, peerSide>>

\* steal_batch_into: one value to return, and half of the others up to a limit.
Transfer(n) == Min({(n + 1) \div 2, StealLimit - 1})
StealTake(r) ==
  /\ At(r, "stealTake")
  /\ LET v == rx[r].peer IN
     IF local[v] = 0
     THEN Become(r, Ending([rx[r] EXCEPT !.peer = None], "steal")) /\ UNCHANGED local
     ELSE LET n == Transfer(local[v] - 1) IN
          /\ local' = [local EXCEPT ![v] = @ - 1 - n]
          /\ Become(r, [rx[r] EXCEPT !.pc = "stealPut", !.peer = None, !.rest = {}, !.got = 1,
                                     !.hand = n])
  /\ UNCHANGED <<private, orphaned, trackerVars, laneSide, peerSide>>
StealPut(r) ==
  /\ At(r, "stealPut")
  /\ local' = [local EXCEPT ![r] = @ + rx[r].hand]
  /\ Become(r, Ending([rx[r] EXCEPT !.hand = 0], "return"))
  /\ UNCHANGED <<private, orphaned, trackerVars, laneSide, peerSide>>

-----------------------------------------------------------------------------
(* Receivers: claiming a lane. *)

\* What is left to search after the head of the plan came to nothing.
Onward(e) == [e EXCEPT !.pc = "search", !.plan = Tail(@), !.page = 0]
Search(r) ==
  /\ At(r, "search")
  /\ LET e == rx[r]
         Try(found, p) == IF found THEN Begin(r, [e EXCEPT !.pc = Head(e.plan), !.page = p])
                          ELSE Become(r, Onward(e)) /\ UNCHANGED trackerVars
     IN \/ e.plan = << >> /\ To(r, "scan") /\ UNCHANGED trackerVars
        \/ e.plan # << >> /\ Head(e.plan) = "ready" /\ Try(readyGroup # {}, 0)
        \/ e.plan # << >> /\ Head(e.plan) = "work" /\ Try(workGroup # {}, 0)
        \/ e.plan # << >> /\ Head(e.plan) = "direct" /\ \E p \in Pages : Try(queue[p] # << >>, p)
  /\ UNCHANGED <<laneSide, stagedVars, peerSide>>

\* After drain_lane: an item or effects are returned, otherwise the loop goes on.
AfterDrain(e) ==
  IF e.got = 1 \/ HasEffect(e) THEN Ending(e, "return")
  ELSE Ending(NextRound(e), NextRound(e).pc)
Nothing(e) == Ending(Onward(e), "search")
Claim(e, l) == [e EXCEPT !.pc = "drain", !.plan = << >>, !.page = 0, !.rest = {}, !.lane = l]

\* acquire_ready_lane takes a page from the group and activates it.
TakeReady(r) ==
  /\ At(r, "ready")
  /\ \/ readyGroup = {} /\ Become(r, Nothing(rx[r])) /\ UNCHANGED readyGroup
     \/ \E p \in readyGroup :
          /\ readyGroup' = readyGroup \ {p}
          /\ Become(r, [rx[r] EXCEPT !.pc = "activate", !.page = p])
  /\ UNCHANGED <<pending, pageBits, ringVars, workVars, lock, registryVars, trackerVars,
                 stagedVars, peerSide>>

\* The lanes of a page that are there and pending; the others go back to their slots.
ReadySlots(bits) == {k \in bits : slots[k] \in pending}
EmptiedUnreturned(bits) == bits
EmptiedSlots(bits) == ReadySlots(bits)

\* take_ready_lane, under the registry lock: of the lanes marked in the page, in the
\* order of their bits, keep the first that is there and pending, and queue the others.
InOrder(ready) ==
  {order \in UNION {[1 .. n -> ready] : n \in 0 .. SlotCount} :
     /\ Range(order) = ready
     /\ \A i, j \in DOMAIN order : i < j => order[i] < order[j]}
Activate(r) ==
  /\ At(r, "activate") /\ lock = None
  /\ LET p == rx[r].page
         bits == {k \in pageBits : Page(k) = p}
     IN \E order \in InOrder(ReadySlots(bits)) :
        /\ pageBits' = pageBits \ bits
        /\ slots' = [k \in Slots |-> IF k \in EmptiedSlots(bits) THEN None ELSE slots[k]]
        /\ IF order = << >> THEN Become(r, Nothing(rx[r])) /\ UNCHANGED workVars
           ELSE /\ Become(r, Claim(rx[r], slots[order[1]]))
                /\ queue' = [queue EXCEPT ![p] =
                               @ \o [i \in 1 .. Len(order) - 1 |-> slots[order[i + 1]]]]
                /\ workGroup' = IF Len(order) > 1 THEN workGroup \union {p} ELSE workGroup
  /\ UNCHANGED <<lock, slotOf, free, fresh, registered, ringVars, pending, readyGroup, trackerVars,
                 stagedVars, peerSide>>

\* acquire_work_lane takes a page from the group.
TakeWork(r) ==
  /\ At(r, "work")
  /\ \/ workGroup = {} /\ Become(r, Nothing(rx[r])) /\ UNCHANGED workGroup
     \/ \E p \in workGroup :
          /\ workGroup' = workGroup \ {p}
          /\ Become(r, [rx[r] EXCEPT !.pc = "claimed", !.page = p])
  /\ UNCHANGED <<queue, ringVars, readyVars, lock, registryVars, trackerVars, stagedVars,
                 peerSide>>

\* pop_after_claim publishes the page again if it has lanes, and pops one;
\* pop_direct only pops.
PopPage(r) ==
  LET p == rx[r].page IN
  IF queue[p] = << >> THEN Become(r, Nothing(rx[r])) /\ UNCHANGED queue
  ELSE /\ queue' = [queue EXCEPT ![p] = Tail(@)]
       /\ Become(r, Claim(rx[r], Head(queue[p])))
PopDirect(r) ==
  /\ At(r, "direct") /\ PopPage(r)
  /\ UNCHANGED <<workGroup, ringVars, readyVars, lock, registryVars, trackerVars, stagedVars,
                 peerSide>>
PopAfterClaim(r) ==
  /\ At(r, "claimed") /\ PopPage(r)
  /\ workGroup' = IF queue[rx[r].page] # << >> THEN workGroup \union {rx[r].page} ELSE workGroup
  /\ UNCHANGED <<ringVars, readyVars, lock, registryVars, trackerVars, stagedVars, peerSide>>

-----------------------------------------------------------------------------
(* Receivers: draining a claimed lane (drain_lane). *)

\* Whole window or full batch popped: give the slots back (release_pending).
ReleaseBatch == Min({setup.cap, PrefetchLimit})

\* An empty lane is finished.  Otherwise take_batch returns the first value and
\* stages the rest, privately for a sole receiver.
DrainEmpty(r) ==
  /\ At(r, "drain")
  /\ LET l == rx[r].lane IN
     /\ ring[l].unread = 0
     /\ ring' = [ring EXCEPT ![l].unreleased = 0]
     /\ Become(r, [rx[r] EXCEPT !.pc = "finish",
                                !.released = IF ring[l].unreleased > 0 THEN l ELSE @])
  /\ UNCHANGED <<closed, shut, readyVars, workVars, lock, registryVars, trackerVars, stagedVars,
                 peerSide>>
DrainLane(r) ==
  /\ At(r, "drain")
  /\ LET l == rx[r].lane
         available == IF ring[l].cached = 0 THEN ring[l].unread ELSE ring[l].cached
         batch == Min({available, PrefetchLimit})
         cached == available - batch
         unreleased == ring[l].unreleased + batch
         release == unreleased >= ReleaseBatch \/ cached = 0
         wake == Merged(IF batch > 1 THEN "all" ELSE None, IF cached > 0 THEN "one" ELSE None)
     IN /\ ring[l].unread > 0
        /\ ring' = [ring EXCEPT ![l] = [unread |-> @.unread - batch, cached |-> cached,
                                        unreleased |-> IF release THEN 0 ELSE unreleased]]
        /\ IF liveR = 1
           THEN private' = [private EXCEPT ![r] = @ + batch - 1] /\ UNCHANGED local
           ELSE local' = [local EXCEPT ![r] = @ + batch - 1] /\ UNCHANGED private
        /\ Become(r, [rx[r] EXCEPT !.pc = IF cached > 0 THEN "requeue" ELSE "finish",
                                   !.got = 1, !.wake = wake,
                                   !.released = IF release THEN l ELSE @])
  /\ UNCHANGED <<orphaned, closed, shut, readyVars, workVars, lock, registryVars, trackerVars,
                 peerSide>>

\* finish_empty_lane, under the registry lock: finish the drain, look again ...
FinishDrain(r) ==
  /\ At(r, "finish") /\ lock = None
  /\ lock' = r
  /\ pending' = pending \ {rx[r].lane}
  /\ To(r, "reload")
  /\ UNCHANGED <<pageBits, readyGroup, ringVars, workVars, registryVars, trackerVars, stagedVars,
                 peerSide>>

ReloadNothing(r) ==
  /\ At(r, "reload")
  /\ To(r, "dispose")
  /\ UNCHANGED <<laneSide, trackerVars, stagedVars, peerSide>>

\* ... and keep the lane if a value came in,
Reload(r) ==
  /\ At(r, "reload")
  /\ LET l == rx[r].lane IN
     /\ ring' = [ring EXCEPT ![l].cached = ring[l].unread]
     /\ IF ring[l].unread > 0
        THEN /\ pending' = pending \union {l} /\ lock' = None
             /\ Become(r, [rx[r] EXCEPT !.pc = "requeue", !.wake = Merged(@, "one")])
        ELSE UNCHANGED <<pending, lock>> /\ To(r, "dispose")
  /\ UNCHANGED <<closed, shut, pageBits, readyGroup, workVars, registryVars, trackerVars,
                 stagedVars, peerSide>>

\* retire it if the sender is gone and nothing is left, or put it back.
Dispose(r) ==
  /\ At(r, "dispose")
  /\ lock' = None
  /\ LET l == rx[r].lane
         k == slotOf[l]
     IN IF l \in closed /\ ring[l].unread = 0
        THEN /\ free' = Append(free, k) /\ registered' = registered - 1
             /\ LET e == [rx[r] EXCEPT !.lane = None, !.progressed = TRUE] IN
                Become(r, IF registered = 1 THEN [e EXCEPT !.pc = "lastLane"] ELSE AfterDrain(e))
             /\ UNCHANGED slots
        ELSE /\ slots' = [slots EXCEPT ![k] = l]
             /\ Become(r, AfterDrain([rx[r] EXCEPT !.lane = None]))
             /\ UNCHANGED <<free, registered>>
  /\ UNCHANGED <<slotOf, fresh, ringVars, readyVars, workVars, trackerVars, stagedVars, peerSide>>
LastLane(r) ==
  /\ At(r, "lastLane")
  /\ Become(r, AfterDrain([rx[r] EXCEPT !.wake = IF live = 0 THEN "all" ELSE @]))
  /\ UNCHANGED <<laneSide, trackerVars, stagedVars, peerSide>>

\* requeue_lane: LanePage::push.
Requeue(r) ==
  /\ At(r, "requeue")
  /\ queue' = [queue EXCEPT ![Page(slotOf[rx[r].lane])] = Append(@, rx[r].lane)]
  /\ Become(r, [rx[r] EXCEPT !.pc = "mark", !.page = Page(slotOf[rx[r].lane]), !.lane = None])
  /\ UNCHANGED <<workGroup, ringVars, readyVars, lock, registryVars, trackerVars, stagedVars,
                 peerSide>>
RequeueMark(r) ==
  /\ At(r, "mark")
  /\ workGroup' = workGroup \union {rx[r].page}
  /\ Become(r, AfterDrain([rx[r] EXCEPT !.page = 0]))
  /\ UNCHANGED <<queue, ringVars, readyVars, lock, registryVars, trackerVars, stagedVars,
                 peerSide>>

-----------------------------------------------------------------------------
(* Receivers: the end of a fruitless search (empty_scan_state). *)

ScanChanged(e) == IF e.round < Retries THEN NextRound(e)
                  ELSE [e EXCEPT !.pc = "return", !.progressed = TRUE]
ScanEnd(e, result) == [e EXCEPT !.pc = "return", !.result = result]

Scan(r) ==
  /\ At(r, "scan")
  /\ Become(r, IF r \notin stable THEN ScanChanged(rx[r]) ELSE [rx[r] EXCEPT !.pc = "inFlight"])
  /\ UNCHANGED <<laneSide, trackerVars, stagedVars, peerSide>>
InFlight(r) ==
  /\ At(r, "inFlight")
  /\ Become(r, IF publishing # {} THEN ScanEnd(rx[r], None) ELSE [rx[r] EXCEPT !.pc = "isDrained"])
  /\ UNCHANGED <<laneSide, trackerVars, stagedVars, peerSide>>
IsDrained(r) ==
  /\ At(r, "isDrained")
  /\ Become(r, IF live > 0 \/ registered > 0 THEN ScanEnd(rx[r], None)
               ELSE [rx[r] EXCEPT !.pc = "inFlightStill"])
  /\ UNCHANGED <<laneSide, trackerVars, stagedVars, peerSide>>
InFlightStill(r) ==
  /\ At(r, "inFlightStill")
  /\ Become(r, IF publishing # {} THEN ScanEnd(rx[r], None) ELSE [rx[r] EXCEPT !.pc = "rescan"])
  /\ UNCHANGED <<laneSide, trackerVars, stagedVars, peerSide>>
Rescan(r) ==
  /\ At(r, "rescan")
  /\ Become(r, IF r \notin stable THEN ScanChanged(rx[r]) ELSE ScanEnd(rx[r], "disconnected"))
  /\ UNCHANGED <<laneSide, trackerVars, stagedVars, peerSide>>

-----------------------------------------------------------------------------
(* Receivers: returning, notifying, and blocking (run of src/blocking.rs). *)

Done(e) == e.got = 1 \/ e.result = "disconnected"
MustRetry(e) == HasEffect(e) \/ e.progressed
Parks(e) == e.mode = "recheck" /\ ~Done(e) /\ ~MustRetry(e)

\* Where the call goes once the effects are applied: try_recv_lanes tries again
\* after an empty attempt that had effects; run registers after an empty attempt,
\* and starts over when the attempt made while registered progressed.
Onwards(e) ==
  IF Done(e) THEN "idle"
  ELSE IF e.mode = "recheck" THEN "attempt"
  ELSE IF HasEffect(e) /\ e.again < Retries THEN "again"
  ELSE IF e.mode = "try" THEN "idle" ELSE "register"
Arrive(e) ==
  CASE e.then = "idle" -> Idle
    [] e.then = "attempt" -> [Idle EXCEPT !.pc = "staged", !.mode = "attempt"]
    [] e.then = "again" -> [Idle EXCEPT !.pc = "staged", !.mode = e.mode, !.again = e.again + 1]
    [] e.then = "register" -> [Idle EXCEPT !.pc = "register", !.mode = "attempt"]
    [] e.then = "gone" -> [Idle EXCEPT !.pc = "gone"]
\* apply_effects: notify_space, then the receivers.
Apply(e) ==
  IF e.released # None THEN [e EXCEPT !.pc = "space"]
  ELSE IF e.wake # None THEN [e EXCEPT !.pc = "notify"]
  ELSE Arrive(e)

Return(r) ==
  /\ At(r, "return")
  /\ stable' = stable \ {r}
  /\ IF Parks(rx[r]) THEN To(r, "park") /\ UNCHANGED waitVars
     ELSE /\ Become(r, Apply([rx[r] EXCEPT !.then = Onwards(rx[r]), !.got = 0, !.progressed = FALSE,
                                           !.result = None, !.round = 0]))
          /\ IF rx[r].mode = "recheck" THEN Unregister(r) ELSE UNCHANGED waitVars
  /\ UNCHANGED <<publishing, laneSide, stagedVars, countVars, senderVars, setup>>

NotifySpace(lanes) ==
  sx' = [s \in Senders |-> IF s \in lanes /\ sx[s].pc \in {"recheck", "parked"}
                           THEN [sx[s] EXCEPT !.notified = TRUE] ELSE sx[s]]
ReleaseQuietly(r) ==
  /\ At(r, "space")
  /\ Become(r, Apply([rx[r] EXCEPT !.released = None]))
  /\ UNCHANGED <<laneSide, trackerVars, stagedVars, peerSide>>

Space(r) ==
  /\ At(r, "space")
  /\ NotifySpace({rx[r].released})
  /\ Become(r, Apply([rx[r] EXCEPT !.released = None]))
  /\ UNCHANGED <<left, laneSide, trackerVars, stagedVars, countVars, waitVars, setup>>
Notify(r) ==
  /\ At(r, "notify") /\ Advance
  /\ Become(r, IF waiters = {} THEN Arrive(rx[r]) ELSE [rx[r] EXCEPT !.pc = "signal"])
  /\ UNCHANGED <<laneSide, trackerVars, stagedVars, countVars, senderVars, setup>>
SignalWaiters(r) ==
  /\ At(r, "signal") /\ Signal(rx[r].wake)
  /\ Become(r, Arrive(rx[r]))
  /\ UNCHANGED <<laneSide, trackerVars, stagedVars, countVars, senderVars, setup>>

\* prepare; the attempt made while registered; wait, which may end spuriously.
RegisterWaiter(r) ==
  /\ At(r, "register")
  /\ waiters' = waiters \union {r} /\ current' = current \union {r}
  /\ Become(r, [Idle EXCEPT !.pc = "staged", !.mode = "recheck"])
  /\ UNCHANGED <<asleep, laneSide, trackerVars, stagedVars, countVars, senderVars, setup>>
ParkReceiver(r) ==
  /\ At(r, "park")
  /\ IF r \in current
     THEN asleep' = asleep \union {r} /\ To(r, "asleep") /\ UNCHANGED <<waiters, current>>
     ELSE Unregister(r) /\ Become(r, [Idle EXCEPT !.pc = "staged", !.mode = "attempt"])
  /\ UNCHANGED <<laneSide, trackerVars, stagedVars, countVars, senderVars, setup>>
Wake(r) ==
  /\ At(r, "asleep") /\ r \notin asleep
  /\ Unregister(r)
  /\ Become(r, [Idle EXCEPT !.pc = "staged", !.mode = "attempt"])
  /\ UNCHANGED <<laneSide, trackerVars, stagedVars, countVars, senderVars, setup>>
WakeSpuriously(r) ==
  /\ r \in asleep
  /\ asleep' = asleep \ {r}
  /\ UNCHANGED <<waiters, current, rx, laneSide, trackerVars, stagedVars, countVars, senderVars,
                 setup>>

-----------------------------------------------------------------------------
(* Receivers come and go. *)

\* Clone makes private values stealable, then registers the new receiver.
StartClone(r) ==
  /\ At(r, "idle")
  /\ \E c \in setup.later \intersect Receivers :
       /\ At(c, "new") /\ \A e \in Receivers : rx[e].peer # c
       /\ Begin(r, [Idle EXCEPT !.pc = "clone", !.peer = c])
  /\ UNCHANGED <<laneSide, stagedVars, peerSide>>

CloneStaged(r) ==
  /\ At(r, "clone")
  /\ local' = [local EXCEPT ![r] = @ + private[r]] /\ private' = [private EXCEPT ![r] = 0]
  /\ To(r, "cloneRegister")
  /\ UNCHANGED <<orphaned, laneSide, trackerVars, peerSide>>
CloneRegister(r) ==
  /\ At(r, "cloneRegister") /\ lock = None
  /\ queues' = queues \union {rx[r].peer}
  /\ To(r, "cloneCount")
  /\ UNCHANGED <<live, liveR, receiverAlive, senderVars, waitVars, setup, laneSide, trackerVars,
                 stagedVars>>
CloneCount(r) ==
  /\ At(r, "cloneCount")
  /\ liveR' = liveR + 1
  /\ stable' = {}
  /\ Become(r, Ending(rx[r], "cloned"))
  /\ UNCHANGED <<live, receiverAlive, queues, senderVars, waitVars, setup, laneSide,
                 publishing, stagedVars>>
Cloned(r) ==
  /\ At(r, "cloned")
  /\ rx' = [rx EXCEPT ![r] = Idle, ![rx[r].peer] = Idle]
  /\ UNCHANGED <<laneSide, trackerVars, stagedVars, peerSide>>

\* Receiver::drop moves staged values to the orphaned queue, unregisters, and
\* counts itself out; progressed stands for its flag published.
StartDrop(r) ==
  /\ At(r, "idle") /\ Begin(r, [Idle EXCEPT !.pc = "drop"])
  /\ UNCHANGED <<laneSide, stagedVars, peerSide>>
DropPrivate(r) ==
  /\ At(r, "drop")
  /\ orphaned' = orphaned + private[r] /\ private' = [private EXCEPT ![r] = 0]
  /\ Become(r, [rx[r] EXCEPT !.pc = "dropTake", !.progressed = private[r] > 0])
  /\ UNCHANGED <<local, laneSide, trackerVars, peerSide>>
DropTake(r) ==
  /\ At(r, "dropTake")
  /\ local' = [local EXCEPT ![r] = 0]
  /\ Become(r, [rx[r] EXCEPT !.pc = "dropPut", !.hand = local[r],
                             !.progressed = @ \/ local[r] > 0])
  /\ UNCHANGED <<private, orphaned, laneSide, trackerVars, peerSide>>
DropPut(r) ==
  /\ At(r, "dropPut")
  /\ orphaned' = orphaned + rx[r].hand
  /\ Become(r, [rx[r] EXCEPT !.pc = "dropUnregister", !.hand = 0])
  /\ UNCHANGED <<private, local, laneSide, trackerVars, peerSide>>
DropUnregister(r) ==
  /\ At(r, "dropUnregister") /\ lock = None
  /\ queues' = queues \ {r}
  /\ stable' = {}
  /\ Become(r, Ending(rx[r], "dropCount"))
  /\ UNCHANGED <<live, liveR, receiverAlive, senderVars, waitVars, setup, laneSide, publishing,
                 stagedVars>>
DropCount(r) ==
  /\ At(r, "dropCount")
  /\ liveR' = liveR - 1
  /\ Become(r, IF liveR = 1 THEN [Idle EXCEPT !.pc = "close"]
               ELSE IF rx[r].progressed THEN [Idle EXCEPT !.pc = "notify", !.wake = "all",
                                                         !.then = "gone"]
               ELSE [Idle EXCEPT !.pc = "dropNotify"])
  /\ UNCHANGED <<live, receiverAlive, queues, senderVars, waitVars, setup, laneSide,
                 trackerVars, stagedVars>>
DropNotify(r) ==
  /\ At(r, "dropNotify")
  /\ Become(r, IF live = 0 THEN [Idle EXCEPT !.pc = "notify", !.wake = "all", !.then = "gone"]
               ELSE [Idle EXCEPT !.pc = "gone"])
  /\ UNCHANGED <<laneSide, trackerVars, stagedVars, peerSide>>

\* close_all_receivers: no more senders, then close every lane, parked or queued.
CloseChannel(r) ==
  /\ At(r, "close")
  /\ receiverAlive' = FALSE
  /\ To(r, "closeSlots")
  /\ UNCHANGED <<live, liveR, queues, senderVars, waitVars, setup, laneSide, trackerVars,
                 stagedVars>>
CloseLanes(lanes) == shut' = shut \union lanes /\ NotifySpace(lanes) /\ UNCHANGED <<ring, closed>>
CloseSlots(r) ==
  /\ At(r, "closeSlots") /\ lock = None
  /\ CloseLanes({slots[k] : k \in Slots} \ {None})
  /\ slots' = [k \in Slots |-> None]
  /\ To(r, "closeQueues")
  /\ UNCHANGED <<slotOf, free, fresh, registered, readyVars, workVars, lock, trackerVars,
                 stagedVars, countVars, left, waitVars, setup>>
CloseQueues(r) ==
  /\ At(r, "closeQueues")
  /\ CloseLanes(UNION {Range(queue[p]) : p \in Pages})
  /\ queue' = [p \in Pages |-> << >>]
  /\ orphaned' = 0
  /\ Become(r, [Idle EXCEPT !.pc = "notify", !.wake = "all", !.then = "gone"])
  /\ UNCHANGED <<workGroup, readyVars, lock, registryVars, trackerVars, private, local, countVars,
                 left, waitVars, setup>>

-----------------------------------------------------------------------------
SenderCall(s) == Send(s) \/ SendFull(s) \/ SenderClose(s) \/ Register(s)
SenderStep(s) ==
  \/ Park(s) \/ Unpark(s)
  \/ MarkLane(s) \/ MarkPage(s) \/ MarkGroup(s) \/ CountDown(s)
  \/ SenderNotify(s) \/ SenderSignal(s)
ReceiveStep(r) ==
  \/ EndAdvance(r) \/ EndLeave(r)
  \/ PopStaged(r) \/ Snapshot(r) \/ PopOrphaned(r) \/ HasReadyLane(r)
  \/ Steal(r) \/ StealTake(r) \/ StealPut(r)
  \/ Search(r) \/ TakeReady(r) \/ Activate(r)
  \/ PopDirect(r) \/ TakeWork(r) \/ PopAfterClaim(r)
  \/ DrainEmpty(r) \/ DrainLane(r) \/ FinishDrain(r) \/ Reload(r) \/ Dispose(r) \/ LastLane(r)
  \/ Requeue(r) \/ RequeueMark(r)
  \/ Scan(r) \/ InFlight(r) \/ IsDrained(r) \/ InFlightStill(r) \/ Rescan(r)
  \/ Return(r) \/ Space(r) \/ Notify(r) \/ SignalWaiters(r)
  \/ RegisterWaiter(r) \/ ParkReceiver(r) \/ Wake(r)
HandleStep(r) ==
  \/ CloneStaged(r) \/ CloneRegister(r) \/ CloneCount(r) \/ Cloned(r)
  \/ DropPrivate(r) \/ DropTake(r) \/ DropPut(r) \/ DropUnregister(r)
  \/ DropCount(r) \/ DropNotify(r) \/ CloseChannel(r) \/ CloseSlots(r) \/ CloseQueues(r)
ReceiverCall(r) == StartRecv(r) \/ StartClone(r) \/ StartDrop(r)

\* Everybody is gone.
Terminated ==
  /\ \A s \in Senders : sx[s].pc \in {"new", "gone"}
  /\ \A r \in Receivers : rx[r].pc \in {"new", "gone"}
  /\ UNCHANGED vars

Next ==
  \/ \E s \in Senders : SenderCall(s) \/ SenderStep(s)
  \/ \E r \in Receivers : ReceiverCall(r) \/ ReceiveStep(r) \/ HandleStep(r) \/ WakeSpuriously(r)
  \/ Terminated

Spec == Init /\ [][Next]_vars

-----------------------------------------------------------------------------
(* Properties. *)

\* Where the token of a lane is.
Queued(s) == UNION {{p} \X {i \in DOMAIN queue[p] : queue[p][i] = s} : p \in Pages}
Holders(s) == {r \in Receivers : rx[r].lane = s}
Places(s) ==
  ({"slot"} \X {k \in Slots : slots[k] = s}) \union ({"queue"} \X Queued(s))
    \union ({"receiver"} \X Holders(s))

\* "one ready token exists per lane" (LanePage::push), through every race of claims,
\* requeues and the reuse of slots: never two, so that no two receivers use one
\* consumer, and none lost before the lane is closed on one side and done with.  A
\* lane that is out finds its slot empty, as install_lane asserts.
OneToken ==
  \A s \in Senders :
    /\ \A x, y \in Places(s) : x = y
    /\ Places(s) = {} => sx[s].pc = "new" \/ s \in shut \/ (s \in closed /\ ring[s].unread = 0)
    /\ Holders(s) # {} => slots[slotOf[s]] = None


\* "after all senders and buffered values are gone and no publication is in
\* flight": when a receive reports the disconnect, no value is left in a ring, in
\* a staging queue, or on its way between two of them.
Buffered(s) == ring[s].unread > 0
Empty ==
  /\ \A s \in Senders : ~Buffered(s)
  /\ \A r \in Receivers : private[r] = 0 /\ local[r] = 0 /\ rx[r].hand = 0
  /\ orphaned = 0
DisconnectedIsLast == \A r \in Receivers : rx[r].result = "disconnected" => Empty /\ live = 0

\* A parked lane with values is PENDING, and a PENDING one has its bit; a page with
\* bits has its own, and so has a queue with lanes; or somebody is about to mark them.
LaneShown(s, k) ==
  /\ Buffered(s) => s \in pending \/ SenderAt(s, "lane")
  /\ s \in pending => k \in pageBits \/ SenderAt(s, "page")
LanesShown == \A k \in Slots : slots[k] # None => LaneShown(slots[k], k)
PagesShown ==
  \A k \in pageBits :
    \/ Page(k) \in readyGroup
    \/ \E s \in Senders : SenderAt(s, "group") /\ Page(slotOf[s]) = Page(k)
    \/ \E r \in Receivers : At(r, "activate") /\ rx[r].page = Page(k)
QueuesShown ==
  \A p \in Pages : queue[p] # << >> /\ receiverAlive =>
    \/ p \in workGroup
    \/ \E r \in Receivers : rx[r].pc \in {"mark", "claimed"} /\ rx[r].page = p

\* Every value and every queued lane can be found by a receiver that looks for ready
\* lanes or queued work, or is being published by somebody.
NothingHidden == LanesShown /\ PagesShown /\ QueuesShown

\* A sender sleeps un-notified beside free slots only while the receiver that
\* released them is on its way to notify it (Effects.released).
SenderNotStranded ==
  \A s \in Senders : SenderAt(s, "parked") /\ ~sx[s].notified /\ receiverAlive /\ HasRoom(s) =>
    \E r \in Receivers : rx[r].released = s

\* "Returns RecvError after all senders and buffered values are gone" (recv): when
\* nobody is in the middle of an operation and the last sender is gone, no receiver
\* is left asleep.
Quiet ==
  /\ \A s \in Senders : sx[s].pc \in {"new", "idle", "parked", "gone"} /\ ~sx[s].notified
  /\ \A r \in Receivers : rx[r].pc \in {"new", "idle", "gone"} \/ r \in asleep
DisconnectWakes == Quiet /\ live = 0 => asleep = {}

-----------------------------------------------------------------------------
(* The inductive invariant behind OneToken, NothingHidden and              *)
(* SenderNotStranded.                                                      *)

\* What a receiver holds agrees with where it is: it has a lane at the first labels; it
\* goes on at one of the second after a publication, of the third after its effects;
\* slots it released are notified before it starts over.
HasLane == {"drain", "finish", "reload", "dispose", "requeue"}
Resumes == {"staged", "steal", "search", "return", "cloned", "dropCount"}
Arrivals == {"idle", "attempt", "again", "register", "gone"}
Settling == {"finish", "reload", "dispose", "lastLane", "requeue", "mark", "advance", "leave",
             "return", "space"}
Receiving(e) ==
  /\ DOMAIN e = DOMAIN Idle
  /\ e.plan \in Seq({"ready", "direct", "work"}) /\ e.page \in Pages /\ e.rest \subseteq Receivers
  /\ e.pc \in {"ready", "activate", "direct", "work", "claimed"} => e.plan # << >>
  /\ e.peer \in Receivers \union {None}
  /\ e.lane \in Senders \union {None} /\ e.released \in Senders \union {None}
  /\ e.lane # None <=> e.pc \in HasLane
  /\ e.pc \in {"advance", "leave"} => e.then \in Resumes
  /\ e.pc \in {"space", "notify", "signal"} => e.then \in Arrivals
  /\ e.released # None => e.pc \in Settling
  /\ e.released # None /\ e.pc \in {"advance", "leave"} => e.then = "return"

Buffering(e) ==
  /\ DOMAIN e = {"unread", "cached", "unreleased"}
  /\ e.unread \in Nat /\ e.cached \in Nat /\ e.unreleased \in Nat
Sending(e) ==
  /\ DOMAIN e = {"pc", "dropping", "wake", "notified"}
  /\ e.pc \in {"new", "idle", "recheck", "parked", "lane", "page", "group", "count", "notify", "signal",
              "gone"}
  /\ e.dropping \in BOOLEAN /\ e.notified \in BOOLEAN

TypeOK ==
  /\ setup \in Setups
  /\ DOMAIN ring = Senders /\ \A s \in Senders : Buffering(ring[s])
  /\ pending \subseteq Senders
  /\ pageBits \subseteq Slots /\ readyGroup \subseteq Pages /\ workGroup \subseteq Pages
  /\ queue \in [Pages -> Seq(Senders)] /\ queues \subseteq Receivers
  /\ slots \in [Slots -> Senders \union {None}] /\ slotOf \in [Senders -> Slots]
  /\ free \in Seq(Slots) /\ fresh \subseteq Slots
  /\ DOMAIN rx = Receivers /\ \A r \in Receivers : Receiving(rx[r])
  /\ DOMAIN sx = Senders /\ \A s \in Senders : Sending(sx[s])

\* The receiver that disposes of a lane has the registry lock.
LockInv == \A r \in Receivers : lock = r <=> rx[r].pc \in {"reload", "dispose"}

\* The receiver that a clone makes is unborn until the clone is done, and one receiver
\* makes it.
MakesClone(e) ==
  \/ e.pc \in {"clone", "cloneRegister", "cloneCount", "cloned"}
  \/ e.pc \in {"advance", "leave"} /\ e.then = "cloned"
CloneInv ==
  \A r \in Receivers : MakesClone(rx[r]) =>
    /\ rx[r].peer # None /\ rx[rx[r].peer].pc = "new"
    /\ \A q \in Receivers : MakesClone(rx[q]) /\ rx[q].peer = rx[r].peer => q = r

\* The token of a lane is in one place, and nobody else has the slot of a lane that
\* has a token: it is neither free, nor fresh, nor that of another such lane.
InSlot(s) == slots[slotOf[s]] = s
InQueue(s) == s \in Range(queue[Page(slotOf[s])])
Held(s) == \E r \in Receivers : rx[r].lane = s
Present(s) == InSlot(s) \/ InQueue(s) \/ Held(s)
TokenInv ==
  /\ \A k \in Slots : slots[k] # None => slotOf[slots[k]] = k
  /\ \A p \in Pages : IsInjective(queue[p])
  /\ \A p \in Pages : \A s \in Range(queue[p]) : Page(slotOf[s]) = p
  /\ \A q, r \in Receivers : rx[q].lane = rx[r].lane /\ rx[r].lane # None => q = r
  /\ \A s \in Senders : InQueue(s) \/ Held(s) => ~InSlot(s)
  /\ \A s \in Senders : ~(InQueue(s) /\ Held(s))
SlotInv ==
  /\ IsInjective(free) /\ Range(free) \intersect fresh = {}
  /\ \A s \in Senders : Present(s) => slotOf[s] \notin Range(free) \union fresh
  /\ \A s, t \in Senders : Present(s) /\ Present(t) /\ slotOf[s] = slotOf[t] => s = t

\* A lane is there from its registration until it is shut, or closed and drained.
LaneLife(s) ==
  /\ SenderAt(s, "new") => ~Present(s) /\ ring[s].unread = 0 /\ s \notin pending
  /\ SenderAt(s, "new") \/ Present(s) \/ s \in shut \/ (s \in closed /\ ring[s].unread = 0)
  /\ s \in closed => sx[s].dropping
  /\ sx[s].dropping => sx[s].pc \in {"lane", "page", "group", "count", "notify", "signal", "gone"}
  /\ ring[s].cached <= ring[s].unread
LifeInv == \A s \in Senders : LaneLife(s)

\* A lane about to be put back is marked as a parked one is: the registry lock keeps
\* its bit in the page until then.
ReturnInv ==
  \A r \in Receivers :
    LET s == rx[r].lane IN
    /\ At(r, "dispose") /\ Buffered(s) => s \in pending \/ SenderAt(s, "lane")
    /\ rx[r].pc \in {"reload", "dispose"} /\ s \in pending =>
         slotOf[s] \in pageBits \/ SenderAt(s, "page")

IInv ==
  /\ TypeOK /\ LockInv /\ CloneInv /\ TokenInv /\ SlotInv /\ LifeInv /\ ReturnInv
  /\ NothingHidden /\ SenderNotStranded
=============================================================================
