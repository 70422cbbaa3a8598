----------------------------- MODULE MpscChannel -----------------------------
(***************************************************************************)
(* The MPSC channel in flight: senders that publish into their own ring    *)
(* and mark it in the ready index, one receiver that collects ready lanes  *)
(* into its rotation and drains them, and both sides blocking on the wait  *)
(* cells of WaitToken when there is no room or nothing to receive.         *)
(*                                                                         *)
(* Every access to a shared word is a step of its own (src/ready.rs,       *)
(* src/mpsc/sender.rs, src/mpsc/receiver*.rs).  A ring is its four         *)
(* positions (YRing shows that they carry the values in order); all lanes  *)
(* are registered and adopted.  The scheduling counters of the receiver    *)
(* (burst and poll budget) are left open: after any value it may rotate,   *)
(* and before any it may poll readiness, as a mix of ordinary, fair and    *)
(* bulk receives does.                                                     *)
(***************************************************************************)
EXTENDS Integers, Sequences, FiniteSets, Functions

CONSTANTS
  Lanes,            \* one per sender
  Page,             \* the ready page of a lane
  Group,            \* the ready group of a page
  Cap,              \* slots of each ring
  MinReleaseBatch,  \* MIN_RELEASE_BATCH
  MaxSends          \* bound on the values the sender of each lane sends

\* A page stays in its group when its lanes have left.
Pages == DOMAIN Group
Groups == {Group[p] : p \in Pages}

ASSUME LanesAssumption == IsFiniteSet(Lanes) /\ "none" \notin Lanes
ASSUME PageAssumption == Page \in [Lanes -> Pages]
ASSUME CapAssumption == Cap \in Nat \ {0}
ASSUME MinReleaseBatchAssumption == MinReleaseBatch \in Nat \ {0}
ASSUME MaxSendsAssumption == MaxSends \in [Lanes -> Nat]

VARIABLES
  tail, released,     \* Ring.tail and Ring.head of each lane
  window, popped,     \* Consumer.cached_tail and Consumer.head of each lane
  producerDropped,    \* lanes whose producer is closed
  consumerDropped,    \* lanes whose consumer is closed
  pending,            \* lanes whose LaneSignal is PENDING
  laneBits,           \* the bits of the ready pages, as lanes
  pageBits,           \* the bits of the ready groups, as pages
  liveSenders,        \* Shared.live_senders
  data, space,        \* the wait cells: one of the channel, one per lane
  spc,                \* where each sender is
  active, queued,     \* the receiver's rotation and the lanes flagged so
  lanes,              \* lanes the receiver has not retired
  rpc, key, freed,    \* where the receiver is, the lane it polls, and the
                      \* lane whose slots it released and has yet to notify
  groupsLeft, pagesLeft, lanesLeft   \* what collect_ready has yet to visit

ringVars == <<tail, released, window, popped, producerDropped, consumerDropped>>
readyVars == <<pending, laneBits, pageBits>>
collectVars == <<groupsLeft, pagesLeft, lanesLeft>>
receiverVars == <<active, queued, lanes, rpc, key, freed>>
vars == <<ringVars, readyVars, liveSenders, data, space, spc, receiverVars, collectVars>>

dataToken == INSTANCE WaitToken WITH token <- data
spaceToken(l) == INSTANCE WaitToken WITH token <- space[l]

Init ==
  /\ tail = [l \in Lanes |-> 0] /\ released = [l \in Lanes |-> 0]
  /\ window = [l \in Lanes |-> 0] /\ popped = [l \in Lanes |-> 0]
  /\ producerDropped = {} /\ consumerDropped = {}
  /\ pending = {} /\ laneBits = {} /\ pageBits = {}
  /\ liveSenders = Cardinality(Lanes)
  /\ data = "out" /\ space = [l \in Lanes |-> "out"]
  /\ spc = [l \in Lanes |-> "idle"]
  /\ active = << >> /\ queued = {} /\ lanes = Lanes
  /\ rpc = "idle" /\ key = "none" /\ freed = "none"
  /\ groupsLeft = {} /\ pagesLeft = {} /\ lanesLeft = {}

-----------------------------------------------------------------------------
(* A sender, with the lane it owns. *)

SenderGoto(l, label) == spc' = [spc EXCEPT ![l] = label]
HasRoom(l) == tail[l] - released[l] < Cap

\* send, try_send and the timed sends, and every attempt they make:
\* try_send_inner asks is_consumer_dropped, then pushes and flushes.  (A send
\* that starts on a closed lane returns and changes nothing.)
Check(l) ==
  /\ l \notin consumerDropped
  /\ SenderGoto(l, "push")
  /\ UNCHANGED <<ringVars, readyVars, liveSenders, data, space, receiverVars, collectVars>>

StartSend(l) == spc[l] = "idle" /\ tail[l] < MaxSends[l] /\ Check(l)
TryAgain(l) == spc[l] = "try" /\ Check(l)

Publish(l) ==
  /\ spc[l] = "push" /\ HasRoom(l)
  /\ tail' = [tail EXCEPT ![l] = @ + 1]
  /\ SenderGoto(l, "mark")
  /\ UNCHANGED <<released, window, popped, producerDropped, consumerDropped, readyVars,
                 liveSenders, data, space, receiverVars, collectVars>>

\* Receiver::drop clears receiver_alive before it closes the first lane.
ReceiverAlive == rpc \notin {"closing", "closeFlag", "closed", "ended"}

\* push_error says Full: a caller that does not block gets it back, the
\* blocking loop registers the first time and parks the second.
Full(l) ==
  /\ spc[l] = "push" /\ ~HasRoom(l)
  /\ ReceiverAlive /\ l \notin consumerDropped
  /\ IF space[l] = "out"
     THEN spc' \in {[spc EXCEPT ![l] = "idle"], [spc EXCEPT ![l] = "register"]}
     ELSE SenderGoto(l, "parked")
  /\ UNCHANGED <<ringVars, readyVars, liveSenders, data, space, receiverVars, collectVars>>

\* The lane is found closed, before the push or after it failed.
Disconnected(l) ==
  /\ \/ spc[l] = "try" /\ l \in consumerDropped
     \/ spc[l] = "push" /\ ~HasRoom(l) /\ (~ReceiverAlive \/ l \in consumerDropped)
  /\ SenderGoto(l, "idle")
  /\ space' = [space EXCEPT ![l] = "out"]
  /\ UNCHANGED <<ringVars, readyVars, liveSenders, data, receiverVars, collectVars>>

RegisterSpace(l) ==
  /\ spc[l] = "register"
  /\ space' = [space EXCEPT ![l] = "registered"]
  /\ SenderGoto(l, "try")
  /\ UNCHANGED <<ringVars, readyVars, liveSenders, data, receiverVars, collectVars>>

\* The wait returns: notified, or for no reason, or at a deadline, which leaves
\* one more attempt as well.
LeaveSpace(l) ==
  /\ SenderGoto(l, "try")
  /\ space' = [space EXCEPT ![l] = "out"]
  /\ UNCHANGED <<ringVars, readyVars, liveSenders, data, receiverVars, collectVars>>

WakeSender(l) == spc[l] = "parked" /\ space[l] = "notified" /\ LeaveSpace(l)
WakeSenderEarly(l) == spc[l] = "parked" /\ space[l] = "registered" /\ LeaveSpace(l)

\* Where a publication goes once it has marked what it had to: an attempt made
\* while registered unregisters before it wakes the receiver.
AfterMark(l, wake) ==
  IF l \in producerDropped THEN "count"
  ELSE IF space[l] # "out" THEN IF wake THEN "dropWake" ELSE "drop"
  ELSE IF wake THEN "notify" ELSE "idle"

\* LaneSignal::mark: one swap; only the first mark after IDLE goes on to the
\* index and wakes the receiver.
Mark(l) ==
  /\ spc[l] = "mark"
  /\ pending' = pending \union {l}
  /\ SenderGoto(l, IF l \in pending THEN AfterMark(l, FALSE) ELSE "page")
  /\ UNCHANGED <<ringVars, laneBits, pageBits, liveSenders, data, space,
                 receiverVars, collectVars>>

MarkPageOnly(l) ==
  /\ spc[l] = "page"
  /\ laneBits' = laneBits \union {l}
  /\ SenderGoto(l, AfterMark(l, TRUE))
  /\ UNCHANGED <<ringVars, pending, pageBits, liveSenders, data, space,
                 receiverVars, collectVars>>

\* ReadyPage::mark: one fetch_or; only the first bit of a page marks the group.
MarkPage(l) ==
  /\ spc[l] = "page"
  /\ laneBits' = laneBits \union {l}
  /\ SenderGoto(l, IF \E m \in laneBits : Page[m] = Page[l] THEN AfterMark(l, TRUE) ELSE "group")
  /\ UNCHANGED <<ringVars, pending, pageBits, liveSenders, data, space,
                 receiverVars, collectVars>>

MarkGroup(l) ==
  /\ spc[l] = "group"
  /\ pageBits' = pageBits \union {Page[l]}
  /\ SenderGoto(l, AfterMark(l, TRUE))
  /\ UNCHANGED <<ringVars, pending, laneBits, liveSenders, data, space,
                 receiverVars, collectVars>>

\* A send that succeeded while registered.
Unregister(l) ==
  /\ spc[l] \in {"drop", "dropWake"}
  /\ space' = [space EXCEPT ![l] = "out"]
  /\ SenderGoto(l, IF spc[l] = "dropWake" THEN "notify" ELSE "idle")
  /\ UNCHANGED <<ringVars, readyVars, liveSenders, data, receiverVars, collectVars>>

NotifyData(l) ==
  /\ spc[l] = "notify"
  /\ data' = dataToken!Notified(data)
  /\ SenderGoto(l, IF l \in producerDropped THEN "gone" ELSE "idle")
  /\ UNCHANGED <<ringVars, readyVars, liveSenders, space, receiverVars, collectVars>>

\* Sender::drop: close, mark, count down, notify.
Drop(l) ==
  /\ spc[l] = "idle"
  /\ producerDropped' = producerDropped \union {l}
  /\ SenderGoto(l, "mark")
  /\ UNCHANGED <<tail, released, window, popped, consumerDropped, readyVars, liveSenders,
                 data, space, receiverVars, collectVars>>

DropQuietly(l) ==
  /\ spc[l] = "count"
  /\ liveSenders' = liveSenders - 1
  /\ SenderGoto(l, "gone")
  /\ UNCHANGED <<ringVars, readyVars, data, space, receiverVars, collectVars>>

CountDown(l) ==
  /\ spc[l] = "count"
  /\ liveSenders' = liveSenders - 1
  /\ SenderGoto(l, "notify")
  /\ UNCHANGED <<ringVars, readyVars, data, space, receiverVars, collectVars>>

\* What a sender does once it has started a send or its drop.
Sender(l) ==
  \/ TryAgain(l) \/ Publish(l) \/ Full(l) \/ Disconnected(l) \/ RegisterSpace(l)
  \/ WakeSender(l) \/ Mark(l) \/ MarkPage(l) \/ MarkGroup(l) \/ Unregister(l)
  \/ NotifyData(l) \/ CountDown(l)

-----------------------------------------------------------------------------
(* The receiver: try_recv_inner, called once or in the blocking loop. *)

senderVars == <<tail, producerDropped, laneBits, pageBits, liveSenders, spc>>

Collecting == rpc \in {"collectAll", "collectSome"}
Visited == groupsLeft = {} /\ pagesLeft = {} /\ lanesLeft = {}

\* ReadyGroup::take_all.  A scan that need not be complete ends with the first
\* group that has any page.
TakeGroup(groups, scan) ==
  /\ \E g \in groups :
       /\ pagesLeft' = {p \in pageBits : Group[p] = g}
       /\ pageBits' = pageBits \ pagesLeft'
       /\ groupsLeft' = IF scan = "collectSome" /\ pagesLeft' # {} THEN {} ELSE groups \ {g}
  /\ rpc' = scan
  /\ UNCHANGED <<ringVars, pending, laneBits, liveSenders, data, space, spc,
                 active, queued, lanes, key, freed, lanesLeft>>

\* collect_ready, at the start of a receive or of another attempt: all groups
\* when the rotation is empty, else up to the first group that has any.
StartScan == TakeGroup(Groups, IF active = << >> THEN "collectAll" ELSE "collectSome")
StartCollect == rpc = "idle" /\ StartScan
CollectAgain == rpc = "loop" /\ StartScan
NextGroup ==
  Collecting /\ lanesLeft = {} /\ pagesLeft = {} /\ TakeGroup(groupsLeft, rpc)

\* ReadyPage::take.
TakePage ==
  /\ Collecting /\ lanesLeft = {}
  /\ \E p \in pagesLeft :
       /\ lanesLeft' = {l \in laneBits : Page[l] = p}
       /\ laneBits' = laneBits \ lanesLeft'
       /\ pagesLeft' = pagesLeft \ {p}
  /\ UNCHANGED <<ringVars, pending, pageBits, liveSenders, data, space, spc,
                 receiverVars, groupsLeft>>

\* A lane joins the rotation if it is there, pending and not in it already.
TakeLane ==
  /\ Collecting
  /\ \E l \in lanesLeft :
       /\ lanesLeft' = lanesLeft \ {l}
       /\ IF l \in lanes /\ l \in pending /\ l \notin queued
          THEN active' = Append(active, l) /\ queued' = queued \union {l}
          ELSE UNCHANGED <<active, queued>>
  /\ UNCHANGED <<ringVars, readyVars, liveSenders, data, space, spc, lanes, rpc, key, freed,
                 groupsLeft, pagesLeft>>

\* The front lane leaves the rotation to be polled.  Lane::refill: prefetch
\* once the window is used up.
Poll ==
  /\ active # << >>
  /\ key' = Head(active) /\ active' = Tail(active)
  /\ window' = IF window[key'] = popped[key'] THEN [window EXCEPT ![key'] = tail[key']]
                ELSE window
  /\ rpc' = IF window'[key'] = popped[key'] THEN "settle" ELSE "pop"
  /\ UNCHANGED <<tail, released, popped, producerDropped, consumerDropped, readyVars,
                 liveSenders, data, space, spc, queued, lanes, freed, collectVars>>

\* A receive polls at once, or after it has collected.
StartPoll == rpc = "idle" /\ Poll
PollFront == (rpc = "loop" \/ (Collecting /\ Visited)) /\ Poll

\* release_batch of Lane::new: half a ring, at least the minimum, at most a ring.
Larger(i, j) == IF i < j THEN j ELSE i
Smaller(i, j) == IF i < j THEN i ELSE j
ReleaseBatch == Smaller(Larger((Cap + 1) \div 2, MinReleaseBatch), Cap)

\* Lane::poll pops one value, releases a complete batch, and goes back to the
\* front or, at the end of a burst or a fair receive, to the back.
Pop ==
  /\ rpc = "pop"
  /\ popped' = [popped EXCEPT ![key] = @ + 1]
  /\ IF popped'[key] - released[key] = ReleaseBatch
     THEN released' = [released EXCEPT ![key] = popped'[key]] /\ freed' = key
     ELSE UNCHANGED <<released, freed>>
  /\ active' \in {<<key>> \o active, Append(active, key)}
  /\ rpc' = "return" /\ key' = "none"
  /\ UNCHANGED <<tail, window, producerDropped, consumerDropped, readyVars, liveSenders,
                 data, space, spc, queued, lanes, collectVars>>

\* Lane::settle_empty, one step per access: release what was consumed ...
SettleRelease ==
  /\ rpc = "settle"
  /\ released' = [released EXCEPT ![key] = popped[key]]
  /\ freed' = IF released[key] = popped[key] THEN freed ELSE key
  /\ rpc' = "finishDrain"
  /\ UNCHANGED <<tail, window, popped, producerDropped, consumerDropped, readyVars,
                 liveSenders, data, space, spc, active, queued, lanes, key, collectVars>>

\* ... set the lane IDLE ...
FinishDrain ==
  /\ rpc = "finishDrain"
  /\ pending' = pending \ {key}
  /\ rpc' = "reload"
  /\ UNCHANGED <<ringVars, laneBits, pageBits, liveSenders, data, space, spc, active, queued,
                 lanes, key, freed, collectVars>>

LeaveUnseen ==
  /\ rpc = "reload"
  /\ queued' = queued \ {key} /\ rpc' = "checkProducer"
  /\ UNCHANGED <<ringVars, readyVars, liveSenders, data, space, spc, active, lanes, key,
                 freed, collectVars>>

\* ... and look at the ring again.
Reload ==
  /\ rpc = "reload"
  /\ window' = [window EXCEPT ![key] = tail[key]]
  /\ IF tail[key] = popped[key]
     THEN queued' = queued \ {key} /\ rpc' = "checkProducer"
     ELSE queued' = queued /\ rpc' = "claim"
  /\ UNCHANGED <<tail, released, popped, producerDropped, consumerDropped, readyVars,
                 liveSenders, data, space, spc, active, lanes, key, freed, collectVars>>

\* Released slots end the attempt, so that their sender is notified.
AfterSettle == IF freed = "none" THEN "loop" ELSE "progressed"

\* A lane that has values again stays: claimed back, or claimed by the sender.
Claim ==
  /\ rpc = "claim"
  /\ pending' = pending \union {key}
  /\ active' = Append(active, key)
  /\ rpc' = AfterSettle /\ key' = "none"
  /\ UNCHANGED <<ringVars, laneBits, pageBits, liveSenders, data, space, spc, queued, lanes,
                 freed, collectVars>>

\* Consumer::is_disconnected; then retire_lane.
CheckProducer ==
  /\ rpc = "checkProducer"
  /\ IF key \in producerDropped /\ tail[key] = popped[key]
     THEN lanes' = lanes \ {key} /\ freed' = "none" /\ rpc' = "loop"
     ELSE UNCHANGED <<lanes, freed>> /\ rpc' = AfterSettle
  /\ key' = "none"
  /\ UNCHANGED <<ringVars, readyVars, liveSenders, data, space, spc, active, queued,
                 collectVars>>

DisconnectOnCount ==
  /\ Collecting /\ Visited /\ active = << >>
  /\ rpc' \in IF liveSenders = 0 THEN {"disconnected"}
              ELSE IF data = "out" THEN {"idle", "register"} ELSE {"parked"}
  /\ UNCHANGED <<ringVars, readyVars, liveSenders, data, space, spc, active, queued, lanes,
                 key, freed, collectVars>>

\* Nothing to poll: is_drained tells Disconnected from Empty.  A blocking
\* receive registers after the first Empty and parks after the second.
Empty ==
  /\ Collecting /\ Visited /\ active = << >>
  /\ rpc' \in IF liveSenders = 0 /\ lanes = {} THEN {"disconnected"}
              ELSE IF data = "out" THEN {"idle", "register"} ELSE {"parked"}
  /\ UNCHANGED <<ringVars, readyVars, liveSenders, data, space, spc, active, queued, lanes,
                 key, freed, collectVars>>

RegisterAndPark ==
  /\ rpc = "register"
  /\ data' = "registered"
  /\ rpc' = "parked"
  /\ UNCHANGED <<ringVars, readyVars, liveSenders, space, spc, active, queued, lanes, key,
                 freed, collectVars>>

RegisterData ==
  /\ rpc = "register"
  /\ data' = "registered"
  /\ rpc' = "loop"
  /\ UNCHANGED <<ringVars, readyVars, liveSenders, space, spc, active, queued, lanes, key,
                 freed, collectVars>>

LeaveData(label) ==
  /\ data' = "out"
  /\ rpc' = label
  /\ UNCHANGED <<ringVars, readyVars, liveSenders, space, spc, active, queued, lanes, key,
                 freed, collectVars>>

WakeReceiver == rpc = "parked" /\ data = "notified" /\ LeaveData("loop")
WakeReceiverEarly == rpc = "parked" /\ data = "registered" /\ LeaveData("loop")

\* The registration is dropped before the deferred notification is sent.
DropRegistration == rpc \in {"return", "progressed"} /\ data # "out" /\ LeaveData(rpc)
ReturnDisconnected == rpc = "disconnected" /\ LeaveData("ended")

\* notify_released, and back to the caller or to another attempt.
NotifyReleased ==
  /\ rpc \in {"return", "progressed"} /\ data = "out"
  /\ space' = IF freed = "none" THEN space
              ELSE [space EXCEPT ![freed] = dataToken!Notified(@)]
  /\ freed' = "none"
  /\ rpc' = IF rpc = "return" THEN "idle" ELSE "loop"
  /\ UNCHANGED <<ringVars, readyVars, liveSenders, data, spc, active, queued, lanes, key,
                 collectVars>>

Receive ==
  \/ CollectAgain \/ NextGroup \/ TakePage \/ TakeLane \/ PollFront \/ Pop
  \/ SettleRelease \/ FinishDrain \/ Reload \/ Claim \/ CheckProducer \/ Empty
  \/ RegisterData \/ WakeReceiver \/ DropRegistration \/ ReturnDisconnected \/ NotifyReleased

\* Receiver::drop, lane by lane: return the credit, set consumer_dropped, notify
\* the sender.
StartDrop ==
  /\ rpc = "idle"
  /\ lanesLeft' = lanes
  /\ rpc' = "closing"
  /\ UNCHANGED <<ringVars, readyVars, liveSenders, data, space, spc, active, queued, lanes,
                 key, freed, groupsLeft, pagesLeft>>

CloseLane ==
  /\ rpc = "closing"
  /\ \E l \in lanesLeft :
       /\ released' = [released EXCEPT ![l] = popped[l]]
       /\ key' = l
  /\ rpc' = "closeFlag"
  /\ UNCHANGED <<tail, window, popped, producerDropped, consumerDropped, readyVars,
                 liveSenders, data, space, spc, active, queued, lanes, freed, collectVars>>

CloseFlag ==
  /\ rpc = "closeFlag"
  /\ consumerDropped' = consumerDropped \union {key}
  /\ rpc' = "closed"
  /\ UNCHANGED <<tail, released, window, popped, producerDropped, readyVars, liveSenders,
                 data, space, spc, active, queued, lanes, key, freed, collectVars>>

CloseQuietly ==
  /\ rpc = "closed"
  /\ lanesLeft' = lanesLeft \ {key}
  /\ rpc' = "closing" /\ key' = "none"
  /\ UNCHANGED <<ringVars, readyVars, liveSenders, data, space, spc, active, queued, lanes,
                 freed, groupsLeft, pagesLeft>>

NotifyClosed ==
  /\ rpc = "closed"
  /\ space' = [space EXCEPT ![key] = dataToken!Notified(@)]
  /\ lanesLeft' = lanesLeft \ {key}
  /\ rpc' = "closing" /\ key' = "none"
  /\ UNCHANGED <<ringVars, readyVars, liveSenders, data, spc, active, queued, lanes, freed,
                 groupsLeft, pagesLeft>>

FinishDrop ==
  /\ rpc = "closing" /\ lanesLeft = {}
  /\ rpc' = "ended"
  /\ UNCHANGED <<ringVars, readyVars, liveSenders, data, space, spc, active, queued, lanes,
                 key, freed, collectVars>>

ReceiverDrop == CloseLane \/ CloseFlag \/ NotifyClosed \/ FinishDrop

-----------------------------------------------------------------------------

\* Everybody is gone.
Terminated ==
  /\ rpc = "ended" /\ \A l \in Lanes : spc[l] = "gone"
  /\ UNCHANGED vars

Next ==
  \/ \E l \in Lanes : StartSend(l) \/ Sender(l) \/ WakeSenderEarly(l) \/ Drop(l)
  \/ StartCollect \/ StartPoll \/ Receive \/ WakeReceiverEarly \/ StartDrop \/ ReceiverDrop
  \/ Terminated

Spec == Init /\ [][Next]_vars

\* A thread inside an operation runs on; a sleep ends once it is notified.
OperationFairness ==
  /\ \A l \in Lanes : WF_vars(Sender(l))
  /\ WF_vars(Receive) /\ WF_vars(ReceiverDrop)

\* And the receiver keeps receiving until it is dropped.
FairSpec == Spec /\ OperationFairness /\ WF_vars(StartCollect \/ StartPoll)

-----------------------------------------------------------------------------
(* Properties. *)

Unread(l) == popped[l] < tail[l]

\* A lane the index leads to: its bit is set and its page is marked or taken,
\* or another sender of the page is about to mark it.
Indexed(l) ==
  /\ l \in laneBits
  /\ \/ Page[l] \in pageBits \union pagesLeft
     \/ \E m \in Lanes : Page[m] = Page[l] /\ spc[m] = "group"

\* The lane that is being polled is out of the rotation but still flagged.
Polling == rpc \in {"pop", "settle", "finishDrain", "reload", "claim"}

\* "Each lane appears at most once; its `queued` flag mirrors membership", and
\* the "queued-implies-pending invariant" of settle_empty.
RotationExact ==
  /\ Len(active) = Cardinality(Range(active))
  /\ queued = Range(active) \union (IF Polling THEN {key} ELSE {})
  /\ \A l \in queued : l \in pending \/ (l = key /\ rpc \in {"reload", "claim"})

\* "This handshake prevents a publication from becoming permanently hidden":
\* a lane with unread values is in the rotation, or the index leads to it, or
\* its sender has yet to mark it; and the rotation is what its flags say.
NothingHidden ==
  /\ RotationExact
  /\ ReceiverAlive =>
       \A l \in lanes : Unread(l) =>
         \/ l \in queued \/ Indexed(l) \/ l \in lanesLeft \intersect pending
         \/ spc[l] = "mark" /\ l \notin pending
         \/ spc[l] = "page"

\* A sender that will still notify the receiver.
WillNotify(l) ==
  \/ spc[l] \in {"page", "group", "dropWake", "count", "notify"}
  \/ spc[l] = "mark" /\ (l \notin pending \/ l \in producerDropped)

\* The receiver sleeps un-notified only while there are senders and nothing to
\* receive, or a sender is on its way to notify it.  Neither a publication nor the last
\* drop of a sender is slept through.  And it sleeps on no credit: settle_empty "Releases
\* partial credits first so neither side parks on unpublished slots".
ReceiverNotStranded ==
  rpc = "parked" =>
    /\ \/ data # "registered"
       \/ liveSenders > 0 /\ \A l \in Lanes : ~Unread(l)
       \/ \E l \in Lanes : WillNotify(l)
    /\ \A l \in lanes : released[l] = popped[l]

\* Disconnected is reported after the last value of the last sender.
DisconnectedIsLast ==
  rpc = "disconnected" => \A l \in Lanes : l \in producerDropped /\ ~Unread(l)

\* Every value sent is received, unless the receiver is dropped.
Delivered == \A l \in Lanes : Unread(l) ~> (~Unread(l) \/ ~ReceiverAlive)

\* Every send returns, although it may park, and whoever is dropped meanwhile.
SendReturns == \A l \in Lanes : (spc[l] # "idle") ~> (spc[l] \in {"idle", "gone"})

\* Once every sender is dropped, the receiver gets to see it.
DisconnectSeen == (producerDropped = Lanes) ~> (rpc = "ended")

-----------------------------------------------------------------------------
(* The inductive invariant: what MpscChannelProofs shows of every reachable     *)
(* state.                                                                      *)

Tokens == {"out", "registered", "notified"}
SenderLabels ==
  {"idle", "push", "try", "register", "parked", "mark", "page", "group", "drop", "dropWake",
   "notify", "count", "gone"}
ReceiverLabels ==
  {"idle", "loop", "collectAll", "collectSome", "pop", "return", "settle", "finishDrain",
   "reload", "claim", "checkProducer", "progressed", "register", "parked", "disconnected",
   "ended", "closing", "closeFlag", "closed"}

TypeOK ==
  /\ tail \in [Lanes -> Nat] /\ released \in [Lanes -> Nat]
  /\ window \in [Lanes -> Nat] /\ popped \in [Lanes -> Nat]
  /\ producerDropped \subseteq Lanes /\ consumerDropped \subseteq Lanes
  /\ pending \subseteq Lanes /\ laneBits \subseteq Lanes /\ pageBits \subseteq Pages
  /\ liveSenders \in Int /\ data \in Tokens /\ space \in [Lanes -> Tokens]
  /\ spc \in [Lanes -> SenderLabels]
  /\ active \in Seq(Lanes) /\ queued \subseteq Lanes /\ lanes \subseteq Lanes
  /\ rpc \in ReceiverLabels
  /\ key \in Lanes \union {"none"} /\ freed \in Lanes \union {"none"}
  /\ groupsLeft \subseteq Groups /\ pagesLeft \subseteq Pages /\ lanesLeft \subseteq Lanes

\* Where the receiver is with a scan, a lane or its end.
ReceiverInv ==
  /\ (Polling \/ rpc \in {"checkProducer", "closeFlag", "closed"}) => key \in Lanes
  /\ ~Collecting => /\ groupsLeft = {} /\ pagesLeft = {}
                    /\ ReceiverAlive => lanesLeft = {}
  /\ rpc = "ended" => lanesLeft = {}
  /\ rpc = "collectSome" => active # << >>
  /\ rpc = "parked" => active = << >>
  /\ rpc = "register" => data = "out"
  /\ rpc = "disconnected" => lanes = {}

\* The rotation holds each lane once, and only lanes that are there.
RotationInv ==
  /\ IsInjective(active)
  /\ queued = Range(active) \union (IF Polling THEN {key} ELSE {})
  /\ Polling => key \notin Range(active)
  /\ rpc = "checkProducer" => key \notin queued
  /\ queued \subseteq lanes
  /\ \A l \in queued : l \in pending \/ (l = key /\ rpc \in {"reload", "claim"})

\* The positions of a ring are ordered; a lane out of the rotation holds no credit.
RingInv ==
  /\ \A l \in Lanes : released[l] <= popped[l] /\ popped[l] <= window[l] /\ window[l] <= tail[l]
  /\ rpc = "pop" => popped[key] < window[key]
  /\ rpc \in {"finishDrain", "reload"} => released[key] = popped[key]
  /\ \A l \in lanes \ queued : released[l] = popped[l]

\* A sender is past its drop exactly where its handle is gone, and is counted until then.
SenderInv ==
  /\ \A l \in Lanes :
       /\ spc[l] \in {"idle", "push", "try", "register", "parked", "drop", "dropWake"}
            => l \notin producerDropped
       /\ spc[l] \in {"count", "gone"} => l \in producerDropped
       /\ spc[l] = "register" => space[l] = "out"
Counted == {l \in Lanes : ~(l \in producerDropped /\ spc[l] \in {"notify", "gone"})}
CountInv == liveSenders = Cardinality(Counted)

\* A page with a bit is marked in its group, or taken, or about to be marked.
IndexInv == \A l \in laneBits : Indexed(l)

\* A PENDING lane is in the rotation or on its way into it.  The lane that is about to
\* be looked at again may not count on the rotation: it is about to leave it.
PendingInv ==
  \A l \in lanes \intersect pending :
    \/ l \in queued /\ ~(rpc = "reload" /\ l = key)
    \/ spc[l] = "page" \/ l \in laneBits
    \/ Collecting /\ l \in lanesLeft

\* Values and drops that no signal announces yet: their sender is about to mark.
UnreadInv == \A l \in lanes : Unread(l) => l \in queued \union pending \/ spc[l] = "mark"
DroppedInv ==
  \A l \in lanes \intersect producerDropped :
    \/ l \in queued \union pending \/ spc[l] = "mark"
    \/ rpc = "checkProducer" /\ key = l

RetiredInv == \A l \in Lanes \ lanes : l \in producerDropped /\ ~Unread(l)

\* The scan made between registering and sleeping: a PENDING lane is still ahead of it,
\* unless somebody is on their way to notify.
Ahead(l) ==
  \/ l \in lanesLeft
  \/ l \in laneBits /\ Page[l] \in pagesLeft
  \/ l \in laneBits /\ Page[l] \in pageBits /\ Group[Page[l]] \in groupsLeft
ScanInv ==
  data = "registered" /\ (\A l \in Lanes : ~WillNotify(l)) =>
    /\ rpc \in {"collectAll", "parked"} =>
         \A l \in (lanes \intersect pending) \ queued : Ahead(l)
    /\ rpc = "parked" /\ lanes = {} => liveSenders > 0

IInv ==
  /\ TypeOK /\ ReceiverInv /\ RotationInv /\ RingInv /\ SenderInv /\ CountInv /\ IndexInv
  /\ PendingInv /\ UnreadInv /\ DroppedInv /\ RetiredInv /\ ScanInv
=============================================================================
