---------------------------- MODULE MpscRegistry ----------------------------
(***************************************************************************)
(* Registration of MPSC senders while the channel is in use: a sender is   *)
(* registered through another one, its lane is adopted by the receiver,    *)
(* found through the ready index, retired when its sender is gone or when  *)
(* it is closed by its LaneId, and its slot used again by a later          *)
(* registration.  The receiver may be dropped at any moment.               *)
(*                                                                         *)
(* One lane belongs to one sender, so a lane is named by its sender.  What *)
(* MpscChannel and MpscReceiver are about is reduced here: a ring is the   *)
(* number of its unread values, the receiver prefetches at every poll, may *)
(* poll the index at any time, never blocks and pauses no lane.  A step is *)
(* one access to an atomic cell or one critical section of the registry;   *)
(* the counters that register_sender raises under the lock go up with it,  *)
(* because the registering handle keeps live_senders above zero and the    *)
(* registry generation is only a hint to take the lock.                    *)
(***************************************************************************)
EXTENDS Integers, Sequences, FiniteSets, Functions

CONSTANTS
  Senders,        \* handles, each registered at most once
  First,          \* the sender that the channel is built with
  LanesPerPage,
  PagesPerGroup,
  MaxLanes,       \* the argument of try_register_bounded
  MaxGeneration,  \* the last generation of a slot
  Talkers,        \* bound: senders that send; the others register and are dropped
  MaxSends        \* bound: values each of them sends

ASSUME SendersAssumption == IsFiniteSet(Senders) /\ First \in Senders /\ Talkers \subseteq Senders
ASSUME IndexAssumption == LanesPerPage \in Nat \ {0} /\ PagesPerGroup \in Nat \ {0}
ASSUME LimitsAssumption == {MaxLanes, MaxGeneration, MaxSends} \subseteq Nat /\ MaxLanes > 0

VARIABLES
  pendingLanes,   \* Registry.pending
  free,           \* Registry.free: keys
  nextSlot,       \* Registry.next_slot; pages and groups reach up to it
  news,           \* registry_generation is not the one the receiver has seen
  registered,     \* registered_lanes
  live,           \* live_senders
  alive,          \* receiver_alive
  key,            \* LaneKey of each sender once it is registered
  spc,            \* where each sender is
  parent,         \* the handle a registering sender is registered through
  sent, unread,   \* values sent and values still in the ring
  closed,         \* lanes whose producer is closed
  dropped,        \* lanes whose consumer is closed
  signalled,      \* lanes whose LaneSignal is PENDING
  laneBits,       \* ReadyPage.bits of all pages: slots
  pageBits,       \* ReadyGroup.bits of all groups: pages
  lanes,          \* Receiver.lanes: the lanes in the table
  knownPages,     \* Receiver.pages.len()
  active,         \* Receiver.active: keys
  queued,         \* Lane.queued
  rpc,            \* where the receiver is
  cur,            \* the key it works on
  all, groupsLeft, pagesLeft, slotsLeft  \* collect_ready: its argument, what is left

registryVars == <<pendingLanes, free, nextSlot, news, registered>>
senderVars == <<live, key, spc, parent, sent, closed>>
indexVars == <<signalled, laneBits, pageBits>>
receiverVars == <<alive, lanes, knownPages, active, queued, rpc, cur>>
collectVars == <<all, groupsLeft, pagesLeft, slotsLeft>>
vars == <<registryVars, senderVars, unread, dropped, indexVars, receiverVars, collectVars>>

NoKey == [slot |-> -1, generation |-> -1]
PageOf(slot) == slot \div LanesPerPage
GroupOf(page) == page \div PagesPerGroup

\* build_channel.
Init ==
  /\ pendingLanes = {} /\ free = << >> /\ nextSlot = 1 /\ news = FALSE
  /\ registered = 1 /\ live = 1 /\ alive = TRUE
  /\ key = [s \in Senders |-> IF s = First THEN [slot |-> 0, generation |-> 0] ELSE NoKey]
  /\ spc = [s \in Senders |-> IF s = First THEN "idle" ELSE "unborn"]
  /\ parent = [s \in Senders |-> s]
  /\ sent = [s \in Senders |-> 0] /\ unread = [s \in Senders |-> 0]
  /\ closed = {} /\ dropped = {}
  /\ signalled = {} /\ laneBits = {} /\ pageBits = {}
  /\ lanes = {First} /\ knownPages = 1 /\ active = << >> /\ queued = {}
  /\ rpc = "idle" /\ cur = NoKey
  /\ all = TRUE /\ groupsLeft = {} /\ pagesLeft = {} /\ slotsLeft = {}

-----------------------------------------------------------------------------
(* Registration. *)

Goto(s, label) == spc' = [spc EXCEPT ![s] = label]

\* A handle that is borrowed by a registration neither sends nor is dropped.
Borrowed(s) == \E n \in Senders : spc[n] = "registering" /\ parent[n] = s

\* register_sender before the lock: the receiver is there, there is room, and
\* the ring is allocated.
StartRegister(p, n) ==
  /\ spc[p] = "idle" /\ spc[n] = "unborn"
  /\ alive
  /\ registered < MaxLanes
  /\ Goto(n, "registering")
  /\ parent' = [parent EXCEPT ![n] = p]
  /\ UNCHANGED <<registryVars, live, key, sent, closed, unread, dropped, indexVars,
                 receiverVars, collectVars>>

\* Registry::allocate_lane: the slot freed last, or a new one.
Allocated == IF free = << >> THEN [slot |-> nextSlot, generation |-> 0] ELSE free[Len(free)]

Attach(n) ==
  /\ spc[n] = "registering"
  /\ key' = [key EXCEPT ![n] = Allocated]
  /\ free' = IF free = << >> THEN free ELSE SubSeq(free, 1, Len(free) - 1)
  /\ nextSlot' = IF free = << >> THEN nextSlot + 1 ELSE nextSlot
  /\ pendingLanes' = pendingLanes \union {n}
  /\ registered' = registered + 1
  /\ live' = live + 1
  /\ news' = TRUE
  /\ Goto(n, "idle")
  /\ parent' = [parent EXCEPT ![n] = n]
  /\ UNCHANGED <<sent, closed, unread, dropped, indexVars, receiverVars, collectVars>>

\* Mutant: what was checked before the lock is not checked again.
RegisterUnchecked(n) == Attach(n)

\* register_sender under the lock.
Register(n) == alive /\ registered < MaxLanes /\ Attach(n)

RegisterFails(n) ==
  /\ spc[n] = "registering"
  /\ ~alive \/ registered >= MaxLanes
  /\ Goto(n, "unborn")
  /\ parent' = [parent EXCEPT ![n] = n]
  /\ UNCHANGED <<registryVars, live, key, sent, closed, unread, dropped, indexVars,
                 receiverVars, collectVars>>

-----------------------------------------------------------------------------
(* A sender. *)

\* try_send on a lane that is open, up to the flush.
Send(s) ==
  /\ spc[s] = "idle" /\ ~Borrowed(s)
  /\ s \notin dropped
  /\ s \in Talkers /\ sent[s] < MaxSends
  /\ sent' = [sent EXCEPT ![s] = @ + 1]
  /\ unread' = [unread EXCEPT ![s] = @ + 1]
  /\ Goto(s, "mark")
  /\ UNCHANGED <<registryVars, live, key, parent, closed, dropped, indexVars, receiverVars,
                 collectVars>>

\* Sender::drop: the producer is closed, the lane marked, the count lowered.
Drop(s) ==
  /\ spc[s] = "idle" /\ ~Borrowed(s)
  /\ closed' = closed \union {s}
  /\ Goto(s, "mark")
  /\ UNCHANGED <<registryVars, live, key, parent, sent, unread, dropped, indexVars,
                 receiverVars, collectVars>>

\* After the mark a send is over; drop still lowers live_senders.
EndMark(s) ==
  /\ Goto(s, IF s \in closed THEN "gone" ELSE "idle")
  /\ live' = IF s \in closed THEN live - 1 ELSE live
GoOn(s, label) == Goto(s, label) /\ UNCHANGED live

Mark(s) ==
  /\ spc[s] = "mark"
  /\ signalled' = signalled \union {s}
  /\ IF s \in signalled THEN EndMark(s) ELSE GoOn(s, "page")
  /\ UNCHANGED <<registryVars, key, parent, sent, closed, unread, dropped, laneBits,
                 pageBits, receiverVars, collectVars>>

MarkPage(s) ==
  /\ spc[s] = "page"
  /\ laneBits' = laneBits \union {key[s].slot}
  /\ IF \E b \in laneBits : PageOf(b) = PageOf(key[s].slot)
     THEN EndMark(s) ELSE GoOn(s, "group")
  /\ UNCHANGED <<registryVars, key, parent, sent, closed, unread, dropped, signalled,
                 pageBits, receiverVars, collectVars>>

MarkGroup(s) ==
  /\ spc[s] = "group"
  /\ pageBits' = pageBits \union {PageOf(key[s].slot)}
  /\ EndMark(s)
  /\ UNCHANGED <<registryVars, key, parent, sent, closed, unread, dropped, signalled,
                 laneBits, receiverVars, collectVars>>

-----------------------------------------------------------------------------
(* The receiver finds lanes. *)

RGoto(label) == rpc' = label
Pages(n) == IF n = 0 THEN 0 ELSE PageOf(n - 1) + 1

\* refresh_registry: adopt what is pending and learn of the pages.
Adopted == IF news THEN lanes \union pendingLanes ELSE lanes
Refresh ==
  /\ pendingLanes' = IF news THEN {} ELSE pendingLanes
  /\ knownPages' = IF news THEN Pages(nextSlot) ELSE knownPages
  /\ news' = FALSE

refreshKeeps == <<free, nextSlot, registered, senderVars, unread, dropped, signalled, laneBits,
                  alive, active, queued>>

\* The lane a key names in the table, if it is still that lane.
Lane(k) == {l \in lanes : key[l] = k}

\* collect_ready begins, when the rotation is empty or the budget is used up.
StartCollect ==
  /\ rpc = "idle" /\ alive
  /\ Refresh /\ lanes' = Adopted
  /\ all' = (active = << >>)
  /\ groupsLeft' = {GroupOf(p) : p \in 0..(knownPages' - 1)}
  /\ RGoto("collect")
  /\ UNCHANGED <<refreshKeeps, pageBits, cur, pagesLeft, slotsLeft>>

TakeGroup ==
  /\ rpc = "collect" /\ slotsLeft = {} /\ pagesLeft = {}
  /\ \E g \in groupsLeft :
       /\ pagesLeft' = {p \in pageBits : GroupOf(p) = g}
       /\ groupsLeft' = IF all \/ pagesLeft' = {} THEN groupsLeft \ {g} ELSE {}
  /\ pageBits' = pageBits \ pagesLeft'
  /\ UNCHANGED <<registryVars, senderVars, unread, dropped, signalled, laneBits, receiverVars,
                 all, slotsLeft>>

\* A new page can publish after its group bit was claimed ...
RefreshPages ==
  /\ rpc = "collect" /\ slotsLeft = {} /\ pagesLeft # {}
  /\ Refresh /\ lanes' = Adopted
  /\ RGoto("page")
  /\ UNCHANGED <<refreshKeeps, pageBits, cur, collectVars>>

\* ... and ReadyPage::take; a page that is not known is passed over ...
TakePage ==
  /\ rpc = "page"
  /\ \E p \in pagesLeft :
       /\ pagesLeft' = pagesLeft \ {p}
       /\ slotsLeft' = IF p < knownPages THEN {b \in laneBits : PageOf(b) = p} ELSE {}
       /\ laneBits' = laneBits \ slotsLeft'
       /\ RGoto(IF p < knownPages THEN "lanes" ELSE "collect")
  /\ UNCHANGED <<registryVars, senderVars, unread, dropped, signalled, pageBits, alive, lanes,
                 knownPages, active, queued, cur, all, groupsLeft>>

\* Mutant: the registry is not read again after the page was taken.
RefreshNoLanes ==
  /\ rpc = "lanes"
  /\ RGoto("collect")
  /\ UNCHANGED <<registryVars, lanes, knownPages, senderVars, unread, dropped, signalled,
                 laneBits, alive, active, queued, pageBits, cur, collectVars>>

\* ... as a new lane can publish after its page bit was claimed.
RefreshLanes ==
  /\ rpc = "lanes"
  /\ Refresh /\ lanes' = Adopted
  /\ RGoto("collect")
  /\ UNCHANGED <<refreshKeeps, pageBits, cur, collectVars>>

TakeLane ==
  /\ rpc = "collect"
  /\ \E b \in slotsLeft :
       /\ slotsLeft' = slotsLeft \ {b}
       /\ LET found == {l \in lanes : key[l].slot = b /\ l \in signalled /\ l \notin queued}
          IN  /\ queued' = queued \union found
              /\ active' = IF found = {} THEN active
                           ELSE Append(active, key[CHOOSE l \in found : TRUE])
  /\ UNCHANGED <<registryVars, senderVars, unread, dropped, indexVars, alive, lanes, knownPages,
                 rpc, cur, all, groupsLeft, pagesLeft>>

EndCollect ==
  /\ rpc = "collect" /\ slotsLeft = {} /\ pagesLeft = {} /\ groupsLeft = {}
  /\ RGoto("idle")
  /\ UNCHANGED <<registryVars, senderVars, unread, dropped, indexVars, alive, lanes, knownPages,
                 active, queued, cur, collectVars>>

-----------------------------------------------------------------------------
(* The receiver serves and retires lanes. *)

\* The front of the rotation is polled: a value, or empty.  Its key is never
\* stale: RegistryExact.
PollValue ==
  /\ rpc = "idle" /\ alive /\ active # << >>
  /\ \E l \in Lane(Head(active)) : unread[l] > 0 /\ unread' = [unread EXCEPT ![l] = @ - 1]
  /\ active' \in {active, Append(Tail(active), Head(active))}
  /\ UNCHANGED <<registryVars, senderVars, dropped, indexVars, alive, lanes, knownPages, queued,
                 rpc, cur, collectVars>>

\* settle_empty sets the lane IDLE ...
PollEmpty ==
  /\ rpc = "idle" /\ alive /\ active # << >>
  /\ \E l \in Lane(Head(active)) : unread[l] = 0 /\ signalled' = signalled \ {l}
  /\ cur' = Head(active) /\ active' = Tail(active)
  /\ RGoto("settle")
  /\ UNCHANGED <<registryVars, senderVars, unread, dropped, laneBits, pageBits, alive, lanes,
                 knownPages, queued, collectVars>>

\* ... and looks again: a value came, or the lane leaves the rotation ...
SettleKeep ==
  /\ rpc = "settle"
  /\ \E l \in Lane(cur) : unread[l] > 0 /\ signalled' = signalled \union {l}
  /\ active' = Append(active, cur) /\ cur' = NoKey
  /\ RGoto("idle")
  /\ UNCHANGED <<registryVars, senderVars, unread, dropped, laneBits, pageBits, alive, lanes,
                 knownPages, queued, collectVars>>

SettleIdle ==
  /\ rpc = "settle"
  /\ \E l \in Lane(cur) : unread[l] = 0 /\ l \notin closed /\ queued' = queued \ {l}
  /\ cur' = NoKey
  /\ RGoto("idle")
  /\ UNCHANGED <<registryVars, senderVars, unread, dropped, indexVars, alive, lanes, knownPages,
                 active, collectVars>>

\* retire_lane up to the lock: the lanes in gone leave the table and the count.
Retire(table, gone) ==
  /\ lanes' = table \ gone
  /\ queued' = queued \ gone
  /\ registered' = registered - Cardinality(gone)
  /\ RGoto(IF gone = {} THEN "idle" ELSE "free")

\* ... or is retired, its sender being gone.
SettleRetire ==
  /\ rpc = "settle"
  /\ \E l \in Lane(cur) : unread[l] = 0 /\ l \in closed /\ Retire(lanes, {l})
  /\ UNCHANGED <<pendingLanes, free, nextSlot, news, senderVars, unread, dropped, indexVars,
                 alive, knownPages, active, cur, collectVars>>

\* Mutant: the slot is handed on with its generation.
FreeSameKey ==
  /\ rpc = "free"
  /\ free' = Append(free, cur)
  /\ dropped' = dropped \union {l \in Senders : key[l] = cur}
  /\ cur' = NoKey
  /\ RGoto("idle")
  /\ UNCHANGED <<pendingLanes, nextSlot, news, registered, senderVars, unread, indexVars, alive, lanes,
                 knownPages, active, queued, collectVars>>

\* Registry::retire_lane: the slot is free under its next generation, if there is
\* one.  Then the Lane goes, with its consumer.
FreeSlot ==
  /\ rpc = "free"
  /\ free' = IF cur.generation < MaxGeneration
             THEN Append(free, [cur EXCEPT !.generation = @ + 1]) ELSE free
  /\ dropped' = dropped \union {l \in Senders : key[l] = cur}
  /\ cur' = NoKey
  /\ RGoto("idle")
  /\ UNCHANGED <<pendingLanes, nextSlot, news, registered, senderVars, unread, indexVars, alive, lanes,
                 knownPages, active, queued, collectVars>>

\* retain, of the other keys of a rotation that holds this one at most once (RotationInv).
Retained(q, k) ==
  LET at == CHOOSE i \in DOMAIN q : q[i] = k
  IN  IF k \in Range(q) THEN SubSeq(q, 1, at - 1) \o SubSeq(q, at + 1, Len(q)) ELSE q

\* close_lane with the LaneId of any sender, of the past or present: lane_mut
\* refreshes and finds the lane or none.
CloseLane(s) ==
  /\ rpc = "idle" /\ alive
  /\ key[s] # NoKey
  /\ Refresh
  /\ LET found == {l \in Adopted : key[l] = key[s]}
     IN  /\ dropped' = dropped \union found
         /\ active' = IF found = {} THEN active ELSE Retained(active, key[s])
         /\ Retire(Adopted, found)
         /\ cur' = IF found = {} THEN NoKey ELSE key[s]
  /\ UNCHANGED <<free, nextSlot, senderVars, unread, indexVars, alive, collectVars>>

-----------------------------------------------------------------------------
(* The receiver is dropped. *)

StartDrop ==
  /\ rpc = "idle" /\ alive
  /\ alive' = FALSE
  /\ RGoto("close")
  /\ UNCHANGED <<registryVars, senderVars, unread, dropped, indexVars, lanes, knownPages, active,
                 queued, cur, collectVars>>

CloseAdopted ==
  /\ rpc = "close"
  /\ dropped' = dropped \union lanes
  /\ RGoto("closePending")
  /\ UNCHANGED <<registryVars, senderVars, unread, indexVars, alive, lanes, knownPages, active,
                 queued, cur, collectVars>>

ClosePending ==
  /\ rpc = "closePending"
  /\ dropped' = dropped \union pendingLanes
  /\ pendingLanes' = {}
  /\ RGoto("gone")
  /\ UNCHANGED <<free, nextSlot, news, registered, senderVars, unread, indexVars, alive, lanes,
                 knownPages, active, queued, cur, collectVars>>

-----------------------------------------------------------------------------

Sender(s) ==
  \/ \E n \in Senders : StartRegister(s, n)
  \/ Register(s) \/ RegisterFails(s) \/ Send(s) \/ Drop(s)
  \/ Mark(s) \/ MarkPage(s) \/ MarkGroup(s)

Receiver ==
  \/ StartCollect \/ TakeGroup \/ RefreshPages \/ TakePage \/ RefreshLanes \/ TakeLane
  \/ EndCollect \/ PollValue \/ PollEmpty \/ SettleKeep \/ SettleIdle
  \/ SettleRetire \/ FreeSlot \/ \E s \in Senders : CloseLane(s)
  \/ StartDrop \/ CloseAdopted \/ ClosePending

Next == Receiver \/ \E s \in Senders : Sender(s)

Spec == Init /\ [][Next]_vars

-----------------------------------------------------------------------------

\* The lanes that are registered and not retired, and the handles that are open.
Attached == lanes \union pendingLanes
Open == {s \in Senders : key[s] # NoKey /\ spc[s] # "gone"}

\* Where a publication of lane l can still be found: on its way into the index,
\* in the index, in the hands of collect_ready, or in the rotation.
Indexing(l) == spc[l] \in {"mark", "page"}
Indexed(l) ==
  /\ key[l].slot \in laneBits
  /\ LET page == PageOf(key[l].slot)
     IN  \/ page \in pageBits \union pagesLeft
         \/ \E s \in Senders : spc[s] = "group" /\ PageOf(key[s].slot) = page
Found(l) ==
  \/ key[l].slot \in slotsLeft
  \/ key[l] \in Range(active) \union {cur}

\* Registration, slot reuse and late marks of earlier owners of a slot hide no
\* lane: while the receiver lives, a lane with a value or without its sender can
\* be found, and what the rotation names is in the table (collect_ready, the
\* refreshes between its claims, settle_empty; LanePoll::Stale is not taken).
NoLaneHidden ==
  alive => /\ \A l \in Attached :
                 unread[l] > 0 \/ l \in closed => Indexing(l) \/ Indexed(l) \/ Found(l)
           /\ \A k \in Range(active) : Lane(k) # {}

\* No registration escapes the drop of the receiver: once drop has returned, the
\* ring of every sender that was ever registered is closed (the locked check of
\* receiver_alive in register_sender, Receiver::drop).
NoOrphanLane ==
  rpc = "gone" => \A s \in Senders : key[s] # NoKey => s \in dropped

\* The registry is exact: no LaneId ever names two lanes, no slot holds two (the
\* debug_assert of refresh_registry), registered_lanes counts the lanes and is
\* within the bound, live_senders counts the handles.
RegistryExact ==
  /\ \A a, b \in Senders : key[a] = key[b] /\ key[a] # NoKey => a = b
  /\ \A a, b \in Attached : key[a].slot = key[b].slot => a = b
  /\ rpc # "gone" => registered = Cardinality(Attached)
  /\ registered <= MaxLanes
  /\ live = Cardinality(Open)

-----------------------------------------------------------------------------
(* The inductive invariant of RegistryExact and NoOrphanLane. *)

Keys == [slot : Nat, generation : Nat]

TypeOK ==
  /\ pendingLanes \subseteq Senders /\ lanes \subseteq Senders /\ dropped \subseteq Senders
  /\ free \in Seq(Keys)
  /\ nextSlot \in Nat /\ registered \in Int /\ live \in Int
  /\ key \in [Senders -> Keys \union {NoKey}]
  /\ spc \in [Senders -> {"unborn", "registering", "idle", "mark", "page", "group", "gone"}]
  /\ \A s \in Senders : key[s] = NoKey <=> spc[s] \in {"unborn", "registering"}

\* Where a slot is: in the table or pending, on its way to the free list, or in it.
Leaving == IF rpc = "free" THEN {cur} ELSE {}
Taken == {key[l] : l \in Attached} \union Leaving

SlotsInv ==
  /\ lanes \intersect pendingLanes = {}
  /\ \A l \in Attached : key[l] # NoKey
  /\ Leaving \subseteq Keys
  /\ \A a, b \in Attached : key[a].slot = key[b].slot => a = b
  /\ \A k \in Leaving, l \in Attached : key[l].slot # k.slot
  /\ \A i \in DOMAIN free, k \in Taken : free[i].slot # k.slot
  /\ \A i, j \in DOMAIN free : free[i].slot = free[j].slot => i = j

\* A lane holds the newest key of its slot, a free key is newer than any lane's.
KeysInv ==
  /\ \A k \in Taken : k.slot < nextSlot
  /\ \A i \in DOMAIN free : free[i].slot < nextSlot
  /\ \A s \in Senders : key[s] # NoKey =>
       /\ key[s].slot < nextSlot
       /\ \A k \in Taken : k.slot = key[s].slot => key[s].generation <= k.generation
       /\ \A i \in DOMAIN free :
            free[i].slot = key[s].slot => key[s].generation < free[i].generation

DropInv ==
  /\ alive <=> rpc \notin {"close", "closePending", "gone"}
  /\ \A s \in Senders : key[s] # NoKey => s \in dropped \union Attached \/ key[s] \in Leaving
  /\ rpc \in {"closePending", "gone"} => lanes \subseteq dropped
  /\ rpc = "gone" => pendingLanes = {}

IInv == TypeOK /\ SlotsInv /\ KeysInv /\ DropInv /\ RegistryExact

-----------------------------------------------------------------------------
(* What it takes besides for NoLaneHidden. *)

FindTypeOK ==
  /\ unread \in [Senders -> Nat] /\ active \in Seq(Keys)
  /\ closed \subseteq Senders /\ signalled \subseteq Senders
  /\ rpc \in {"idle", "collect", "page", "lanes", "settle", "free", "close", "closePending",
              "gone"}
  /\ \A s \in Senders : key[s] = NoKey => unread[s] = 0 /\ s \notin closed \union signalled

\* The rotation names each queued lane of the table once, but for the one that
\* settle_empty has in its hands.
Settling(k) == rpc = "settle" /\ cur = k
RotationInv ==
  /\ queued \subseteq lanes
  /\ IsInjective(active)
  /\ Range(active) \subseteq {key[l] : l \in queued}
  /\ \A l \in queued : key[l] \in Range(active) <=> ~Settling(key[l])
  /\ rpc = "settle" => \E l \in queued : key[l] = cur

\* With no news no lane waits for adoption and no page is unknown; a page that
\* somebody marked or claimed exists, and is known by the time it is taken.
RefreshInv ==
  /\ news \/ (pendingLanes = {} /\ knownPages = Pages(nextSlot))
  /\ nextSlot > 0
  /\ \A p \in pageBits \union pagesLeft : p \in Nat /\ p < Pages(nextSlot)
  /\ rpc = "page" => slotsLeft = {} /\ \A p \in pagesLeft : p < knownPages
  /\ rpc \notin {"collect", "page", "lanes"} => slotsLeft = {} /\ pagesLeft = {}

\* A page with bits has its own or is about to get it, or collect_ready has claimed it.
PageShown(page) ==
  \/ page \in pageBits \union pagesLeft
  \/ \E s \in Senders : spc[s] = "group" /\ PageOf(key[s].slot) = page
IndexInv == \A b \in laneBits : PageShown(PageOf(b))

\* A PENDING lane is about to get its bit, has it, had it claimed in time for its
\* adoption, or is in the rotation; a lane with news is PENDING, about to be, or is
\* being looked at again.
SignalShown(l) ==
  \/ spc[l] = "page"
  \/ key[l].slot \in laneBits
  \/ key[l].slot \in slotsLeft /\ (l \in lanes \/ rpc = "lanes")
  \/ key[l] \in Range(active)
SignalInv ==
  \A l \in Attached :
    /\ l \in signalled => SignalShown(l)
    /\ unread[l] > 0 \/ l \in closed => l \in signalled \/ spc[l] = "mark" \/ Settling(key[l])

FindInv == FindTypeOK /\ RotationInv /\ RefreshInv /\ IndexInv /\ SignalInv
=============================================================================
