----------------------------- MODULE RingMemory -----------------------------
(***************************************************************************)
(* What the two halves of a yring ring share when they wait for each other *)
(* (YRingHints, YRingAsync), under the weak ordering the code is written   *)
(* for.  Each shared cursor and flag has one writer, is stored with        *)
(* Release and loaded with Acquire.  A load may therefore return an old    *)
(* value; the thread then knows all its peer had stored when it stored     *)
(* that value, and never again loads something older.  So what a thread    *)
(* knows of its peer is one moment in the sequence of the peer's stores.   *)
(* The cells both threads write are only exchanged, or stored by the       *)
(* thread that goes on to wake: an exchange meets the last value of its    *)
(* cell, and what that value's writer had stored.                          *)
(***************************************************************************)
EXTENDS Integers, Sequences, SequencesExt

CONSTANTS
  Cap,          \* slots in the ring
  MaxPushes     \* bound: values pushed

ASSUME CapAssumption == Cap \in Nat \ {0}
ASSUME PushesAssumption == MaxPushes \in Nat

VARIABLES
  flavour,      \* the constructor of the halves: "hints" for spsc,
                \* "async" for async_spsc
  cursor,       \* Producer.cursor
  cachedHead,   \* Producer.cached_head
  chead,        \* Consumer.head
  cachedTail,   \* Consumer.cached_tail
  stores,       \* the shared cells each side writes: what they have held,
                \* from the moment its peer knows of up to now
  waiting,      \* Waiter.waiting of each side
  signal,       \* the wake-up each side has not taken yet: {} or what the
                \* waker had stored
  pc,           \* where each side is in its operation
  op            \* which operation that is

ringVars == <<cursor, cachedHead, chead, cachedTail>>

Sides == {"prod", "cons"}
Peer(s) == IF s = "prod" THEN "cons" ELSE "prod"

-----------------------------------------------------------------------------
(* Shared memory. *)

\* The cells a side writes: Ring.tail or Ring.head; enabled of its peer's
\* Waiter; armed of its own; producer_dropped or consumer_dropped.
Fresh == [cursor |-> 0, enabled |-> FALSE, armed |-> FALSE, dropped |-> FALSE]

Now(s) == Last(stores[s])
Known(s) == Head(stores[s])

\* A store of value into the cell named f, by the side whose stores are given.
Storing(past, f, value) ==
  IF Last(past)[f] = value THEN past ELSE Append(past, [Last(past) EXCEPT ![f] = value])

\* The outcomes of a load of cell f: the stores as they remain to be known.
Loads(past, f) ==
  {SubSeq(past, i, Len(past)) :
     i \in {j \in 1..Len(past) : j = 1 \/ past[j][f] # past[j - 1][f]}}

\* The stores that remain to be known after meeting a moment.
From(past, moment) ==
  LET at == {i \in 1..Len(past) : past[i] = moment}
  IN  IF at = {} THEN past ELSE SubSeq(past, CHOOSE i \in at : TRUE, Len(past))

\* The memory once side s has done its stores and come to know of its peer's.
Memory(s, own, peers) == stores' = [x \in Sides |-> IF x = s THEN own ELSE peers]

\* A cell that both sides write: its value, the side that wrote it last and
\* what that side had stored by then.
Written(b, s, own) == [set |-> b, by |-> s, had |-> Last(own)]

\* What side s has not met of its peer's stores after an exchange with the cell.
Met(cell, s, peers) == IF cell.by = s THEN peers ELSE From(peers, cell.had)

-----------------------------------------------------------------------------

RingInit ==
  /\ cursor = 0 /\ cachedHead = 0 /\ chead = 0 /\ cachedTail = 0
  /\ stores = [s \in Sides |-> <<Fresh>>]
  /\ waiting = [s \in Sides |-> Written(FALSE, s, <<Fresh>>)]
  /\ signal = [s \in Sides |-> {}]
  /\ pc = [s \in Sides |-> "idle"]
  /\ op = [s \in Sides |-> "none"]

At(s, place) == pc' = [pc EXCEPT ![s] = place]
Doing(s, o) == op' = [op EXCEPT ![s] = o]

HasRoom(h) == cursor - h < Cap

\* push and is_full load the head only when the cached copy leaves no room.
HeadLoads ==
  IF HasRoom(cachedHead) THEN {stores["cons"]} ELSE Loads(stores["cons"], "cursor")
HeadRead(past) == IF HasRoom(cachedHead) THEN cachedHead ELSE Head(past).cursor

Wakening(s) == [signal EXCEPT ![s] = {Now(Peer(s))}]

\* A side that takes its signal knows what the waker had stored.
Wakened(s) ==
  /\ signal[s] # {}
  /\ signal' = [signal EXCEPT ![s] = {}]
  /\ Memory(s, stores[s], From(stores[Peer(s)], CHOOSE m \in signal[s] : TRUE))

-----------------------------------------------------------------------------
(* What a sleeping side waits for. *)

Wanted(s) ==
  \/ Now(Peer(s)).dropped
  \/ s = "cons" /\ Now("prod").cursor # chead
  \/ s = "prod" /\ HasRoom(Now("cons").cursor)

\* Side s sleeps and nobody is about to wake it.
LeftAsleep(s) ==
  /\ pc[s] = "asleep"
  /\ signal[s] = {}
  /\ pc[Peer(s)] \in {"idle", "asleep", "gone"}

\* No wake-up is lost, however stale the loads were on either side: once its peer
\* has finished its call, a side that found nothing and sleeps without a signal
\* has nothing to wake for.  With hints, before and after they were first used,
\* the exchanges of Waiter::register and Waiter::take and the second look see to
\* it; with wakers, the consumer's covers every flush and the producer's drop, the
\* producer's every release that frees a slot and the consumer's drop.
NoWakeLost == \A s \in Sides : LeftAsleep(s) => ~Wanted(s)
=============================================================================
