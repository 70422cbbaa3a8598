------------------------------- MODULE YRing -------------------------------
(***************************************************************************)
(* The yring single-producer single-consumer ring: free-running cursors    *)
(* that wrap at the width of usize, a private cursor and a cached copy of  *)
(* the peer's cursor on each side, batched publication (flush), batched    *)
(* credit return (release), closing of either half and the final drop.     *)
(*                                                                         *)
(* One action is one operation of Producer, Consumer or Ring.  Every       *)
(* operation makes at most one access to a cell that the other thread      *)
(* writes, so operations are atomic, except the ones that make two: the    *)
(* two closes and is_disconnected, which are two actions each.  Methods    *)
(* that only call two others in a row (push_and_flush, prefetch_and_pop)   *)
(* are those two actions in a row.                                         *)
(*                                                                         *)
(* No endpoint uses a wake-up hint here, as none does in fanring: the      *)
(* waiters are never enabled, so Waiter::register returns false at once    *)
(* and push, is_full and prefetch do not retry.                            *)
(***************************************************************************)
EXTENDS Integers, Sequences

CONSTANTS
  Values,       \* what is sent
  Uninit,       \* the content of a slot that holds no value
  Cap,          \* slots in the ring, after rounding
  CursorRange   \* number of usize values; cursors are 0..CursorRange-1

ASSUME CapAssumption == Cap \in Nat \ {0}

\* Ring::new: the capacity is a power of two of at most half the cursor range,
\* so it divides the range.
ASSUME RangeAssumption ==
  /\ CursorRange \in Nat \ {0}
  /\ Cap <= (CursorRange - 1) \div 2
  /\ CursorRange % Cap = 0

ASSUME UninitAssumption == Uninit \notin Values

VARIABLES
  buf,          \* Ring.buf
  head,         \* Ring.head: read position published to the producer
  tail,         \* Ring.tail: write position published to the consumer
  cursor,       \* Producer.cursor
  cachedHead,   \* Producer.cached_head
  chead,        \* Consumer.head
  cachedTail,   \* Consumer.cached_tail
  prod,         \* "open", "closing" (flushed, flag not yet set), "closed"
  cons,         \* "open", "checking" (is_disconnected between its two loads),
                \* "closing", "closed"
  dropped,      \* Ring::drop has run
  out,          \* values returned by the last receive
  disconnected  \* is_disconnected has returned true

prodVars == <<cursor, cachedHead, prod>>
consVars == <<chead, cachedTail, cons, out, disconnected>>
vars == <<buf, head, tail, cursor, cachedHead, chead, cachedTail, prod, cons,
          dropped, out, disconnected>>

Cursors == 0..(CursorRange - 1)
Slots == 0..(Cap - 1)

-----------------------------------------------------------------------------
(* Cursor arithmetic. *)

Distance(from, to) == (from - to) % CursorRange
WrappingAdd(c, n) == (c + n) % CursorRange
Index(c) == c % Cap

\* The k values stored from cursor c on, in cursor order.
Window(c, k) == [i \in 1..k |-> buf[Index(WrappingAdd(c, i - 1))]]

Least(a, b) == IF a <= b THEN a ELSE b

-----------------------------------------------------------------------------

Init ==
  /\ buf = [s \in Slots |-> Uninit]
  /\ head = 0
  /\ tail = 0
  /\ cursor = 0
  /\ cachedHead = 0
  /\ chead = 0
  /\ cachedTail = 0
  /\ prod = "open"
  /\ cons = "open"
  /\ dropped = FALSE
  /\ out = <<>>
  /\ disconnected = FALSE

-----------------------------------------------------------------------------
(* Producer. *)

HasRoom(h) == Distance(cursor, h) < Cap

\* Mutant: the cursor is advanced before the slot is chosen.
AdvanceThenWrite(v) ==
  /\ buf' = [buf EXCEPT ![Index(WrappingAdd(cursor, 1))] = v]
  /\ cursor' = WrappingAdd(cursor, 1)

WriteSlot(v) ==
  /\ buf' = [buf EXCEPT ![Index(cursor)] = v]
  /\ cursor' = WrappingAdd(cursor, 1)

\* The head is loaded only when the cached copy leaves no room.
RefreshedHead == IF HasRoom(cachedHead) THEN cachedHead ELSE head

Push(v) ==
  /\ prod = "open"
  /\ cachedHead' = RefreshedHead
  /\ HasRoom(RefreshedHead)
  /\ WriteSlot(v)
  /\ UNCHANGED <<head, tail, prod, consVars, dropped>>

\* push and is_full on a ring without room: both only refresh the cache.
FindFull ==
  /\ prod = "open"
  /\ cachedHead' = RefreshedHead
  /\ ~HasRoom(RefreshedHead)
  /\ UNCHANGED <<buf, head, tail, cursor, prod, consVars, dropped>>

\* is_full on a ring that has room.
FindRoom ==
  /\ prod = "open"
  /\ cachedHead' = RefreshedHead
  /\ HasRoom(RefreshedHead)
  /\ UNCHANGED <<buf, head, tail, cursor, prod, consVars, dropped>>

Flush ==
  /\ prod = "open"
  /\ tail' = cursor
  /\ UNCHANGED <<buf, head, prodVars, consVars, dropped>>

\* Mutant: closing does not publish what is only pushed.
CloseWithoutFlush ==
  /\ prod = "open"
  /\ prod' = "closing"
  /\ UNCHANGED <<buf, head, tail, cursor, cachedHead, consVars, dropped>>

ProducerClose ==
  /\ prod = "open"
  /\ tail' = cursor
  /\ prod' = "closing"
  /\ UNCHANGED <<buf, head, cursor, cachedHead, consVars, dropped>>

ProducerDropped ==
  /\ prod = "closing"
  /\ prod' = "closed"
  /\ UNCHANGED <<buf, head, tail, cursor, cachedHead, consVars, dropped>>

-----------------------------------------------------------------------------
(* Consumer. *)

Prefetch ==
  /\ cons = "open"
  /\ cachedTail' = tail
  /\ UNCHANGED <<buf, head, tail, prodVars, chead, cons, out, disconnected, dropped>>

\* Values moved out of a slot leave it uninitialised.
Emptied(c, k) ==
  [s \in Slots |-> IF \E i \in 0..(k - 1) : s = Index(WrappingAdd(c, i))
                   THEN Uninit ELSE buf[s]]

Pop ==
  /\ cons = "open"
  /\ chead # cachedTail
  /\ out' = <<buf[Index(chead)]>>
  /\ buf' = [buf EXCEPT ![Index(chead)] = Uninit]
  /\ chead' = WrappingAdd(chead, 1)
  /\ UNCHANGED <<head, tail, prodVars, cachedTail, cons, disconnected, dropped>>

\* Mutant: the second copy goes on behind the first instead of at slot 0.
SegmentsWithoutWrap(count) ==
  LET start == Index(chead)
      first == Least(count, Cap - start)
  IN  [i \in 1..first |-> buf[start + i - 1]]
        \o [i \in 1..(count - first) |-> buf[Cap - i]]

\* Two contiguous copies: up to the end of the buffer, then from its start.
MovedSegments(count) ==
  LET start == Index(chead)
      first == Least(count, Cap - start)
  IN  [i \in 1..first |-> buf[start + i - 1]]
        \o [i \in 1..(count - first) |-> buf[i - 1]]

MoveOut(count) ==
  /\ out' = MovedSegments(count)
  /\ buf' = Emptied(chead, count)
  /\ chead' = WrappingAdd(chead, count)
  /\ UNCHANGED <<head, tail, prodVars, cachedTail, cons, disconnected, dropped>>

PopInto(limit) ==
  /\ cons = "open"
  /\ MoveOut(Least(Distance(cachedTail, chead), limit))

\* The longest prefix of the next `window' values that the caller admits.
IsAcceptedPrefix(accepted, window, admitted) ==
  /\ \A i \in 1..accepted : buf[Index(WrappingAdd(chead, i - 1))] \in admitted
  /\ accepted < window => buf[Index(WrappingAdd(chead, accepted))] \notin admitted

PopIntoWhile(limit, admitted) ==
  /\ cons = "open"
  /\ LET window == Least(Distance(cachedTail, chead), limit)
     IN  \E accepted \in 0..window :
           /\ IsAcceptedPrefix(accepted, window, admitted)
           /\ MoveOut(accepted)

Release ==
  /\ cons = "open"
  /\ head' = chead
  /\ UNCHANGED <<buf, tail, prodVars, consVars, dropped>>

\* Mutant: the tail is consulted although the producer is still there.
CheckDroppedAlways ==
  /\ cons = "open"
  /\ cons' = "checking"
  /\ UNCHANGED <<buf, head, tail, prodVars, chead, cachedTail, out, disconnected, dropped>>

\* is_disconnected loads producer_dropped, and the tail only if that was set.
CheckDropped ==
  /\ cons = "open"
  /\ prod = "closed"
  /\ cons' = "checking"
  /\ UNCHANGED <<buf, head, tail, prodVars, chead, cachedTail, out, disconnected, dropped>>

CheckTail ==
  /\ cons = "checking"
  /\ cons' = "open"
  /\ disconnected' = (chead = tail)
  /\ UNCHANGED <<buf, head, tail, prodVars, chead, cachedTail, out, dropped>>

ConsumerClose ==
  /\ cons = "open"
  /\ head' = chead
  /\ cons' = "closing"
  /\ UNCHANGED <<buf, tail, prodVars, chead, cachedTail, out, disconnected, dropped>>

ConsumerDropped ==
  /\ cons = "closing"
  /\ cons' = "closed"
  /\ UNCHANGED <<buf, head, tail, prodVars, chead, cachedTail, out, disconnected, dropped>>

-----------------------------------------------------------------------------
(* The last half to go drops the ring: drop_remaining. *)

RingDrop ==
  /\ prod = "closed"
  /\ cons = "closed"
  /\ ~dropped
  /\ dropped' = TRUE
  /\ head' = tail
  /\ buf' = Emptied(head, Distance(tail, head))
  /\ UNCHANGED <<tail, prodVars, consVars>>

-----------------------------------------------------------------------------

ProducerStep ==
  \/ \E v \in Values : Push(v)
  \/ FindFull
  \/ FindRoom
  \/ Flush
  \/ ProducerClose
  \/ ProducerDropped

ConsumerStep ==
  \/ Prefetch
  \/ Pop
  \/ \E limit \in 0..Cap : PopInto(limit)
  \/ \E limit \in 0..Cap, admitted \in SUBSET Values : PopIntoWhile(limit, admitted)
  \/ Release
  \/ CheckDropped
  \/ CheckTail
  \/ ConsumerClose
  \/ ConsumerDropped

Next == ProducerStep \/ ConsumerStep \/ RingDrop

Spec == Init /\ [][Next]_vars

-----------------------------------------------------------------------------
(* Properties. *)

\* Types of the ring's state.  In particular everything a receive returns is a
\* value: the `assume_init_read' of pop and pop_into never reads an empty slot.
TypeOK ==
  /\ buf \in [Slots -> Values \union {Uninit}]
  /\ {head, tail, cursor, cachedHead, chead, cachedTail} \subseteq Cursors
  /\ prod \in {"open", "closing", "closed"}
  /\ cons \in {"open", "checking", "closing", "closed"}
  /\ dropped \in BOOLEAN
  /\ out \in Seq(Values)
  /\ disconnected \in BOOLEAN

\* Across any number of wraps of the cursors, the positions stay in the order
\* the SAFETY comments of ring.rs rely on: read back to written, the published
\* head, the consumer's head, its cached tail, the published tail and the
\* producer's cursor, with at most Cap slots between the head the producer
\* believes in and its cursor.  Each side acts on a stale copy of the other's.
CursorsInOrder ==
  ~dropped =>
    /\ Distance(chead, head) <= Distance(cachedTail, head)
    /\ Distance(cachedTail, head) <= Distance(tail, head)
    /\ Distance(tail, head) <= Distance(cursor, head)
    /\ Distance(cursor, head) <= Distance(cursor, cachedHead)
    /\ Distance(cursor, cachedHead) <= Cap

\* A slot holds a value exactly when a cursor between the consumer's head and
\* the producer's cursor falls on it: no value is duplicated, overwritten or
\* left behind in a slot nobody will visit again.
SlotsMatchCursors ==
  ~dropped =>
    \A k \in 0..(Cap - 1) :
      (buf[Index(WrappingAdd(chead, k))] # Uninit) <=> (k < Distance(cursor, chead))

\* Closing the producer publishes what it had only pushed, so a consumer that
\* is told it is disconnected has received everything that was ever pushed.
DisconnectedAfterLastValue == disconnected => chead = cursor

\* drop_remaining destroys every value still in the ring, flushed or pushed
\* just before the close, and never touches a slot already moved out: after the
\* last half is gone no slot holds a value, and just before it exactly the
\* slots it walks do.
DropDestroysExactlyTheRest ==
  /\ dropped => \A s \in Slots : buf[s] = Uninit
  /\ (prod = "closed" /\ cons = "closed" /\ ~dropped) =>
       \A s \in Slots :
         (buf[s] # Uninit) <=>
           \E i \in 0..(Distance(tail, head) - 1) : s = Index(WrappingAdd(head, i))

\* What each half leaves to the other when it goes: a closing producer has
\* published all it pushed, a closing consumer has released all it popped, the
\* tail is consulted about a disconnect only once no flush can follow, and the
\* ring is dropped by nobody else than the last half.
HalvesHandOff ==
  /\ prod # "open" => tail = cursor
  /\ (cons \in {"closing", "closed"} /\ ~dropped) => head = chead
  /\ cons = "checking" => prod = "closed"
  /\ disconnected => prod = "closed" /\ chead = tail
  /\ dropped => /\ prod = "closed" /\ cons = "closed"
                /\ \A s \in Slots : buf[s] = Uninit

\* The inductive invariant.
IInv == TypeOK /\ CursorsInOrder /\ SlotsMatchCursors /\ HalvesHandOff

-----------------------------------------------------------------------------
(* The ring implements the abstract bounded FIFO.  Published values start at *)
(* the consumer's own head, pushed ones at the published tail.               *)

PendingQueue == IF dropped THEN <<>> ELSE Window(tail, Distance(cursor, tail))
VisibleQueue == IF dropped THEN <<>> ELSE Window(chead, Distance(tail, chead))

Fifo == INSTANCE YFifo WITH
  pending <- PendingQueue,
  visible <- VisibleQueue,
  senderGone <- prod = "closed",
  receiverGone <- cons = "closed"

\* Every operation of the ring is a step of the abstract FIFO or invisible in
\* it: values come out once each, in push order, only after a flush, whichever
\* way the two-segment copies and the stale caches cut the batches.
ImplementsFifo == Fifo!Spec
=============================================================================
