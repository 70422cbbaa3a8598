----------------------------- MODULE YRingAsync -----------------------------
(***************************************************************************)
(* The asynchronous halves of the yring ring.  AsyncProducer waits for     *)
(* space in push_async (a PushFuture) or poll_ready, AsyncConsumer is a    *)
(* Stream that waits for a value in poll_next.  Each leaves its waker in   *)
(* an AtomicWaker of the ring and looks again before it returns Pending;   *)
(* flush, release and the two drops wake.                                  *)
(*                                                                         *)
(* AtomicWaker is external: register leaves the task's waker, wake takes   *)
(* it out and wakes the task, and both exchange with the same state, so    *)
(* each meets what the other side had stored before its last call.  The    *)
(* executor is external too: it polls a task again after it was woken, and *)
(* may poll it before.  The producer flushes before it waits for space, as *)
(* the documentation of push_async and poll_ready asks.                    *)
(*                                                                         *)
(* Steps end as in YRingHints.                                             *)
(***************************************************************************)
EXTENDS RingMemory

VARIABLES
  waker,        \* AsyncRing.consumer_waker, producer_waker: set when it holds
                \* the task's waker
  released,     \* AsyncConsumer.released_head
  ended         \* poll_next has returned Ready(None)

asyncVars == <<waker, released, ended>>

\* A task that is not in the middle of a call: not started, or pending.
Free(s) == flavour = "async" /\ pc[s] = "idle"
In(s, place) == flavour = "async" /\ pc[s] = place

AsyncUnused ==
  /\ waker = [s \in Sides |-> Written(FALSE, s, <<Fresh>>)]
  /\ released = 0
  /\ ended = FALSE

AsyncInit == flavour = "async" /\ RingInit /\ AsyncUnused

-----------------------------------------------------------------------------
(* AtomicWaker. *)

\* register, by the task of side s, which leaves peers to be known.
LeaveWaker(s, peers) ==
  /\ waker' = [waker EXCEPT ![s] = Written(TRUE, s, stores[s])]
  /\ Memory(s, stores[s], Met(waker[s], s, peers))

\* wake, by side s for the task of its peer.
WakePeer(s) ==
  /\ waker' = [waker EXCEPT ![Peer(s)] = Written(FALSE, s, stores[s])]
  /\ Memory(s, stores[s], Met(waker[Peer(s)], s, stores[Peer(s)]))
  /\ signal' = IF waker[Peer(s)].set THEN Wakening(Peer(s)) ELSE signal

-----------------------------------------------------------------------------
(* AsyncProducer. *)

\* push and is_full.
AsyncPush(o) ==
  /\ Free("prod")
  /\ cursor < MaxPushes
  /\ \E peers \in HeadLoads :
       /\ cachedHead' = HeadRead(peers)
       /\ cursor' = IF o = "push" /\ HasRoom(HeadRead(peers)) THEN cursor + 1 ELSE cursor
       /\ Memory("prod", stores["prod"], peers)
  /\ UNCHANGED <<flavour, chead, cachedTail, waiting, signal, pc, op, asyncVars>>

\* flush: the tail goes out, wake follows.
AsyncFlush ==
  /\ Free("prod")
  /\ Memory("prod", Storing(stores["prod"], "cursor", cursor), stores["cons"])
  /\ At("prod", "wake")
  /\ UNCHANGED <<flavour, ringVars, waiting, signal, op, asyncVars>>

FlushWake ==
  /\ In("prod", "wake")
  /\ WakePeer("prod")
  /\ At("prod", IF op["prod"] = "drop" THEN "dropping" ELSE "idle")
  /\ UNCHANGED <<flavour, ringVars, waiting, op, released, ended>>

\* The outcomes of a look for space that leaves peers to be known, by
\* push_async (o = "push") and poll_ready (o = "ready").
GotSpace(o, peers) ==
  /\ HasRoom(HeadRead(peers))
  /\ cachedHead' = HeadRead(peers)
  /\ cursor' = IF o = "push" THEN cursor + 1 ELSE cursor
  /\ Memory("prod", stores["prod"], peers)
  /\ At("prod", "idle")
  /\ Doing("prod", "none")
  /\ UNCHANGED <<waiting, waker>>

\* The consumer is seen gone: Ready(Err(val)) or Ready(()).
GotNoConsumer(peers) ==
  \E later \in Loads(peers, "dropped") :
    /\ Head(later).dropped
    /\ Memory("prod", stores["prod"], later)
    /\ At("prod", "idle")
    /\ Doing("prod", "none")
    /\ UNCHANGED <<cursor, waiting, waker>>

\* poll_ready asks for the consumer first, PushFuture after a failed push.
Resolved(o) ==
  \/ o = "ready" /\ GotNoConsumer(stores["cons"]) /\ UNCHANGED cachedHead
  \/ \E peers \in HeadLoads :
       \/ GotSpace(o, peers)
       \/ /\ o = "push"
          /\ ~HasRoom(HeadRead(peers))
          /\ cachedHead' = HeadRead(peers)
          /\ GotNoConsumer(peers)

\* The looks that find neither space nor the consumer gone.
Fruitless == {peers \in HeadLoads : ~HasRoom(HeadRead(peers)) /\ ~Head(peers).dropped}

\* The first look of a poll; if it is fruitless, register_space_waker begins.
PollForSpace(o) ==
  \/ Resolved(o)
  \/ \E peers \in Fruitless :
       /\ cachedHead' = HeadRead(peers)
       /\ LeaveWaker("prod", peers)
       /\ At("prod", "register")
       /\ Doing("prod", o)
       /\ UNCHANGED <<cursor, waiting>>

AwaitSpace(o) ==
  /\ Free("prod")
  /\ cursor < MaxPushes
  /\ Now("prod").cursor = cursor
  /\ PollForSpace(o)
  /\ UNCHANGED <<flavour, chead, cachedTail, signal, released, ended>>

\* register_space_waker goes on with the exchange of the waiting flag.
RegisterSpace ==
  /\ In("prod", "register")
  /\ waiting' = [waiting EXCEPT !["prod"] = Written(TRUE, "prod", stores["prod"])]
  /\ Memory("prod", stores["prod"], Met(waiting["prod"], "prod", stores["cons"]))
  /\ At("prod", "recheck")
  /\ UNCHANGED <<flavour, ringVars, signal, op, asyncVars>>

RecheckSpace ==
  /\ In("prod", "recheck")
  /\ \/ Resolved(op["prod"])
     \/ \E peers \in Fruitless :
          /\ cachedHead' = HeadRead(peers)
          /\ Memory("prod", stores["prod"], peers)
          /\ At("prod", "asleep")
          /\ UNCHANGED <<cursor, waiting, waker, op>>
  /\ UNCHANGED <<flavour, chead, cachedTail, signal, released, ended>>

\* AsyncProducer::drop: flush (by FlushWake), the flag, wake.
DropProducer ==
  /\ Free("prod")
  /\ Memory("prod", Storing(stores["prod"], "cursor", cursor), stores["cons"])
  /\ At("prod", "wake")
  /\ Doing("prod", "drop")
  /\ UNCHANGED <<flavour, ringVars, waiting, signal, asyncVars>>

\* Either drop sets its flag.
SetDropped(s) ==
  /\ In(s, "dropping")
  /\ Memory(s, Storing(stores[s], "dropped", TRUE), stores[Peer(s)])
  /\ At(s, "lastWake")
  /\ UNCHANGED <<flavour, ringVars, waiting, signal, op, asyncVars>>

\* Mutant: the drop wakes only by its flush or release.
LeaveQuietly(s) ==
  /\ In(s, "lastWake")
  /\ At(s, "gone")
  /\ UNCHANGED <<flavour, ringVars, stores, waiting, signal, op, asyncVars>>

\* Either drop ends with a wake.
LastWake(s) ==
  /\ In(s, "lastWake")
  /\ WakePeer(s)
  /\ At(s, "gone")
  /\ UNCHANGED <<flavour, ringVars, waiting, op, released, ended>>

-----------------------------------------------------------------------------
(* AsyncConsumer.  op is what follows a release: "none", "register" in the  *)
(* middle of poll_next, or "drop".                                          *)

AsyncPrefetch ==
  /\ Free("cons")
  /\ \E peers \in Loads(stores["prod"], "cursor") :
       /\ cachedTail' = Head(peers).cursor
       /\ Memory("cons", stores["cons"], peers)
  /\ UNCHANGED <<flavour, cursor, cachedHead, chead, waiting, signal, pc, op, asyncVars>>

AsyncPop ==
  /\ Free("cons")
  /\ chead # cachedTail
  /\ chead' = chead + 1
  /\ UNCHANGED <<flavour, cursor, cachedHead, cachedTail, stores, waiting, signal, pc, op,
                 asyncVars>>

\* release up to its exchange, with the head at h and peers to be known; o
\* follows, at the given place when there is nothing to release.
ReleaseThen(h, peers, o, place) ==
  /\ chead' = h
  /\ released' = h
  /\ Memory("cons", Storing(stores["cons"], "cursor", h), peers)
  /\ At("cons", IF h = released THEN place ELSE "exchange")
  /\ Doing("cons", o)

AsyncRelease ==
  /\ Free("cons")
  /\ ReleaseThen(chead, stores["prod"], "none", "idle")
  /\ UNCHANGED <<flavour, cursor, cachedHead, cachedTail, waiting, signal, waker, ended>>

AfterRelease == CASE op["cons"] = "none" -> "idle"
                  [] op["cons"] = "register" -> "register"
                  [] op["cons"] = "drop" -> "dropping"

\* release: the exchange tells whether the producer waits.
ReleaseExchange ==
  /\ In("cons", "exchange")
  /\ waiting' = [waiting EXCEPT !["prod"] = Written(FALSE, "cons", stores["cons"])]
  /\ Memory("cons", stores["cons"], Met(waiting["prod"], "cons", stores["prod"]))
  /\ At("cons", IF waiting["prod"].set THEN "wake" ELSE AfterRelease)
  /\ UNCHANGED <<flavour, ringVars, signal, op, asyncVars>>

ReleaseWake ==
  /\ In("cons", "wake")
  /\ WakePeer("cons")
  /\ At("cons", AfterRelease)
  /\ UNCHANGED <<flavour, ringVars, waiting, op, released, ended>>

\* poll_next: a value is in the window, or the first prefetch brings one, and
\* it is returned after a release; otherwise the release comes before the waker.
PollNext ==
  \E peers \in IF chead = cachedTail THEN Loads(stores["prod"], "cursor") ELSE {stores["prod"]} :
    LET tail == IF chead = cachedTail THEN Head(peers).cursor ELSE cachedTail
    IN  /\ cachedTail' = tail
        /\ \/ tail # chead /\ ReleaseThen(chead + 1, peers, "none", "idle")
           \/ tail = chead /\ ReleaseThen(chead, peers, "register", "register")

StartNext ==
  /\ Free("cons")
  /\ ~ended
  /\ PollNext
  /\ UNCHANGED <<flavour, cursor, cachedHead, waiting, signal, waker, ended>>

RegisterNext ==
  /\ In("cons", "register")
  /\ LeaveWaker("cons", stores["prod"])
  /\ At("cons", "recheck")
  /\ UNCHANGED <<flavour, ringVars, waiting, signal, op, released, ended>>

\* Mutant: the stream ends as soon as the producer is gone.
EndAtOnce(peers) ==
  /\ Memory("cons", stores["cons"], peers)
  /\ At("cons", "idle")
  /\ Doing("cons", "none")
  /\ ended' = TRUE
  /\ UNCHANGED <<chead, cachedTail, released>>

\* The producer is gone, and what it flushed last is known: look once more.
LastLook(peers) ==
  \E last \in Loads(peers, "cursor") :
    LET tail == Head(last).cursor
    IN  /\ cachedTail' = tail
        /\ ReleaseThen(IF tail = chead THEN chead ELSE chead + 1, last, "none", "idle")
        /\ ended' = (tail = chead)

\* The second look: a value, the end, or Pending.  The window is used up here.
RecheckNext ==
  /\ In("cons", "recheck")
  /\ \E peers \in Loads(stores["prod"], "cursor") :
       \/ /\ Head(peers).cursor # chead
          /\ cachedTail' = Head(peers).cursor
          /\ ReleaseThen(chead + 1, peers, "none", "idle")
          /\ UNCHANGED ended
       \/ /\ Head(peers).cursor = chead
          /\ \E later \in Loads(peers, "dropped") :
               \/ /\ ~Head(later).dropped
                  /\ Memory("cons", stores["cons"], later)
                  /\ At("cons", "asleep")
                  /\ Doing("cons", "none")
                  /\ UNCHANGED <<chead, cachedTail, released, ended>>
               \/ /\ Head(later).dropped
                  /\ LastLook(later)
  /\ UNCHANGED <<flavour, cursor, cachedHead, waiting, signal, waker>>

\* AsyncConsumer::drop: release, the flag, wake.
DropConsumer ==
  /\ Free("cons")
  /\ ReleaseThen(chead, stores["prod"], "drop", "dropping")
  /\ UNCHANGED <<flavour, cursor, cachedHead, cachedTail, waiting, signal, waker, ended>>

-----------------------------------------------------------------------------
(* The executor and the tasks. *)

PollWoken(s) ==
  /\ In(s, "asleep")
  /\ Wakened(s)
  /\ At(s, "poll")
  /\ UNCHANGED <<flavour, ringVars, waiting, op, asyncVars>>

PollUnasked(s) ==
  /\ In(s, "asleep")
  /\ At(s, "poll")
  /\ UNCHANGED <<flavour, ringVars, stores, waiting, signal, op, asyncVars>>

\* The next poll of a PushFuture or by poll_ready; of poll_next.
PollSpaceAgain ==
  /\ In("prod", "poll")
  /\ PollForSpace(op["prod"])
  /\ UNCHANGED <<flavour, chead, cachedTail, signal, released, ended>>

PollNextAgain ==
  /\ In("cons", "poll")
  /\ PollNext
  /\ UNCHANGED <<flavour, cursor, cachedHead, waiting, signal, waker, ended>>

\* The pending future is dropped; a stream or a poll_ready is just not polled.
Cancel(s) ==
  /\ In(s, "asleep")
  /\ At(s, "idle")
  /\ Doing(s, "none")
  /\ UNCHANGED <<flavour, ringVars, stores, waiting, signal, asyncVars>>

\* What side s does within a call, and its next poll after a wake.
AsyncStep(s) ==
  \/ SetDropped(s) \/ LastWake(s) \/ PollWoken(s)
  \/ /\ s = "prod"
     /\ FlushWake \/ RegisterSpace \/ RecheckSpace \/ PollSpaceAgain
  \/ /\ s = "cons"
     /\ ReleaseExchange \/ ReleaseWake \/ RegisterNext \/ RecheckNext \/ PollNextAgain

\* What the tasks may call.
AsyncCall ==
  \/ \E o \in {"push", "is_full"} : AsyncPush(o)
  \/ AsyncFlush
  \/ \E o \in {"push", "ready"} : AwaitSpace(o)
  \/ DropProducer
  \/ AsyncPrefetch
  \/ AsyncPop
  \/ AsyncRelease
  \/ StartNext
  \/ DropConsumer
  \/ \E s \in Sides : PollUnasked(s) \/ Cancel(s)

AsyncNext == AsyncCall \/ \E s \in Sides : AsyncStep(s)

-----------------------------------------------------------------------------

\* poll_next returns None only after every value that was pushed, those of the
\* flush in the producer's drop included, although that flush may fall between
\* its look at the tail and its look at producer_dropped.
StreamEndsLast == ended => chead = cursor

=============================================================================
