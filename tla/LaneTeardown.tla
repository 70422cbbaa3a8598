---------------------------- MODULE LaneTeardown ----------------------------
(***************************************************************************)
(* One lane of a channel while its receiving end is torn down: the         *)
(* ownership handoff of src/ring.rs between a receiver that closes and a   *)
(* send that may be under way, for both teardown policies.                 *)
(*                                                                         *)
(* The ring is the one of YRing with its cursors counted from the start,   *)
(* without wrapping, and its values left out: value number k sits between  *)
(* the k-1st and the k-th position.  Every atomic access, every lock and   *)
(* every payload destructor is a step of its own; `cleanup.consumer' is    *)
(* read and written only under its mutex.                                  *)
(***************************************************************************)
EXTENDS Integers

CONSTANTS
  Cap,          \* slots of the ring
  MaxSends      \* bound on the number of values ever pushed

ASSUME CapAssumption == Cap \in Nat \ {0}
ASSUME MaxSendsAssumption == MaxSends \in Nat

VARIABLES
  policy,                    \* the channel's TeardownPolicy, fixed when it is built
  pushed, flushed,           \* Producer.cursor and Ring.tail
  window, popped, released,  \* Consumer.cached_tail, Consumer.head, Ring.head
  holders,                   \* the yring halves that keep the ring allocated
  state,                     \* Cleanup.state, as the set of its bits
  slot,                      \* Cleanup.consumer: "some" consumer or "none"
  mutex,                     \* holder of the lock around it, or "free"
  pc,                        \* where each side is
  delivered, destroyed,      \* values handed to the user, values dropped
  headAtClose                \* history: Ring.head when the close began

ringVars == <<pushed, flushed, window, popped, released>>
cleanupVars == <<state, slot, mutex>>
history == <<delivered, destroyed, headAtClose>>
vars == <<policy, ringVars, holders, cleanupVars, pc, history>>

Sides == {"sender", "receiver"}
Coordinated == policy = "Coordinated"

Init ==
  /\ policy \in {"Deferred", "Coordinated"}
  /\ pushed = 0 /\ flushed = 0 /\ window = 0 /\ popped = 0 /\ released = 0
  /\ holders = {"producer", "consumer"}
  /\ state = {} /\ slot = "none" /\ mutex = "free"
  /\ pc = [s \in Sides |-> IF s = "sender" THEN "idle" ELSE "open"]
  /\ delivered = 0 /\ destroyed = 0
  /\ headAtClose = 0

Goto(self, label) == pc' = [pc EXCEPT ![self] = label]

-----------------------------------------------------------------------------
(* Steps either side takes on a yring consumer it owns. *)

\* discard: prefetch, then pop and drop the whole window.  The credit of the
\* popped slots is kept.
DiscardPrefetch(self, from, to) ==
  /\ pc[self] = from
  /\ window' = flushed
  /\ Goto(self, to)
  /\ UNCHANGED <<pushed, flushed, popped, released, holders, cleanupVars, history>>

DiscardAndRelease(self, at) ==
  /\ pc[self] = at
  /\ popped < window
  /\ popped' = popped + 1
  /\ released' = popped'
  /\ destroyed' = destroyed + 1
  /\ UNCHANGED <<pushed, flushed, window, holders, cleanupVars, pc, delivered, headAtClose>>

DiscardPop(self, at) ==
  /\ pc[self] = at
  /\ popped < window
  /\ popped' = popped + 1
  /\ destroyed' = destroyed + 1
  /\ UNCHANGED <<pushed, flushed, window, released, holders, cleanupVars, pc, delivered, headAtClose>>

DiscardDone(self, at, to) ==
  /\ pc[self] = at
  /\ popped = window
  /\ Goto(self, to)
  /\ UNCHANGED <<ringVars, holders, cleanupVars, history>>

DropKeepingCredit(self, from, to) ==
  /\ pc[self] = from
  /\ holders' = holders \ {"consumer"}
  /\ destroyed' = IF "producer" \notin holders THEN destroyed + (flushed - popped) ELSE destroyed
  /\ Goto(self, to)
  /\ UNCHANGED <<ringVars, cleanupVars, delivered, headAtClose>>

\* The consumer is dropped: it returns its credit, sets consumer_dropped and
\* lets go of the ring, whose remaining values go with it if it was the last.
DropConsumer(self, from, to) ==
  /\ pc[self] = from
  /\ released' = popped
  /\ holders' = holders \ {"consumer"}
  /\ destroyed' = IF "producer" \notin holders THEN destroyed + (flushed - popped) ELSE destroyed
  /\ Goto(self, to)
  /\ UNCHANGED <<pushed, flushed, window, popped, cleanupVars, delivered, headAtClose>>

-----------------------------------------------------------------------------
(* The sender. *)

\* With the flag of the ring set just before the consumer lets go of it.
IsConsumerDropped == IF Coordinated THEN "CLOSED" \in state ELSE "consumer" \notin holders

\* A send that finds the lane closed returns at once and changes nothing.
StartSend ==
  /\ pc["sender"] = "idle"
  /\ pushed < MaxSends
  /\ ~IsConsumerDropped
  /\ Goto("sender", IF Coordinated THEN "begin" ELSE "push")
  /\ UNCHANGED <<ringVars, holders, cleanupVars, history>>

BeginUnlessActive ==
  /\ pc["sender"] = "begin"
  /\ state' = state \union {"ACTIVE"}
  /\ Goto("sender", "push")
  /\ UNCHANGED <<ringVars, holders, slot, mutex, history>>

\* Cleanup::begin: one compare-exchange from no bits to ACTIVE.
Begin ==
  /\ pc["sender"] = "begin"
  /\ IF state = {}
     THEN state' = {"ACTIVE"} /\ Goto("sender", "push")
     ELSE state' = state /\ Goto("sender", "idle")
  /\ UNCHANGED <<ringVars, holders, slot, mutex, history>>

\* Where a send goes once it has pushed and flushed, or found the ring full.
AfterSend == IF Coordinated THEN "guard" ELSE "idle"

Push ==
  /\ pc["sender"] = "push"
  /\ IF pushed - released < Cap
     THEN pushed' = pushed + 1 /\ Goto("sender", "flush")
     ELSE pushed' = pushed /\ Goto("sender", AfterSend)
  /\ UNCHANGED <<flushed, window, popped, released, holders, cleanupVars, history>>

Flush ==
  /\ pc["sender"] = "flush"
  /\ flushed' = pushed
  /\ Goto("sender", AfterSend)
  /\ UNCHANGED <<pushed, window, popped, released, holders, cleanupVars, history>>

\* push_deferred and flush, which only the Deferred policy offers.
PushDeferred ==
  /\ ~Coordinated
  /\ pc["sender"] = "idle"
  /\ pushed < MaxSends
  /\ ~IsConsumerDropped
  /\ pushed - released < Cap
  /\ pushed' = pushed + 1
  /\ UNCHANGED <<flushed, window, popped, released, holders, cleanupVars, pc, history>>

FlushDeferred ==
  /\ ~Coordinated
  /\ pc["sender"] = "idle"
  /\ flushed' = pushed
  /\ UNCHANGED <<pushed, window, popped, released, holders, cleanupVars, pc, history>>

GuardDropBlind ==
  /\ pc["sender"] = "guard"
  /\ state' = state \ {"ACTIVE"}
  /\ Goto("sender", "idle")
  /\ UNCHANGED <<ringVars, holders, slot, mutex, history>>

\* SendGuard::drop.
GuardDrop ==
  /\ pc["sender"] = "guard"
  /\ state' = state \ {"ACTIVE"}
  /\ Goto("sender", IF "CLOSED" \in state THEN "take" ELSE "idle")
  /\ UNCHANGED <<ringVars, holders, slot, mutex, history>>

GuardPeek ==
  /\ pc["sender"] = "take"
  /\ mutex = "free"
  /\ Goto("sender", IF slot = "some" THEN "discard" ELSE "idle")
  /\ UNCHANGED <<ringVars, holders, state, slot, mutex, history>>

GuardTake ==
  /\ pc["sender"] = "take"
  /\ mutex = "free"
  /\ slot' = "none"
  /\ Goto("sender", IF slot = "some" THEN "discard" ELSE "idle")
  /\ UNCHANGED <<ringVars, holders, state, mutex, history>>

\* Producer::close publishes; then the producer lets go of the ring.
SenderClose ==
  /\ pc["sender"] = "idle"
  /\ flushed' = pushed
  /\ Goto("sender", "closing")
  /\ UNCHANGED <<pushed, window, popped, released, holders, cleanupVars, history>>

SenderGone ==
  /\ pc["sender"] = "closing"
  /\ holders' = holders \ {"producer"}
  /\ destroyed' = IF "consumer" \notin holders THEN destroyed + (flushed - released) ELSE destroyed
  /\ Goto("sender", "gone")
  /\ UNCHANGED <<ringVars, cleanupVars, delivered, headAtClose>>

Send == \* what a send does once started
  \/ Begin
  \/ Push
  \/ Flush
  \/ GuardDrop
  \/ GuardTake
  \/ DiscardPrefetch("sender", "discard", "discarding")
  \/ DiscardPop("sender", "discarding")
  \/ DiscardDone("sender", "discarding", "dropping")
  \/ DropConsumer("sender", "dropping", "idle")

SenderDrop == SenderClose \/ SenderGone

-----------------------------------------------------------------------------
(* The receiver. *)

Prefetch ==
  /\ pc["receiver"] = "open"
  /\ window' = flushed
  /\ UNCHANGED <<pushed, flushed, popped, released, holders, cleanupVars, pc, history>>

Pop ==
  /\ pc["receiver"] = "open"
  /\ popped < window
  /\ popped' = popped + 1
  /\ delivered' = delivered + 1
  /\ UNCHANGED <<pushed, flushed, window, released, holders, cleanupVars, pc, destroyed, headAtClose>>

Release ==
  /\ pc["receiver"] = "open"
  /\ released' = popped
  /\ UNCHANGED <<pushed, flushed, window, popped, holders, cleanupVars, pc, history>>

\* Consumer::close.  The Deferred policy closes the yring consumer: it returns
\* the credit, then sets consumer_dropped, as DropConsumer repeats.
StartClose ==
  /\ pc["receiver"] = "open"
  /\ headAtClose' = released
  /\ released' = IF Coordinated THEN released ELSE popped
  /\ Goto("receiver", IF Coordinated THEN "discard" ELSE "dropping")
  /\ UNCHANGED <<pushed, flushed, window, popped, holders, cleanupVars, delivered, destroyed>>

\* Cleanup::close, from the lock to the unlock.
CloseLock ==
  /\ pc["receiver"] = "lock"
  /\ mutex = "free"
  /\ mutex' = "receiver"
  /\ slot' = "some"
  /\ Goto("receiver", "announce")
  /\ UNCHANGED <<ringVars, holders, state, history>>

CloseAnnounce ==
  /\ pc["receiver"] = "announce"
  /\ state' = state \union {"CLOSED"}
  /\ slot' = IF "ACTIVE" \in state THEN slot ELSE "none"
  /\ Goto("receiver", IF "ACTIVE" \in state THEN "handover" ELSE "keep")
  /\ UNCHANGED <<ringVars, holders, mutex, history>>


CloseUnlock ==
  /\ pc["receiver"] \in {"handover", "keep"}
  /\ mutex' = "free"
  /\ Goto("receiver", IF pc["receiver"] = "keep" THEN "rediscard" ELSE "closed")
  /\ UNCHANGED <<ringVars, holders, state, slot, history>>

Close ==
  \/ DiscardPrefetch("receiver", "discard", "discarding")
  \/ DiscardPop("receiver", "discarding")
  \/ DiscardDone("receiver", "discarding", "lock")
  \/ CloseLock
  \/ CloseAnnounce
  \/ CloseUnlock
  \/ DiscardPrefetch("receiver", "rediscard", "rediscarding")
  \/ DiscardPop("receiver", "rediscarding")
  \/ DiscardDone("receiver", "rediscarding", "dropping")
  \/ DropConsumer("receiver", "dropping", "closed")

-----------------------------------------------------------------------------

Next ==
  /\ \/ StartSend \/ Send \/ PushDeferred \/ FlushDeferred \/ SenderDrop
     \/ Prefetch \/ Pop \/ Release \/ StartClose \/ Close
  /\ UNCHANGED policy

Spec == Init /\ [][Next]_vars

\* The receiving thread runs on once it closes.  Nothing is assumed of the
\* sending thread: it may be descheduled in the middle of a send.
CloseSpec == Spec /\ WF_vars(Close /\ UNCHANGED policy)

-----------------------------------------------------------------------------
(* Properties. *)

SenderLabels == {"idle", "begin", "push", "flush", "guard", "take", "discard",
                 "discarding", "dropping", "closing", "gone"}
ReceiverLabels == {"open", "discard", "discarding", "lock", "announce", "handover",
                   "keep", "rediscard", "rediscarding", "dropping", "closed"}

CountersOK ==
  /\ pushed \in Nat /\ flushed \in Nat /\ window \in Nat
  /\ popped \in Nat /\ released \in Nat /\ headAtClose \in Nat
  /\ delivered \in Nat /\ destroyed \in Nat

\* Types of the lane's state.
TypeOK ==
  /\ CountersOK
  /\ policy \in {"Deferred", "Coordinated"}
  /\ holders \subseteq {"producer", "consumer"}
  /\ state \subseteq {"ACTIVE", "CLOSED"}
  /\ slot \in {"none", "some"}
  /\ mutex \in {"free", "receiver"}
  /\ pc \in [Sides -> SenderLabels \union ReceiverLabels]
  /\ pc["sender"] \in SenderLabels /\ pc["receiver"] \in ReceiverLabels

\* Who may touch the yring consumer at this point of its code.
ReceiverOwns == pc["receiver"] \in {"open", "discard", "discarding", "lock",
                  "keep", "rediscard", "rediscarding", "dropping"}
SenderOwns == pc["sender"] \in {"discard", "discarding", "dropping"}

\* Exactly one place has the consumer at any time: the receiver, the handoff
\* slot, the send that found CLOSED, or nobody once it is dropped.  So the
\* discards of the two sides never run at the same time, and it is not lost.
OneOwner ==
  /\ ~(ReceiverOwns /\ SenderOwns)
  /\ slot = "some" => ~ReceiverOwns /\ ~SenderOwns
  /\ "consumer" \in holders <=> ReceiverOwns \/ SenderOwns \/ slot = "some"

\* "Reclaim unread payloads without requiring sender handles to be dropped":
\* under the Coordinated policy, once the close has returned and no send is
\* under way, every value ever pushed was delivered or destroyed, although the
\* sender still holds the ring.
ReclaimedWithoutSender ==
  (Coordinated /\ pc["receiver"] = "closed" /\ pc["sender"] \in {"idle", "begin"}) =>
    delivered + destroyed = pushed

\* Under either policy, once both ends are gone every value ever pushed was
\* delivered or destroyed, and none of them twice.
NothingLeftBehind ==
  /\ delivered + destroyed <= pushed
  /\ (pc["sender"] = "gone" /\ pc["receiver"] = "closed") => delivered + destroyed = pushed

\* The comment of discard: no send succeeds solely because the receiver is
\* closing.  Everything pushed fits the credit that was there before the close.
NoRoomFromClosing == (Coordinated /\ pc["receiver"] # "open") => pushed <= headAtClose + Cap

\* Positions in order.
OrderInv ==
  /\ released <= popped /\ popped <= window /\ window <= flushed /\ flushed <= pushed
  /\ pushed <= released + Cap

\* Every value that left the ring is accounted for.
AccountInv ==
  /\ holders # {} => delivered + destroyed = popped
  /\ holders = {} => delivered + destroyed = pushed
  /\ "consumer" \notin holders => released = popped

\* When nothing is left unpublished.
PublishedInv ==
  /\ pc["sender"] \in {"closing", "gone"} => flushed = pushed
  /\ Coordinated /\ pc["sender"] # "flush" => flushed = pushed

\* What the policy, the bits and the lock say about where the two sides are.
InSend == pc["sender"] \in {"push", "flush", "guard"}

HandoffInv ==
  /\ IF Coordinated
     THEN "ACTIVE" \in state <=> InSend
     ELSE /\ state = {} /\ slot = "none"
          /\ pc["sender"] \in {"idle", "push", "flush", "closing", "gone"}
          /\ pc["receiver"] \in {"open", "dropping", "closed"}
  /\ Coordinated =>
       /\ "CLOSED" \in state <=>
            pc["receiver"] \in {"handover", "keep", "rediscard", "rediscarding",
                               "dropping", "closed"}
       /\ pc["sender"] \in {"take", "discard", "discarding", "dropping"} => "CLOSED" \in state
       /\ pc["receiver"] \in {"keep", "rediscard", "rediscarding", "dropping"} =>
            ~InSend /\ pc["sender"] # "take"
       /\ "consumer" \notin holders => "CLOSED" \in state /\ ~InSend /\ pc["sender"] # "take"
  /\ (mutex = "receiver") <=> (pc["receiver"] \in {"announce", "handover", "keep"})
  /\ "producer" \notin holders <=> pc["sender"] = "gone"
  /\ pc["receiver"] = "announce" => slot = "some"
  /\ slot = "some" =>
       /\ pc["receiver"] \in {"announce", "handover", "closed"}
       /\ pc["receiver"] = "announce" \/ InSend \/ pc["sender"] = "take"

\* The last discard starts after the last push, and finishes what is there.
DrainInv ==
  Coordinated =>
    /\ "consumer" \notin holders => popped = pushed
    /\ pc["sender"] = "discarding" \/ pc["receiver"] = "rediscarding" => window = pushed
    /\ pc["sender"] = "dropping" \/ pc["receiver"] = "dropping" => popped = pushed

\* While a coordinated close is under way no credit is returned.
CreditInv ==
  /\ headAtClose <= released
  /\ (Coordinated /\ pc["receiver"] # "open" /\ "consumer" \in holders) => released = headAtClose

\* The inductive invariant.
IInv ==
  /\ TypeOK /\ OrderInv /\ AccountInv /\ PublishedInv
  /\ OneOwner /\ HandoffInv /\ DrainInv /\ CreditInv /\ NoRoomFromClosing


\* "Late publications are destroyed when that send resumes": if the sending
\* thread runs on once it is inside a send, everything is reclaimed eventually.
LateValuesReclaimed ==
  WF_vars(Send /\ UNCHANGED policy) =>
  (Coordinated /\ pc["receiver"] = "closed") ~> (delivered + destroyed = pushed)
=============================================================================
