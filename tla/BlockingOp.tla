----------------------------- MODULE BlockingOp -----------------------------
(***************************************************************************)
(* How an operation waits, over the wait cell of WaitCell.  A blocking     *)
(* send or receive goes through the retry loop of src/blocking.rs: spin,   *)
(* try, register, try again, park, with or without a deadline.  An         *)
(* asynchronous one (src/mpsc/asynchronous.rs) is polled: try, leave the   *)
(* waker, try again, and be pending until the task is woken; its future    *)
(* may be dropped between two polls.  Both sides of a channel wait so, on  *)
(* cells of their own.                                                     *)
(*                                                                         *)
(* The endpoint is what the loop knows of it: an attempt finishes when     *)
(* `items' is positive and takes one; an attempt that finds nothing may    *)
(* still have moved work (`chores'), which a registered attempt reports as *)
(* Progressed.  Peers provide an item and notify afterwards.               *)
(***************************************************************************)
EXTENDS Integers

CONSTANTS
  Peers,      \* threads whose operations make the waiting one possible
  MaxItems,   \* bound on the items they provide
  MaxChores   \* bound on the work an endpoint has lying about

ASSUME PeersAssumption == "waiter" \notin Peers /\ "free" \notin Peers
ASSUME MaxItemsAssumption == MaxItems \in Nat
ASSUME MaxChoresAssumption == MaxChores \in Nat

VARIABLES
  waiting, generation, mutex, wpc, snapshot, npc, waker, woken,  \* the wait cell
  items,     \* what the next attempts can take
  provided,  \* items ever provided
  chores,    \* work a fruitless attempt can still move
  ppc,       \* "idle", or "provided": a peer that has not notified yet
  rpc,       \* where the operation is in run, or in a poll
  timed,     \* {"deadline"} or {}: whether the operation has one
  expired,   \* {"expired"} or {}: whether it has passed
  timedOut,  \* {"timeout"} or {}: what the last timed wait reported
  owed,      \* deferred notifications not yet sent, 0 or 1
  result     \* how the last operation ended: "done", "timeout", "cancelled" or "none"

cellVars == <<waiting, generation, mutex, wpc, snapshot, npc, waker, woken>>
endpointVars == <<items, provided, chores, ppc>>
runVars == <<rpc, timed, expired, timedOut, owed, result>>
vars == <<cellVars, endpointVars, runVars>>

\* One notification per item, so the cell's bound never blocks a peer.
cell == INSTANCE WaitCell WITH Notifiers <- Peers, MaxGeneration <- MaxItems

Init ==
  /\ cell!Init
  /\ items = 0 /\ provided = 0 /\ chores \in 0 .. MaxChores
  /\ ppc = [p \in Peers |-> "idle"]
  /\ rpc = "idle" /\ timed = {} /\ expired = {} /\ timedOut = {}
  /\ owed = 0 /\ result = "none"

-----------------------------------------------------------------------------
(* Peers. *)

Provide(p) ==
  /\ ppc[p] = "idle" /\ npc[p] = "out"
  /\ provided < MaxItems
  /\ provided' = provided + 1
  /\ items' = items + 1
  /\ ppc' = [ppc EXCEPT ![p] = "provided"]
  /\ UNCHANGED <<cellVars, chores, runVars>>

NotifyPeer(p) ==
  /\ ppc[p] = "provided"
  /\ cell!Notify(p)
  /\ ppc' = [ppc EXCEPT ![p] = "idle"]
  /\ UNCHANGED <<items, provided, chores, runVars>>

FinishNotify(p) ==
  /\ cell!WakeTask(p) \/ cell!NotifyLock(p) \/ cell!Signal(p)
  /\ UNCHANGED <<endpointVars, runVars>>

Peer(p) == Provide(p) \/ NotifyPeer(p) \/ FinishNotify(p)

-----------------------------------------------------------------------------
(* One operation: run. *)

\* block passes no deadline, block_until passes one.
Call ==
  /\ rpc = "idle"
  /\ timed' \in {{}, {"deadline"}}
  /\ rpc' = "spin"
  /\ result' = "none"
  /\ expired' = {} /\ timedOut' = {}
  /\ UNCHANGED <<cellVars, endpointVars, owed>>

DeadlinePasses ==
  /\ rpc # "idle" /\ timed # {} /\ expired = {}
  /\ expired' = {"expired"}
  /\ UNCHANGED <<cellVars, endpointVars, rpc, timed, timedOut, owed, result>>

\* One attempt; a fruitless one goes to the given place with the given result.
Try(else, failure) ==
  /\ IF items > 0
     THEN items' = items - 1 /\ rpc' = "idle" /\ result' = "done"
     ELSE items' = items /\ rpc' = else /\ result' = failure
  /\ UNCHANGED <<cellVars, provided, chores, ppc, timed, expired, timedOut, owed>>

\* An attempt of the spin phase.  SpinWait::step ends that phase once its time
\* is up or the deadline has passed; whether to spin at all is the endpoint's
\* choice.
SpinAttempt ==
  /\ rpc = "spin" /\ expired = {}
  /\ Try("spin", "none")

SpinStop ==
  /\ rpc = "spin"
  /\ rpc' = "attempt"
  /\ UNCHANGED <<cellVars, endpointVars, timed, expired, timedOut, owed, result>>

Attempt == rpc = "attempt" /\ Try("register", "none")

Register ==
  /\ rpc = "register"
  /\ cell!Prepare
  /\ rpc' = "recheck"
  /\ UNCHANGED <<endpointVars, timed, expired, timedOut, owed, result>>

RecheckSkipped ==
  /\ rpc = "recheck"
  /\ rpc' = IF timed = {} THEN "park" ELSE "remaining"
  /\ UNCHANGED <<cellVars, endpointVars, timed, expired, timedOut, owed, result>>

\* The attempt made while registered: Done, Progressed or Pending.
Recheck ==
  /\ rpc = "recheck"
  /\ \/ /\ items > 0
        /\ items' = items - 1 /\ rpc' = "done" /\ owed' \in {0, 1}
        /\ UNCHANGED chores
     \/ /\ items = 0 /\ chores > 0
        /\ chores' = chores - 1 /\ rpc' = "progressed" /\ owed' = 1
        /\ UNCHANGED items
     \/ /\ items = 0 /\ chores = 0
        /\ rpc' = IF timed = {} THEN "park" ELSE "remaining"
        /\ UNCHANGED <<items, chores, owed>>
  /\ UNCHANGED <<cellVars, provided, ppc, timed, expired, timedOut, result>>

NotifyRegistered ==
  /\ rpc \in {"done", "progressed"}
  /\ owed' = 0
  /\ cell!Unregister
  /\ rpc' = IF rpc = "done" THEN "notifyDone" ELSE "notifyProgressed"
  /\ UNCHANGED <<endpointVars, timed, expired, timedOut, result>>

\* drop(registration) ...
DropRegistration ==
  /\ rpc \in {"done", "progressed"}
  /\ cell!Unregister
  /\ rpc' = IF rpc = "done" THEN "notifyDone" ELSE "notifyProgressed"
  /\ UNCHANGED <<endpointVars, timed, expired, timedOut, owed, result>>

\* ... and then the notifications held back until now.
NotifyDeferred ==
  /\ rpc \in {"notifyDone", "notifyProgressed"}
  /\ owed' = 0
  /\ IF rpc = "notifyDone"
     THEN rpc' = "idle" /\ result' = "done"
     ELSE rpc' = "attempt" /\ result' = result
  /\ UNCHANGED <<cellVars, endpointVars, timed, expired, timedOut>>

\* No time left before the wait: the registration goes with the return.
Remaining ==
  /\ rpc = "remaining"
  /\ IF expired # {}
     THEN cell!Unregister /\ rpc' = "idle" /\ result' = "timeout"
     ELSE UNCHANGED <<cellVars, result>> /\ rpc' = "park"
  /\ UNCHANGED <<endpointVars, timed, expired, timedOut, owed>>

\* registration.wait and wait_timeout.
Park ==
  /\ rpc = "park"
  /\ cell!WaitLock \/ cell!Compare \/ cell!Sleep \/ cell!Relock
  /\ UNCHANGED <<endpointVars, runVars>>

SpuriousWake ==
  /\ cell!WakeUnsignalled
  /\ UNCHANGED <<endpointVars, runVars>>

TimeoutWake ==
  /\ timed # {} /\ expired # {}
  /\ cell!WakeUnsignalled
  /\ timedOut' = {"timeout"}
  /\ UNCHANGED <<endpointVars, rpc, timed, expired, owed, result>>

\* The wait returns, which drops the registration; a timeout leaves one last
\* attempt.
WaitReturns ==
  /\ rpc = "park" /\ wpc = "leaving"
  /\ cell!Unregister
  /\ rpc' = IF timedOut = {} THEN "attempt" ELSE "last"
  /\ UNCHANGED <<endpointVars, timed, expired, timedOut, owed, result>>

LastAttempt == rpc = "last" /\ Try("idle", "timeout")

-----------------------------------------------------------------------------
(* One asynchronous operation: SendFuture, recv_async and the manual polls. *)

\* The future is polled for the first time.
CallAsync ==
  /\ rpc = "idle"
  /\ cell!StartPoll
  /\ rpc' = "poll"
  /\ timed' = {} /\ expired' = {} /\ timedOut' = {} /\ result' = "none"
  /\ UNCHANGED <<endpointVars, owed>>

\* recv_batch_into_async first takes what is there, and waits only if that is
\* nothing.
CallBatch ==
  /\ rpc = "idle" /\ items > 0
  /\ items' \in 0 .. (items - 1)
  /\ result' = "done"
  /\ UNCHANGED <<cellVars, provided, chores, ppc, rpc, timed, expired, timedOut, owed>>

\* An attempt of a poll.
TryPoll(else) ==
  /\ IF items > 0 THEN items' = items - 1 /\ rpc' = "ready" ELSE items' = items /\ rpc' = else
  /\ UNCHANGED <<cellVars, provided, chores, ppc, timed, expired, timedOut, owed, result>>

PollAttempt == rpc = "poll" /\ TryPoll("leaveWaker")

\* Nothing yet: the waker is left behind ...
LeaveWaker ==
  /\ rpc = "leaveWaker"
  /\ cell!RegisterAsync
  /\ rpc' = "repoll"
  /\ UNCHANGED <<endpointVars, timed, expired, timedOut, owed, result>>

PollOnce ==
  /\ rpc = "repoll"
  /\ rpc' = "pending"
  /\ UNCHANGED <<cellVars, endpointVars, timed, expired, timedOut, owed, result>>

\* ... and after one more attempt the poll is Pending.
PollAgain == rpc = "repoll" /\ TryPoll("pending")

\* The executor polls a task it was asked to poll, or any other.
Repoll ==
  /\ rpc = "pending"
  /\ cell!StartPoll
  /\ rpc' = "poll"
  /\ UNCHANGED <<endpointVars, timed, expired, timedOut, owed, result>>
PollWoken == woken # {} /\ Repoll
PollUnasked == woken = {} /\ Repoll

FinishReady ==
  /\ rpc = "ready"
  /\ items' \in 0 .. items
  /\ rpc' = "idle" /\ result' = "done"
  /\ UNCHANGED <<cellVars, provided, chores, ppc, timed, expired, timedOut, owed>>

\* Ready: the waker is taken back before the value is returned, and a batch
\* receive goes on to take more of what is there ...
PollReady ==
  /\ rpc = "ready"
  /\ cell!CancelAsync
  /\ items' \in 0 .. items
  /\ rpc' = "idle" /\ result' = "done"
  /\ UNCHANGED <<provided, chores, ppc, timed, expired, timedOut, owed>>

\* ... and so it is when the future is dropped before (Registration::drop,
\* SendFuture::drop, cancel_send_wait, cancel_recv_wait).
Cancel ==
  /\ rpc = "pending"
  /\ cell!CancelAsync
  /\ rpc' = "idle" /\ result' = "cancelled"
  /\ UNCHANGED <<endpointVars, timed, expired, timedOut, owed>>

Polls == PollAttempt \/ LeaveWaker \/ PollAgain \/ PollWoken \/ PollReady

-----------------------------------------------------------------------------

Run ==
  \/ SpinStop \/ Attempt \/ Register \/ Recheck \/ DropRegistration \/ NotifyDeferred
  \/ Remaining \/ Park \/ WaitReturns \/ LastAttempt \/ Polls

Next ==
  \/ Call \/ SpinAttempt \/ Run \/ DeadlinePasses \/ SpuriousWake \/ TimeoutWake
  \/ CallAsync \/ CallBatch \/ PollUnasked \/ Cancel
  \/ \E p \in Peers : Peer(p)

Spec == Init /\ [][Next]_vars

\* A thread inside an operation runs on, the executor polls a task that was
\* woken, a peer that provided an item goes on to notify, time passes, and a
\* timed sleep ends after it.  Nobody has to call, provide, wake spuriously or
\* poll unasked.
FairSpec ==
  /\ Spec
  /\ WF_vars(Run) /\ WF_vars(DeadlinePasses) /\ WF_vars(TimeoutWake)
  /\ \A p \in Peers : WF_vars(NotifyPeer(p)) /\ WF_vars(FinishNotify(p))

-----------------------------------------------------------------------------
(* Properties. *)

\* Types of the loop's state; the cell's are those of WaitCell.
TypeOK ==
  /\ cell!TypeOK
  /\ items \in Nat /\ provided \in Nat /\ chores \in Nat
  /\ ppc \in [Peers -> {"idle", "provided"}]
  /\ rpc \in {"idle", "spin", "attempt", "register", "recheck", "done", "progressed",
             "notifyDone", "notifyProgressed", "remaining", "park", "last",
             "poll", "leaveWaker", "repoll", "pending", "ready"}
  /\ timed \in {{}, {"deadline"}} /\ expired \in {{}, {"expired"}}
  /\ timedOut \in {{}, {"timeout"}}
  /\ owed \in {0, 1}
  /\ result \in {"none", "done", "timeout", "cancelled"}

\* "Each park registers before one more attempt, so a notification that races
\* that attempt ends the sleep", and a poll leaves its waker before it: the
\* operation sleeps or is pending while it could finish only as long as a peer
\* is still on its way to wake it.
NeverStuck ==
  /\ (wpc = "asleep" /\ items > 0) =>
        \E p \in Peers : ppc[p] = "provided" \/ npc[p] \in {"wakeLock", "lock", "signal"}
  /\ (rpc = "pending" /\ woken = {} /\ items > 0) =>
        \E p \in Peers : ppc[p] = "provided" \/ npc[p] \in {"wake", "wakeLock"}

\* "Canceling before completion ... releases the waker registration": no waker
\* outlives its operation, so that a later notification wakes nobody for it.
NoStaleWaker == waker # {} => rpc \in {"poll", "leaveWaker", "repoll", "pending", "ready"}

\* "Notifications held back until the waiter unregisters": none is sent while
\* the sender of it is still registered.
DeferredAfterDrop == [][owed' < owed => wpc = "out"]_vars

\* "waits without a deadline never time out", and one with a deadline only
\* after it has passed.
TimeoutIsLate == result = "timeout" => timed # {} /\ expired # {}

\* Where the operation is, against where its registration is.
PlacesInv ==
  /\ rpc \in {"recheck", "done", "progressed", "remaining"} => wpc = "registered"
  /\ rpc = "park" => wpc # "out"
  /\ wpc # "out" => rpc \in {"recheck", "done", "progressed", "remaining", "park"}

\* What came since the fruitless recheck has moved the generation, or will.
PendingInv ==
  /\ snapshot <= generation
  /\ (rpc \in {"remaining", "park"} /\ items > 0) =>
        generation # snapshot \/ \E p \in Peers : ppc[p] = "provided"

\* A pending task is reachable: its waker is in the cell, or was used; and while
\* it is in the cell, what came since the last attempt has yet to be announced.
WakerInv ==
  /\ rpc \in {"repoll", "pending"} => waker # {} \/ woken # {}
  /\ (rpc = "pending" /\ waker # {} /\ items > 0) =>
        \E p \in Peers : ppc[p] = "provided" \/ npc[p] \in {"wake", "wakeLock"}

\* A timeout is reported by an operation that has a deadline, after it.
DeadlineInv ==
  /\ timedOut # {} => timed # {} /\ expired # {}
  /\ rpc = "last" => timedOut # {}
  /\ rpc = "remaining" => timed # {}

\* What a recheck defers is all sent before the next attempt.
OwedInv == owed > 0 => rpc \in {"done", "progressed", "notifyDone", "notifyProgressed"}

\* The inductive invariant.
IInv ==
  /\ TypeOK /\ cell!IInv /\ PlacesInv /\ PendingInv /\ TimeoutIsLate /\ DeadlineInv
  /\ NoStaleWaker /\ WakerInv /\ OwedInv

\* An operation that could finish, or has a deadline, returns.
OperationReturns ==
  (rpc # "idle" /\ (items > 0 \/ timed # {})) ~> (rpc = "idle")
=============================================================================
