------------------------------ MODULE WaitCell ------------------------------
(***************************************************************************)
(* The single-waiter condition cell of src/wait.rs: a WAITING bit and a    *)
(* notification generation in one atomic word, a mutex and a condition     *)
(* variable, and the waker of a task.  One thread may register, recheck    *)
(* its condition outside the mutex and then sleep, or one task may leave   *)
(* its waker; any number of threads notify.                                *)
(*                                                                         *)
(* Every atomic access and every section under the mutex is one step.      *)
(* Spurious wakeups and timeouts of the condition variable are steps of    *)
(* their own.  The cell knows nothing of the condition waited for.         *)
(***************************************************************************)
EXTENDS Integers

CONSTANTS
  Notifiers,     \* threads that may call notify
  MaxGeneration  \* bound on the notifications of a behaviour

ASSUME NotifiersAssumption == "waiter" \notin Notifiers /\ "free" \notin Notifiers
ASSUME MaxGenerationAssumption == MaxGeneration \in Nat

VARIABLES
  waiting,     \* the WAITING bit of state: {"WAITING"} or {}
  generation,  \* the notification generation, the other bits of state
  mutex,       \* "free", "waiter" or the notifier that has locked it
  wpc,         \* where the waiter is in prepare, wait and the final drop
  snapshot,    \* WaitRegistration.snapshot
  npc,         \* where each notifier is in notify
  waker,       \* the AtomicWaker: {"task"} while it holds a waker, else {}
  woken        \* {"woken"} when the task is to be polled again, else {}

taskVars == <<waker, woken>>
vars == <<waiting, generation, mutex, wpc, snapshot, npc, taskVars>>

Init ==
  /\ waiting = {}
  /\ generation = 0
  /\ mutex = "free"
  /\ wpc = "out"
  /\ snapshot = 0
  /\ npc = [n \in Notifiers |-> "out"]
  /\ waker = {} /\ woken = {}

-----------------------------------------------------------------------------
(* The waiter. *)

PrepareLocked ==
  /\ wpc = "out"
  /\ mutex \in {"free", "waiter"}
  /\ mutex' = "waiter"
  /\ waiting' = {"WAITING"}
  /\ snapshot' = generation
  /\ wpc' = "registered"
  /\ UNCHANGED <<generation, npc, taskVars>>

PrepareStale ==
  /\ wpc = "out"
  /\ waiting' = {"WAITING"}
  /\ wpc' = "registered"
  /\ UNCHANGED <<generation, mutex, snapshot, npc, taskVars>>

\* WaitCell::prepare: one fetch_or that also yields the snapshot.
Prepare ==
  /\ wpc = "out"
  /\ waiting' = {"WAITING"}
  /\ snapshot' = generation
  /\ wpc' = "registered"
  /\ UNCHANGED <<generation, mutex, npc, taskVars>>

\* wait and wait_timeout lock the mutex ...
WaitLock ==
  /\ wpc = "registered"
  /\ mutex = "free"
  /\ mutex' = "waiter"
  /\ wpc' = "comparing"
  /\ UNCHANGED <<waiting, generation, snapshot, npc, taskVars>>

SleepUnchecked ==
  /\ wpc = "comparing"
  /\ wpc' = "sleeping"
  /\ UNCHANGED <<waiting, generation, mutex, snapshot, npc, taskVars>>

\* ... and compare the snapshot under it: is_current.
Compare ==
  /\ wpc = "comparing"
  /\ IF generation = snapshot
     THEN wpc' = "sleeping" /\ mutex' = mutex
     ELSE wpc' = "leaving" /\ mutex' = "free"
  /\ UNCHANGED <<waiting, generation, snapshot, npc, taskVars>>

\* Condvar::wait joins the sleepers and releases the mutex in one step.
Sleep ==
  /\ wpc = "sleeping"
  /\ wpc' = "asleep"
  /\ mutex' = "free"
  /\ UNCHANGED <<waiting, generation, snapshot, npc, taskVars>>

\* The condition variable may wake a thread without a signal, and a timed wait
\* ends by itself.
WakeUnsignalled ==
  /\ wpc = "asleep"
  /\ wpc' = "woken"
  /\ UNCHANGED <<waiting, generation, mutex, snapshot, npc, taskVars>>

\* Condvar::wait locks the mutex again before it returns; the caller drops the
\* guard at once.
Relock ==
  /\ wpc = "woken"
  /\ mutex = "free"
  /\ wpc' = "leaving"
  /\ UNCHANGED <<waiting, generation, mutex, snapshot, npc, taskVars>>

\* WaitRegistration::drop, after the wait or instead of it.
Unregister ==
  /\ wpc \in {"registered", "leaving"}
  /\ waiting' = {}
  /\ wpc' = "out"
  /\ UNCHANGED <<generation, mutex, snapshot, npc, taskVars>>

-----------------------------------------------------------------------------
(* The task of an asynchronous operation.  AtomicWaker (crate atomic-waker) is  *)
(* taken at its word: a wake that overlaps a registration wakes the waker being *)
(* registered.                                                                  *)

cellVars == <<waiting, generation, mutex, wpc, snapshot, npc>>

\* register_async replaces the waker; its fetch_add(0) changes nothing.
RegisterAsync ==
  /\ waker' = {"task"}
  /\ UNCHANGED <<cellVars, woken>>

\* cancel_async takes the waker away.
CancelAsync ==
  /\ waker' = {}
  /\ UNCHANGED <<cellVars, woken>>

\* The executor polls the task: because it was woken, or for no reason.
StartPoll ==
  /\ woken' = {}
  /\ UNCHANGED <<cellVars, waker>>

-----------------------------------------------------------------------------
(* A notifier. *)

\* notify: one fetch_add, which also tells whether a thread is registered ...
Notify(n) ==
  /\ npc[n] = "out"
  /\ generation < MaxGeneration
  /\ generation' = generation + 1
  /\ npc' = [npc EXCEPT ![n] = IF waiting = {} THEN "wake" ELSE "wakeLock"]
  /\ UNCHANGED <<waiting, mutex, wpc, snapshot, taskVars>>

\* ... then the task is woken, and without a registered thread that is all.
WakeTask(n) ==
  /\ npc[n] \in {"wake", "wakeLock"}
  /\ waker' = {}
  /\ woken' = IF waker = {} THEN woken ELSE {"woken"}
  /\ npc' = [npc EXCEPT ![n] = IF npc[n] = "wake" THEN "out" ELSE "lock"]
  /\ UNCHANGED <<waiting, generation, mutex, wpc, snapshot>>

\* notify_waiter locks the mutex ...
NotifyLock(n) ==
  /\ npc[n] = "lock"
  /\ mutex = "free"
  /\ mutex' = n
  /\ npc' = [npc EXCEPT ![n] = "signal"]
  /\ UNCHANGED <<waiting, generation, wpc, snapshot, taskVars>>

\* ... and signals if the waiter is still registered.  A signal nobody sleeps
\* for is lost, as condition variables lose it.
Signal(n) ==
  /\ npc[n] = "signal"
  /\ wpc' = IF wpc = "asleep" /\ waiting # {} THEN "woken" ELSE wpc
  /\ mutex' = "free"
  /\ npc' = [npc EXCEPT ![n] = "out"]
  /\ UNCHANGED <<waiting, generation, snapshot, taskVars>>

-----------------------------------------------------------------------------

Waiter ==
  Prepare \/ WaitLock \/ Compare \/ Sleep \/ WakeUnsignalled \/ Relock \/ Unregister
Task == RegisterAsync \/ CancelAsync \/ StartPoll
Notifier(n) == Notify(n) \/ WakeTask(n) \/ NotifyLock(n) \/ Signal(n)

Next == Waiter \/ Task \/ \E n \in Notifiers : Notifier(n)

Spec == Init /\ [][Next]_vars

\* A thread that holds the mutex or wants it runs on, and the lock starves no
\* notifier.  The waiter may stop for ever at its recheck.
LockFairness ==
  /\ WF_vars(Compare) /\ WF_vars(Sleep)
  /\ \A n \in Notifiers : WF_vars(WakeTask(n)) /\ SF_vars(NotifyLock(n)) /\ WF_vars(Signal(n))

FairSpec == Spec /\ LockFairness

-----------------------------------------------------------------------------
(* Properties. *)

\* Types of the cell and of the threads' places.
TypeOK ==
  /\ waiting \in {{}, {"WAITING"}}
  /\ generation \in Nat /\ snapshot \in Nat
  /\ mutex \in Notifiers \union {"free", "waiter"}
  /\ wpc \in {"out", "registered", "comparing", "sleeping", "asleep", "woken", "leaving"}
  /\ npc \in [Notifiers -> {"out", "wake", "wakeLock", "lock", "signal"}]
  /\ waker \in {{}, {"task"}} /\ woken \in {{}, {"woken"}}

\* The debug_assert of prepare: no earlier registration is left in the word.
RegisteredOnce == wpc = "out" <=> waiting = {}

\* The cell's promise: "it either changes the snapshot or finds the waiter
\* asleep".  A waiter that sleeps, or is about to, although a notification came after its
\* registration has a notifier on its way to the signal.
NoLostWakeup ==
  (wpc \in {"sleeping", "asleep"} /\ generation # snapshot) =>
     \E n \in Notifiers : npc[n] \in {"wakeLock", "lock", "signal"}

\* Who holds the mutex.
MutexInv ==
  /\ mutex = "waiter" <=> wpc \in {"comparing", "sleeping"}
  /\ \A n \in Notifiers : mutex = n <=> npc[n] = "signal"

\* A snapshot is never ahead of the generation it was taken from.
SnapshotInv == snapshot <= generation

\* The inductive invariant.
IInv == TypeOK /\ RegisteredOnce /\ NoLostWakeup /\ MutexInv /\ SnapshotInv

\* The cell implements the token its users reason with: a registration is
\* notified once the generation has left its snapshot.
waitToken ==
  CASE wpc = "out" -> "out"
    [] wpc # "out" /\ generation = snapshot -> "registered"
    [] wpc # "out" /\ generation # snapshot -> "notified"
abstract == INSTANCE WaitToken WITH token <- waitToken
ImplementsToken == abstract!Spec

\* "Notifiers never wait for a recheck": notify returns although the waiter
\* takes no step between its registration and its wait.
NotifyReturns == \A n \in Notifiers : (npc[n] # "out") ~> (npc[n] = "out")
=============================================================================
