----------------------------- MODULE YRingHints -----------------------------
(***************************************************************************)
(* The wake-up hints of the yring ring.  flush_and_check, release_with_full *)
(* and prefetch_and_pop_with_full tell their caller whether the peer needs *)
(* a wake; push, is_full, prefetch and is_empty register the caller in the *)
(* Waiter of its side and look again before they report a full or an empty *)
(* ring.                                                                   *)
(*                                                                         *)
(* The callers do what the documentation of these methods asks: a side     *)
(* waits only after one of its checks has found nothing, the producer has  *)
(* flushed by then, and whoever is told to signals the peer.  The signal   *)
(* is the callers' own (a thread's park token): it is kept until taken.    *)
(*                                                                         *)
(* A step ends before an exchange with a cell that both sides write, or    *)
(* before a load whose result depends on how late it is made.  What a      *)
(* thread loads and stores in between, its peer meets in the same orders   *)
(* whether it is one step or several.                                      *)
(***************************************************************************)
EXTENDS RingMemory

VARIABLES
  observed,     \* the argument each side passes to Waiter::take
  dry           \* the side's last check has found nothing

hintVars == <<observed, dry>>

Idle(s) == flavour = "hints" /\ pc[s] = "idle"
Running(s, place) == flavour = "hints" /\ pc[s] = place

HintUnused ==
  /\ observed = [s \in Sides |-> FALSE]
  /\ dry = [s \in Sides |-> FALSE]

HintInit == flavour = "hints" /\ RingInit /\ HintUnused

-----------------------------------------------------------------------------
(* Waiter.  Side s waits; its peer notifies. *)

\* Waiter::enable, by the side that notifies.
Enabling(s) == Storing(stores[s], "enabled", TRUE)

\* Mutant: the registration is a plain store, which meets nothing.
RegisterByStore(s, peers) ==
  /\ waiting' = [waiting EXCEPT ![s] = Written(TRUE, s, stores[s])]
  /\ Memory(s, Storing(stores[s], "armed", TRUE), peers)

\* Waiter::register on an enabled waiter.
Register(s, peers) ==
  /\ waiting' = [waiting EXCEPT ![s] = Written(TRUE, s, stores[s])]
  /\ Memory(s, Storing(stores[s], "armed", TRUE), Met(waiting[s], s, peers))

\* A check has found nothing, and peers is what it leaves to be known: it gives
\* up if the waiter is not seen enabled, else it registers and looks again.
FoundNothing(s, o, peers) ==
  \E later \in Loads(peers, "enabled") :
    \/ /\ ~Head(later).enabled
       /\ Memory(s, stores[s], later)
       /\ dry' = [dry EXCEPT ![s] = TRUE]
       /\ At(s, "idle")
       /\ UNCHANGED <<waiting, op>>
    \/ /\ Head(later).enabled
       /\ Register(s, later)
       /\ At(s, "recheck")
       /\ Doing(s, o)
       /\ UNCHANGED dry

\* The check made after the registration has found nothing either.
FoundNothingAgain(s, peers) ==
  /\ Memory(s, stores[s], peers)
  /\ dry' = [dry EXCEPT ![s] = TRUE]
  /\ At(s, "idle")
  /\ Doing(s, "none")
  /\ UNCHANGED waiting

\* Waiter::take, by side s on its peer's waiter: a store if s wakes anyway,
\* because it has seen the transition or no acknowledgment, else an exchange.
Take(s) ==
  LET w == waiting[Peer(s)]
  IN  /\ Running(s, "take")
      /\ \E peers \in IF observed[s] THEN {stores[Peer(s)]} ELSE Loads(stores[Peer(s)], "armed") :
           \/ /\ observed[s] \/ ~Head(peers).armed
              /\ Memory(s, stores[s], peers)
              /\ At(s, "signal")
           \/ /\ ~observed[s] /\ Head(peers).armed
              /\ Memory(s, stores[s], Met(w, s, peers))
              /\ At(s, IF w.set THEN "signal" ELSE "idle")
      /\ waiting' = [waiting EXCEPT ![Peer(s)] = Written(FALSE, s, stores[s])]
      /\ observed' = [observed EXCEPT ![s] = FALSE]
      /\ UNCHANGED <<flavour, ringVars, signal, op, dry>>

\* The caller acts on the hint.
Notify(s) ==
  /\ Running(s, "signal")
  /\ signal' = Wakening(Peer(s))
  /\ At(s, "idle")
  /\ UNCHANGED <<flavour, ringVars, stores, waiting, op, hintVars>>

-----------------------------------------------------------------------------
(* Producer. *)

\* push with room in the ring, or is_full returning false.
Space(o, peers) ==
  /\ HasRoom(HeadRead(peers))
  /\ cursor' = IF o = "push" THEN cursor + 1 ELSE cursor
  /\ Memory("prod", stores["prod"], peers)
  /\ dry' = [dry EXCEPT !["prod"] = FALSE]
  /\ At("prod", "idle")
  /\ Doing("prod", "none")
  /\ UNCHANGED waiting

\* push (o = "push") and is_full (o = "is_full").
PushOrIsFull(o) ==
  /\ Idle("prod")
  /\ cursor < MaxPushes
  /\ \E peers \in HeadLoads :
       /\ cachedHead' = HeadRead(peers)
       /\ \/ Space(o, peers)
          \/ ~HasRoom(HeadRead(peers)) /\ FoundNothing("prod", o, peers) /\ UNCHANGED cursor
  /\ UNCHANGED <<flavour, chead, cachedTail, signal, observed>>

\* The second attempt, of push_after_full or is_full.
RecheckFull ==
  /\ Running("prod", "recheck")
  /\ \E peers \in HeadLoads :
       /\ cachedHead' = HeadRead(peers)
       /\ \/ Space(op["prod"], peers)
          \/ ~HasRoom(HeadRead(peers)) /\ FoundNothingAgain("prod", peers) /\ UNCHANGED cursor
  /\ UNCHANGED <<flavour, chead, cachedTail, signal, observed>>

\* flush_and_check up to Waiter::take.
FlushAndCheck ==
  LET flushed == Now("prod").cursor
  IN  /\ Idle("prod")
      /\ IF cursor = flushed
         THEN /\ Memory("prod", Enabling("prod"), stores["cons"])
              /\ UNCHANGED <<cachedHead, observed, pc>>
         ELSE \E peers \in Loads(stores["cons"], "cursor") :
                /\ cachedHead' = Head(peers).cursor
                /\ observed' = [observed EXCEPT !["prod"] = (flushed = Head(peers).cursor)]
                /\ Memory("prod", Storing(Enabling("prod"), "cursor", cursor), peers)
                /\ At("prod", "take")
      /\ UNCHANGED <<flavour, cursor, chead, cachedTail, waiting, signal, op, dry>>

-----------------------------------------------------------------------------
(* Consumer. *)

\* prefetch always loads the tail; is_empty and prefetch_and_pop_with_full
\* only when the window is used up.
Looks(o) == o = "prefetch" \/ chead = cachedTail
TailLoads(o) == IF Looks(o) THEN Loads(stores["prod"], "cursor") ELSE {stores["prod"]}
TailRead(o, past) == IF Looks(o) THEN Head(past).cursor ELSE cachedTail

\* The window after a look at the tail, which is_empty leaves alone.
Window(o, past) == cachedTail' = IF o = "is_empty" THEN cachedTail ELSE TailRead(o, past)

\* A value is visible; prefetch_and_pop_with_full goes on to pop it.
Visible(o, peers) ==
  /\ TailRead(o, peers) # chead
  /\ Memory("cons", stores["cons"], peers)
  /\ dry' = [dry EXCEPT !["cons"] = FALSE]
  /\ At("cons", IF o = "pop_with_full" THEN "pop" ELSE "idle")
  /\ Doing("cons", "none")
  /\ UNCHANGED waiting

Look(o) ==
  /\ \E peers \in TailLoads(o) :
       /\ Window(o, peers)
       /\ \/ Visible(o, peers)
          \/ TailRead(o, peers) = chead /\ FoundNothing("cons", o, peers)
  /\ UNCHANGED <<flavour, cursor, cachedHead, chead, signal, observed>>

\* prefetch and is_empty.
PrefetchOrIsEmpty(o) == Idle("cons") /\ Look(o)

\* The second look, of prefetch_after_empty or is_empty.
RecheckEmpty ==
  /\ Running("cons", "recheck")
  /\ \E peers \in TailLoads(op["cons"]) :
       /\ Window(op["cons"], peers)
       /\ \/ Visible(op["cons"], peers)
          \/ TailRead(op["cons"], peers) = chead /\ FoundNothingAgain("cons", peers)
  /\ UNCHANGED <<flavour, cursor, cachedHead, chead, signal, observed>>

Pop ==
  /\ Idle("cons")
  /\ chead # cachedTail
  /\ chead' = chead + 1
  /\ UNCHANGED <<flavour, cursor, cachedHead, cachedTail, stores, waiting, signal, pc, op,
                 hintVars>>

\* The head goes out; Waiter::take follows.
Release(own, h, full) ==
  /\ Memory("cons", Storing(own, "cursor", h), stores["prod"])
  /\ observed' = [observed EXCEPT !["cons"] = full]
  /\ At("cons", "take")

\* release_with_full up to Waiter::take.
ReleaseWithFull ==
  LET published == Now("cons").cursor
  IN  /\ Idle("cons")
      /\ IF chead = published
         THEN Memory("cons", Enabling("cons"), stores["prod"]) /\ UNCHANGED <<observed, pc>>
         ELSE Release(Enabling("cons"), chead, cachedTail - published >= Cap)
      /\ UNCHANGED <<flavour, ringVars, waiting, signal, op, dry>>

\* prefetch_and_pop_with_full, which enables the waiter first.
EnableSpace ==
  /\ Idle("cons")
  /\ Memory("cons", Enabling("cons"), stores["prod"])
  /\ At("cons", "look")
  /\ UNCHANGED <<flavour, ringVars, waiting, signal, op, hintVars>>

LookForPop == Running("cons", "look") /\ Look("pop_with_full")

PopWithFull ==
  /\ Running("cons", "pop")
  /\ chead' = chead + 1
  /\ Release(stores["cons"], chead + 1, cachedTail - chead >= Cap)
  /\ UNCHANGED <<flavour, cursor, cachedHead, cachedTail, waiting, signal, op, dry>>

-----------------------------------------------------------------------------
(* The callers. *)

Wait(s) ==
  /\ Idle(s)
  /\ dry[s]
  /\ s = "prod" => cursor = Now("prod").cursor
  /\ At(s, "asleep")
  /\ UNCHANGED <<flavour, ringVars, stores, waiting, signal, op, hintVars>>

Wake(s) ==
  /\ Running(s, "asleep")
  /\ Wakened(s)
  /\ dry' = [dry EXCEPT ![s] = FALSE]
  /\ At(s, "idle")
  /\ UNCHANGED <<flavour, ringVars, waiting, op, observed>>

\* What side s does within a call, as a caller told to signal, and on a signal.
HintStep(s) ==
  \/ Take(s) \/ Notify(s) \/ Wake(s)
  \/ s = "prod" /\ RecheckFull
  \/ s = "cons" /\ (RecheckEmpty \/ LookForPop \/ PopWithFull)

\* What the callers may call.
HintCall ==
  \/ \E o \in {"push", "is_full"} : PushOrIsFull(o)
  \/ FlushAndCheck
  \/ \E o \in {"prefetch", "is_empty"} : PrefetchOrIsEmpty(o)
  \/ Pop
  \/ ReleaseWithFull
  \/ EnableSpace
  \/ \E s \in Sides : Wait(s)

HintNext == HintCall \/ \E s \in Sides : HintStep(s)
=============================================================================
