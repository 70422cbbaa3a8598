------------------------ MODULE MpscRegistryProofs ------------------------
(***************************************************************************)
(* The registry is exact, the drop of the receiver closes every lane, and  *)
(* no lane is hidden from the receiver while it lives, for any number of   *)
(* senders, any page size, any limit on the lanes and any number of        *)
(* generations.                                                            *)
(***************************************************************************)
EXTENDS MpscRegistry, FiniteSetTheorems, SequenceTheorems, TLAPS

\* A channel as build_channel leaves it satisfies the invariant.
LEMMA InitInv == Init => IInv
<1> SUFFICES ASSUME Init PROVE IInv
  BY Zenon
<1> USE SendersAssumption, LimitsAssumption DEF Init, NoKey, Keys, Attached, Leaving, Taken
<1>1. TypeOK
  BY DEF TypeOK
<1>2. SlotsInv
  BY DEF SlotsInv
<1>3. KeysInv
  BY DEF KeysInv
<1>4. DropInv
  BY Zenon DEF DropInv
<1>5. Attached = {First} /\ Open = {First}
  BY DEF Open
<1>6. RegistryExact
  <2>1. Cardinality({First}) = 1
    BY FS_Singleton, Zenon
  <2> QED
    BY <1>5, <2>1 DEF RegistryExact
<1> QED
  BY <1>1, <1>2, <1>3, <1>4, <1>6, Zenon DEF IInv

\* A step that touches neither keys nor slots nor counters, whatever it does with
\* the rings, the index and the rotation, preserves the invariant.
LEMMA Frame ==
  ASSUME IInv,
         pendingLanes' \subseteq Senders, lanes' \subseteq Senders, Attached' = Attached,
         lanes' \intersect pendingLanes' = {},
         dropped \subseteq dropped', dropped' \subseteq Senders,
         UNCHANGED <<free, nextSlot, registered, live, key, alive>>,
         spc' \in [Senders -> {"unborn", "registering", "idle", "mark", "page", "group", "gone"}],
         \A s \in Senders : /\ spc'[s] = "gone" <=> spc[s] = "gone"
                            /\ spc'[s] \in {"unborn", "registering"}
                                 <=> spc[s] \in {"unborn", "registering"},
         \/ UNCHANGED <<rpc, cur, lanes, pendingLanes>>
         \/ alive /\ {rpc, rpc'} \cap {"free", "close", "closePending", "gone"} = {}
  PROVE  IInv'
<1> USE DEF IInv
<1>1. Leaving' = Leaving
  BY Zenon DEF Leaving, DropInv
<1>2. Taken' = Taken
  BY <1>1, Zenon DEF Taken
<1>3. TypeOK'
  BY Zenon DEF TypeOK
<1>4. SlotsInv'
  BY <1>1, <1>2, ZenonT(30) DEF SlotsInv
<1>5. KeysInv'
  BY <1>2, Zenon DEF KeysInv
<1>6. DropInv'
  BY <1>1, Zenon DEF DropInv
<1>7. Open' = Open
  BY Zenon DEF Open
<1>8. RegistryExact'
  BY <1>7, Zenon DEF RegistryExact, DropInv
<1> QED
  BY <1>3, <1>4, <1>5, <1>6, <1>8, Zenon

\* A sender that goes on in its registration, its send or its drop changes nothing
\* of the registry.
LEMMA SenderMoves ==
  ASSUME IInv, NEW s \in Senders, NEW label, spc' = [spc EXCEPT ![s] = label],
         \/ {spc[s], label} \subseteq {"unborn", "registering"}
         \/ {spc[s], label} \subseteq {"idle", "mark", "page", "group"},
         UNCHANGED <<pendingLanes, lanes, dropped, free, nextSlot, registered, live, key,
                     alive, rpc, cur>>
  PROVE  IInv'
<1>1. /\ pendingLanes \subseteq Senders /\ lanes \subseteq Senders /\ dropped \subseteq Senders
      /\ spc \in [Senders -> {"unborn", "registering", "idle", "mark", "page", "group", "gone"}]
      /\ lanes \intersect pendingLanes = {}
  BY Zenon DEF IInv, TypeOK, SlotsInv
<1>2. Attached' = Attached
  BY DEF Attached
<1>3. spc' \in [Senders -> {"unborn", "registering", "idle", "mark", "page", "group", "gone"}]
  BY <1>1
<1>4. \A r \in Senders : /\ spc'[r] = "gone" <=> spc[r] = "gone"
                         /\ spc'[r] \in {"unborn", "registering"}
                              <=> spc[r] \in {"unborn", "registering"}
  BY <1>1, Zenon
<1> QED
  BY <1>1, <1>2, <1>3, <1>4, Frame, Zenon

\* Adopting the pending lanes attaches none and loses none.
LEMMA RefreshAttached ==
  ASSUME IInv, Refresh, lanes' = Adopted
  PROVE  /\ Attached' = Attached
         /\ lanes' \intersect pendingLanes' = {}
         /\ pendingLanes' \subseteq Senders
         /\ lanes' \subseteq Senders
BY Zenon DEF IInv, TypeOK, SlotsInv, Refresh, Adopted, Attached

\* The last slot freed, or a new slot: the key that allocate_lane hands out is a
\* key of no sender, its slot is in no use, and it is the newest of that slot.
LEMMA AllocatedFresh ==
  ASSUME IInv
  PROVE  /\ Allocated \in Keys
         /\ \A k \in Taken : k.slot # Allocated.slot
         /\ \A s \in Senders : key[s] # NoKey /\ key[s].slot = Allocated.slot
                                  => key[s].generation < Allocated.generation
<1> USE DEF IInv, TypeOK
<1>1. CASE free = << >>
  BY <1>1 DEF Allocated, Keys, SlotsInv, KeysInv, Taken
<1>2. CASE free # << >>
  <2>1. Allocated = free[Len(free)] /\ Len(free) \in DOMAIN free
    BY <1>2 DEF Allocated
  <2> QED
    BY <2>1 DEF SlotsInv, KeysInv
<1> QED
  BY <1>1, <1>2, Zenon

\* What is left of the free list once a key is taken from it.
LEMMA FreeLeft ==
  ASSUME free \in Seq(Keys), free # << >>,
         NEW f, f = SubSeq(free, 1, Len(free) - 1)
  PROVE  /\ f \in Seq(Keys)
         /\ DOMAIN f = 1..(Len(free) - 1)
         /\ \A i \in DOMAIN f : f[i] = free[i]
<1>1. \A i \in 1..(Len(free) - 1) : free[i] \in Keys
  OBVIOUS
<1>2. /\ f \in Seq(Keys)
      /\ Len(f) = IF 1 <= Len(free) - 1 THEN Len(free) - 1 - 1 + 1 ELSE 0
      /\ \A i \in 1..(Len(free) - 1 - 1 + 1) : f[i] = free[1 + i - 1]
  BY <1>1, SubSeqProperties
<1> QED
  BY <1>2

\* register_sender under the lock preserves the invariant.
LEMMA RegisterInv ==
  ASSUME IInv, NEW n \in Senders, Register(n)
  PROVE  IInv'
<1> USE DEF IInv
<1>1. /\ alive /\ registered < MaxLanes /\ spc[n] = "registering" /\ key[n] = NoKey
      /\ rpc \notin {"close", "closePending", "gone"}
  BY Zenon DEF Register, Attach, TypeOK, DropInv
<1>2. /\ key' = [key EXCEPT ![n] = Allocated] /\ spc' = [spc EXCEPT ![n] = "idle"]
      /\ pendingLanes' = pendingLanes \union {n} /\ registered' = registered + 1
      /\ live' = live + 1
      /\ UNCHANGED <<lanes, rpc, cur, alive, dropped>>
  BY Zenon DEF Register, Attach, Goto, receiverVars
<1>3. /\ Allocated \in Keys
      /\ \A k \in Taken : k.slot # Allocated.slot
      /\ \A s \in Senders : key[s] # NoKey /\ key[s].slot = Allocated.slot
                               => key[s].generation < Allocated.generation
  BY AllocatedFresh, Zenon
<1>4. Allocated # NoKey
  BY <1>3 DEF Keys, NoKey
<1>5. /\ Attached' = Attached \union {n} /\ n \notin Attached /\ Leaving' = Leaving
      /\ \A s \in Senders \ {n} : key'[s] = key[s]
      /\ key'[n] = Allocated
  BY <1>1, <1>2, Zenon DEF Attached, Leaving, SlotsInv, TypeOK
<1>6. Taken' = Taken \union {Allocated}
  <2>1. Attached \subseteq Senders
    BY Zenon DEF Attached, TypeOK
  <2> QED
    BY <1>5, <2>1, Zenon DEF Taken
<1>7. /\ free' \in Seq(Keys) /\ nextSlot' \in Nat /\ nextSlot' >= nextSlot
      /\ DOMAIN free' \subseteq DOMAIN free
      /\ \A i \in DOMAIN free' : free'[i] = free[i] /\ free'[i].slot # Allocated.slot
      /\ Allocated.slot < nextSlot'
  <2>1. CASE free = << >>
    BY <2>1 DEF Register, Attach, Allocated, TypeOK
  <2>2. CASE free # << >>
    <3>1. /\ free' = SubSeq(free, 1, Len(free) - 1) /\ nextSlot' = nextSlot
          /\ Allocated = free[Len(free)]
      BY <2>2, Zenon DEF Register, Attach, Allocated
    <3>2. free \in Seq(Keys) /\ nextSlot \in Nat
      BY Zenon DEF TypeOK
    <3>3. /\ free' \in Seq(Keys)
          /\ DOMAIN free' = 1..(Len(free) - 1)
          /\ \A i \in DOMAIN free' : free'[i] = free[i]
      BY <2>2, <3>1, <3>2, FreeLeft
    <3>4. Len(free) \in DOMAIN free /\ DOMAIN free = 1..Len(free)
      BY <2>2, <3>2
    <3>5. \A i \in 1..(Len(free) - 1) : free[i].slot # free[Len(free)].slot
      BY <3>2, <3>4 DEF SlotsInv
    <3>6. free[Len(free)].slot < nextSlot
      BY <3>4, Zenon DEF KeysInv
    <3> QED
      BY <3>1, <3>2, <3>3, <3>4, <3>5, <3>6
  <2> QED
    BY <2>1, <2>2, Zenon
<1>8. TypeOK'
  BY <1>1, <1>2, <1>3, <1>4, <1>7 DEF TypeOK
<1>9. SlotsInv'
  <2>1. \A l \in Attached : key[l] \in Taken /\ l \in Senders \ {n}
    BY <1>5, Zenon DEF Taken, Attached, TypeOK
  <2>2. \A k \in Leaving : k \in Taken
    BY Zenon DEF Taken
  <2>3. lanes' \intersect pendingLanes' = {}
    BY <1>2, <1>5, ZenonT(30) DEF SlotsInv, Attached
  <2> QED
    BY <1>2, <1>3, <1>4, <1>5, <1>6, <1>7, <2>1, <2>2, <2>3 DEF SlotsInv
<1>10. KeysInv'
  <2>1. \A k \in Taken' : k.slot < nextSlot'
    <3>1. \A k \in Taken : k \in Keys
      BY DEF Taken, SlotsInv, TypeOK, Attached
    <3> QED
      BY <1>6, <1>7, <3>1 DEF KeysInv, TypeOK, Keys
  <2>2. \A i \in DOMAIN free' : free'[i].slot < nextSlot'
    <3> SUFFICES ASSUME NEW i \in DOMAIN free' PROVE free'[i].slot < nextSlot'
      BY Zenon
    <3>1. free'[i] = free[i] /\ i \in DOMAIN free /\ free[i].slot < nextSlot
      BY <1>7, Zenon DEF KeysInv
    <3>2. free[i] \in Keys
      BY <3>1 DEF TypeOK
    <3> QED
      BY <1>7, <3>1, <3>2 DEF TypeOK, Keys
  <2>3. ASSUME NEW s \in Senders, key'[s] # NoKey
        PROVE  /\ key'[s].slot < nextSlot'
               /\ \A k \in Taken' : k.slot = key'[s].slot => key'[s].generation <= k.generation
               /\ \A i \in DOMAIN free' :
                    free'[i].slot = key'[s].slot => key'[s].generation < free'[i].generation
    <3>1. CASE s = n
      BY <1>3, <1>5, <1>6, <1>7, <3>1 DEF Keys
    <3>2. CASE s # n
      <4>1. key'[s] = key[s] /\ key[s] \in Keys
        BY <1>5, <2>3, <3>2, Zenon DEF TypeOK
      <4>2. /\ key[s] # NoKey /\ key[s].slot < nextSlot
            /\ \A k \in Taken : k.slot = key[s].slot => key[s].generation <= k.generation
            /\ \A i \in DOMAIN free :
                 free[i].slot = key[s].slot => key[s].generation < free[i].generation
        BY <2>3, <4>1, Zenon DEF KeysInv
      <4>3. key'[s].slot < nextSlot'
        BY <1>7, <4>1, <4>2 DEF Keys, TypeOK
      <4>4. \A k \in Taken' : k.slot = key'[s].slot => key'[s].generation <= k.generation
        BY <1>3, <1>6, <4>1, <4>2 DEF Keys
      <4>5. \A i \in DOMAIN free' :
              free'[i].slot = key'[s].slot => key'[s].generation < free'[i].generation
        BY <1>7, <4>1, <4>2, Zenon
      <4> QED
        BY <4>3, <4>4, <4>5, Zenon
    <3> QED
      BY <3>1, <3>2, Zenon
  <2> QED
    BY <2>1, <2>2, <2>3, Zenon DEF KeysInv
<1>11. DropInv'
  BY <1>1, <1>2, <1>5, Zenon DEF DropInv, TypeOK
<1>12. RegistryExact'
  <2>1. \A a, b \in Senders : key'[a] = key'[b] /\ key'[a] # NoKey => a = b
    BY <1>3, <1>4, <1>5 DEF RegistryExact, Keys
  <2>2. \A a, b \in Attached' : key'[a].slot = key'[b].slot => a = b
    BY <1>9, Zenon DEF SlotsInv
  <2>3. IsFiniteSet(Attached) /\ IsFiniteSet(Open)
    BY SendersAssumption, FS_Subset, Zenon DEF Attached, Open, TypeOK
  <2>4. Cardinality(Attached') = Cardinality(Attached) + 1
    BY <1>5, <2>3, FS_AddElement, Zenon
  <2>5. Open' = Open \union {n} /\ n \notin Open
    BY <1>1, <1>2, <1>4, <1>5, ZenonT(30) DEF Open, TypeOK
  <2>6. Cardinality(Open') = Cardinality(Open) + 1
    BY <2>3, <2>5, FS_AddElement, Zenon
  <2>7. registered' <= MaxLanes
    BY <1>1, <1>2, LimitsAssumption DEF TypeOK
  <2> QED
    BY <1>1, <1>2, <2>1, <2>2, <2>4, <2>6, <2>7, Zenon DEF RegistryExact
<1> QED
  BY <1>8, <1>9, <1>10, <1>11, <1>12, Zenon

\* The lanes that match a key are at most one: the one that Retire takes out.
LEMMA RetireInv ==
  ASSUME IInv, alive, rpc # "free", NEW l \in Adopted,
         TypeOK', UNCHANGED <<alive, key, spc, free, nextSlot, live>>,
         lanes' \union pendingLanes' = Attached \ {l}, lanes' \intersect pendingLanes' = {},
         registered' = registered - 1, dropped \subseteq dropped',
         rpc' = "free", cur' = key[l]
  PROVE  IInv'
<1> USE DEF IInv
<1>1. l \in Attached /\ l \in Senders /\ key[l] \in Keys /\ Attached' = Attached \ {l}
  BY ZenonT(30) DEF Adopted, Attached, TypeOK, SlotsInv
<1>2. Leaving = {} /\ Leaving' = {key[l]}
  BY DEF Leaving
<1>3. Taken' = Taken
  BY <1>1, <1>2, Zenon DEF Taken
<1>4. SlotsInv'
  BY <1>1, <1>2, <1>3, ZenonT(30) DEF SlotsInv
<1>5. KeysInv'
  BY <1>3, Zenon DEF KeysInv
<1>6. DropInv'
  BY <1>1, <1>2, Zenon DEF DropInv
<1>7. RegistryExact'
  <2>1. IsFiniteSet(Attached)
    BY SendersAssumption, FS_Subset, Zenon DEF Attached, TypeOK
  <2>2. Cardinality(Attached') = Cardinality(Attached) - 1
    BY <1>1, <2>1, FS_RemoveElement, Zenon
  <2>3. Open' = Open
    BY Zenon DEF Open
  <2>4. registered = Cardinality(Attached)
    BY Zenon DEF RegistryExact, DropInv
  <2>5. registered' = Cardinality(Attached')
    BY <2>2, <2>4, Zenon
  <2>6. registered' <= MaxLanes
    BY LimitsAssumption DEF RegistryExact, TypeOK
  <2> QED
    BY <1>1, <2>3, <2>5, <2>6, Zenon DEF RegistryExact
<1> QED
  BY <1>4, <1>5, <1>6, <1>7, Zenon

\* Registry::retire_lane preserves the invariant.
LEMMA FreeSlotInv ==
  ASSUME IInv, FreeSlot
  PROVE  IInv'
<1> USE DEF IInv
<1> DEFINE new == [cur EXCEPT !.generation = @ + 1]
<1>1. /\ rpc = "free" /\ rpc' = "idle" /\ cur \in Keys /\ Leaving = {cur} /\ Leaving' = {}
      /\ Attached' = Attached
      /\ UNCHANGED <<alive, key, spc, nextSlot, live, registered, lanes, pendingLanes>>
      /\ dropped' = dropped \union {l \in Senders : key[l] = cur}
  BY Zenon DEF FreeSlot, Leaving, SlotsInv, RGoto, senderVars, Attached
<1>2. new \in Keys /\ new.slot = cur.slot /\ new.generation = cur.generation + 1
  BY <1>1 DEF Keys
<1>3. \/ free' = free
      \/ /\ free' = Append(free, new)
         /\ free' \in Seq(Keys) /\ DOMAIN free' = 1..(Len(free) + 1)
         /\ \A i \in 1..Len(free) : free'[i] = free[i]
         /\ free'[Len(free) + 1] = new
  BY <1>1, <1>2 DEF FreeSlot, TypeOK
<1>4. Taken = Taken' \union {cur} /\ \A k \in Taken' : \E l \in Attached : k = key[l]
  BY <1>1, Zenon DEF Taken
<1>5. TypeOK'
  BY <1>1, <1>3, Zenon DEF TypeOK
<1>6. DOMAIN free = 1..Len(free) /\ Len(free) \in Nat
  BY DEF TypeOK
<1> DEFINE Kept(i) == i \in DOMAIN free /\ free'[i] = free[i]
           Added(i) == i = Len(free) + 1 /\ free'[i] = new
<1>6a. \A i \in DOMAIN free' : Kept(i) \/ Added(i)
  BY <1>3, <1>6
<1> HIDE DEF new
<1>7. SlotsInv'
  <2>1. \A k \in Taken' : k.slot # cur.slot
    BY <1>1, <1>4, ZenonT(30) DEF SlotsInv
  <2>2. \A i \in 1..Len(free) : free[i].slot # cur.slot
    BY <1>4, <1>6, Zenon DEF SlotsInv
  <2>3. \A i \in DOMAIN free', k \in Taken' : free'[i].slot # k.slot
    BY <1>2, <1>4, <1>6a, <2>1 DEF SlotsInv
  <2>4. \A i, j \in DOMAIN free' : free'[i].slot = free'[j].slot => i = j
    BY <1>2, <1>6, <1>6a, <2>2, Zenon DEF SlotsInv
  <2> QED
    BY <1>1, <2>3, <2>4, ZenonT(30) DEF SlotsInv
<1>8. KeysInv'
  <2>1. \A i \in DOMAIN free' : free'[i].slot < nextSlot
    BY <1>2, <1>4, <1>6a, Zenon DEF KeysInv
  <2>2. ASSUME NEW s \in Senders, key[s] # NoKey, NEW i \in DOMAIN free',
               free'[i].slot = key[s].slot
        PROVE  key[s].generation < free'[i].generation
    <3>1. key[s] \in Keys
      BY <2>2, Zenon DEF TypeOK
    <3>2. CASE Kept(i)
      BY <2>2, <3>2, Zenon DEF KeysInv
    <3>3. CASE Added(i)
      <4>1. key[s].generation <= cur.generation
        BY <1>2, <1>4, <2>2, <3>3, Zenon DEF KeysInv
      <4> QED
        BY <1>1, <1>2, <3>1, <3>3, <4>1 DEF Keys
    <3> QED
      BY <1>6a, <3>2, <3>3, Zenon
  <2> QED
    BY <1>1, <1>4, <2>1, <2>2, Zenon DEF KeysInv
<1>9. DropInv'
  BY <1>1, Zenon DEF DropInv
<1>10. RegistryExact'
  <2>1. Open' = Open
    BY <1>1, Zenon DEF Open
  <2> QED
    BY <1>1, <2>1, Zenon DEF RegistryExact
<1> QED
  BY <1>5, <1>7, <1>8, <1>9, <1>10, Zenon

\* The end of a mark, which in Sender::drop lowers live_senders, preserves the
\* invariant.
LEMMA EndMarkInv ==
  ASSUME IInv, NEW s \in Senders, spc[s] \in {"mark", "page", "group"}, EndMark(s),
         UNCHANGED <<pendingLanes, lanes, dropped, free, nextSlot, registered, key, alive, rpc, cur>>
  PROVE  IInv'
<1>1. CASE s \notin closed
  BY <1>1, SenderMoves, Zenon DEF EndMark, Goto
<1>2. CASE s \in closed
  <2> USE DEF IInv
  <2>1. spc' = [spc EXCEPT ![s] = "gone"] /\ live' = live - 1
    BY <1>2, Zenon DEF EndMark, Goto
  <2>2. Attached' = Attached /\ Leaving' = Leaving
    BY Zenon DEF Attached, Leaving
  <2>3. Taken' = Taken
    BY <2>2, Zenon DEF Taken
  <2>4. TypeOK'
    BY <2>1 DEF TypeOK
  <2>5. SlotsInv'
    BY <2>2, <2>3, ZenonT(30) DEF SlotsInv
  <2>6. KeysInv'
    BY <2>3, Zenon DEF KeysInv
  <2>7. DropInv'
    BY <2>2, Zenon DEF DropInv
  <2>8. Open' = Open \ {s} /\ s \in Open
    BY <2>1, Zenon DEF Open, TypeOK
  <2>9. IsFiniteSet(Open)
    BY SendersAssumption, FS_Subset, Zenon DEF Open
  <2>10. Cardinality(Open') = Cardinality(Open) - 1
    BY <2>8, <2>9, FS_RemoveElement, Zenon
  <2>11. RegistryExact'
    BY <2>1, <2>2, <2>10, Zenon DEF RegistryExact
  <2> QED
    BY <2>4, <2>5, <2>6, <2>7, <2>11, Zenon
<1> QED
  BY <1>1, <1>2, Zenon

\* Every step of a sender preserves the invariant.
LEMMA SenderInv ==
  ASSUME IInv, NEW s \in Senders, Sender(s)
  PROVE  IInv'
<1> USE DEF Goto, GoOn, registryVars, receiverVars, senderVars, indexVars
<1>1. ASSUME NEW n \in Senders, StartRegister(s, n) PROVE IInv'
  BY <1>1, SenderMoves, Zenon DEF StartRegister
<1>2. CASE Register(s)
  BY <1>2, RegisterInv, Zenon
<1>3. CASE RegisterFails(s)
  BY <1>3, SenderMoves, Zenon DEF RegisterFails
<1>4. CASE Send(s)
  BY <1>4, SenderMoves, Zenon DEF Send
<1>5. CASE Drop(s)
  BY <1>5, SenderMoves, Zenon DEF Drop
<1>6. CASE Mark(s)
  <2>1. CASE s \in signalled
    BY <1>6, <2>1, EndMarkInv, Zenon DEF Mark
  <2>2. CASE s \notin signalled
    BY <1>6, <2>2, SenderMoves, Zenon DEF Mark
  <2> QED
    BY <2>1, <2>2, Zenon
<1>7. CASE MarkPage(s)
  <2>1. CASE \E b \in laneBits : PageOf(b) = PageOf(key[s].slot)
    BY <1>7, <2>1, EndMarkInv, Zenon DEF MarkPage
  <2>2. CASE ~ \E b \in laneBits : PageOf(b) = PageOf(key[s].slot)
    BY <1>7, <2>2, SenderMoves, Zenon DEF MarkPage
  <2> QED
    BY <2>1, <2>2, Zenon
<1>8. CASE MarkGroup(s)
  BY <1>8, EndMarkInv, Zenon DEF MarkGroup
<1> QED
  BY <1>1, <1>2, <1>3, <1>4, <1>5, <1>6, <1>7, <1>8, Zenon DEF Sender

\* close_lane preserves the invariant: the lane it finds is the sender's own.
LEMMA CloseLaneInv ==
  ASSUME IInv, NEW s \in Senders, CloseLane(s)
  PROVE  IInv'
<1> DEFINE found == {l \in Adopted : key[l] = key[s]}
<1>1. /\ rpc = "idle" /\ alive /\ key[s] # NoKey /\ Refresh
      /\ dropped' = dropped \union found /\ Retire(Adopted, found)
      /\ cur' = IF found = {} THEN NoKey ELSE key[s]
      /\ UNCHANGED <<free, nextSlot, key, spc, live, alive>>
  BY Zenon DEF CloseLane, senderVars
<1>2. found \subseteq {s} /\ Adopted \subseteq Senders
  BY <1>1, Zenon DEF IInv, RegistryExact, TypeOK, Adopted
<1>3. CASE found = {}
  <2>1. Cardinality({}) = 0
    BY FS_EmptySet, Zenon
  <2>2. lanes' = Adopted /\ registered' = registered /\ rpc' = "idle" /\ dropped' = dropped
    <3> HIDE DEF found
    <3>1. Retire(Adopted, {}) /\ dropped' = dropped
      BY <1>1, <1>3, Zenon
    <3> QED
      BY <2>1, <3>1 DEF Retire, RGoto, IInv, TypeOK
  <2>3. /\ Attached' = Attached /\ lanes' \intersect pendingLanes' = {}
        /\ pendingLanes' \subseteq Senders /\ lanes' \subseteq Senders
    BY <1>1, <2>2, RefreshAttached, Zenon
  <2> QED
    BY <1>1, <2>2, <2>3, Frame, Zenon DEF IInv, TypeOK
<1>4. CASE found = {s}
  <2>1. Cardinality({s}) = 1
    BY FS_Singleton, Zenon
  <2>2. /\ lanes' = Adopted \ {s} /\ registered' = registered - 1 /\ rpc' = "free"
        /\ dropped' = dropped \union {s} /\ cur' = key[s]
    BY <1>1, <1>4, <2>1, Zenon DEF Retire, RGoto
  <2>3. TypeOK'
    <3> HIDE DEF found
    <3>1. pendingLanes' \subseteq pendingLanes
      BY <1>1, Zenon DEF Refresh
    <3>2. pendingLanes \subseteq Senders /\ dropped \subseteq Senders /\ registered \in Int
      BY Zenon DEF IInv, TypeOK
    <3>3. pendingLanes' \subseteq Senders /\ dropped' \subseteq Senders /\ registered' \in Int
      BY <2>2, <3>1, <3>2
    <3> QED
      BY <1>1, <1>2, <2>2, <3>3, Zenon DEF IInv, TypeOK
  <2>4. s \in Adopted /\ s \notin pendingLanes'
    <3>1. s \in Adopted
      BY <1>4, Zenon
    <3> QED
      BY <1>1, <3>1, Zenon DEF Refresh, Adopted, IInv, SlotsInv
  <2>5. lanes' \union pendingLanes' = Attached \ {s} /\ lanes' \intersect pendingLanes' = {}
    <3>1. /\ lanes' = Adopted \ {s} /\ s \notin pendingLanes'
          /\ lanes \intersect pendingLanes = {}
          /\ Adopted \union pendingLanes' = Attached /\ Adopted \intersect pendingLanes' = {}
      BY <1>1, <2>2, <2>4, Zenon DEF Refresh, Adopted, Attached, IInv, SlotsInv
    <3> QED
      BY <3>1, Zenon
  <2> QED
    BY <1>1, <2>2, <2>3, <2>4, <2>5, RetireInv, Zenon
<1> QED
  BY <1>2, <1>3, <1>4, Zenon

\* Every step of the receiver preserves the invariant.
LEMMA ReceiverInv ==
  ASSUME IInv, Receiver
  PROVE  IInv'
<1> USE DEF RGoto, registryVars, senderVars, indexVars, receiverVars, collectVars, refreshKeeps
<1>1. CASE StartCollect \/ RefreshPages \/ RefreshLanes
  <2>1. /\ Refresh /\ lanes' = Adopted /\ rpc \in {"idle", "collect", "lanes"}
        /\ rpc' \in {"collect", "page"}
        /\ UNCHANGED <<free, nextSlot, registered, live, key, spc, alive, dropped>>
    BY <1>1, Zenon DEF StartCollect, RefreshPages, RefreshLanes
  <2>2. /\ Attached' = Attached /\ lanes' \intersect pendingLanes' = {}
        /\ pendingLanes' \subseteq Senders /\ lanes' \subseteq Senders
    BY <2>1, RefreshAttached, Zenon
  <2> QED
    BY <2>1, <2>2, Frame, Zenon DEF IInv, TypeOK, DropInv
<1>2. CASE TakeGroup \/ TakePage \/ TakeLane \/ EndCollect \/ PollValue \/ PollEmpty
           \/ SettleKeep \/ SettleIdle
  <2>1. /\ rpc \in {"collect", "page", "idle", "settle"}
        /\ rpc' \in {"collect", "page", "idle", "settle", "lanes"}
        /\ UNCHANGED <<free, nextSlot, registered, live, key, spc, alive, dropped, lanes,
                       pendingLanes>>
    BY <1>2, Zenon DEF TakeGroup, TakePage, TakeLane, EndCollect, PollValue, PollEmpty,
                       SettleKeep, SettleIdle
  <2> QED
    BY <2>1, Frame, Zenon DEF IInv, TypeOK, DropInv, SlotsInv, Attached
<1>3. CASE SettleRetire
  <2>1. PICK l \in Lane(cur) : Retire(lanes, {l})
    BY <1>3, Zenon DEF SettleRetire
  <2>2. Cardinality({l}) = 1
    BY FS_Singleton, Zenon
  <2>3. /\ rpc = "settle" /\ rpc' = "free" /\ cur' = key[l] /\ l \in lanes
        /\ lanes' = lanes \ {l} /\ registered' = registered - 1
        /\ UNCHANGED <<free, nextSlot, live, key, spc, alive, dropped, pendingLanes>>
    BY <1>3, <2>1, <2>2, Zenon DEF SettleRetire, Retire, Lane
  <2>4. alive /\ l \in Adopted
    BY <2>3, Zenon DEF IInv, DropInv, Adopted
  <2>5. TypeOK'
    BY <2>3 DEF IInv, TypeOK
  <2>6. lanes' \union pendingLanes' = Attached \ {l} /\ lanes' \intersect pendingLanes' = {}
    BY <2>3, Zenon DEF IInv, SlotsInv, Attached
  <2> QED
    BY <2>3, <2>4, <2>5, <2>6, RetireInv, Zenon
<1>4. CASE FreeSlot
  BY <1>4, FreeSlotInv, Zenon
<1>5. ASSUME NEW s \in Senders, CloseLane(s) PROVE IInv'
  BY <1>5, CloseLaneInv, Zenon
<1>6. CASE StartDrop \/ CloseAdopted \/ ClosePending
  <2> USE DEF IInv
  <2>1. /\ rpc \in {"idle", "close", "closePending"} /\ rpc' \in {"close", "closePending", "gone"}
        /\ UNCHANGED <<free, nextSlot, registered, live, key, spc, lanes>>
        /\ pendingLanes' \subseteq pendingLanes
        /\ rpc' # "gone" => pendingLanes' = pendingLanes
    BY <1>6, Zenon DEF StartDrop, CloseAdopted, ClosePending
  <2>2. Leaving = {} /\ Leaving' = {} /\ Attached' \subseteq Attached
    BY <2>1, Zenon DEF Leaving, Attached
  <2>3. Taken' \subseteq Taken
    BY <2>1, <2>2, Zenon DEF Taken
  <2>4. TypeOK'
    BY <1>6, <2>1, Zenon DEF TypeOK, StartDrop, CloseAdopted, ClosePending
  <2>5. SlotsInv'
    BY <2>1, <2>2, <2>3, Zenon DEF SlotsInv
  <2>6. KeysInv'
    BY <2>1, <2>3, Zenon DEF KeysInv
  <2>7. DropInv'
    <3>1. CASE StartDrop
      BY <2>1, <2>2, <3>1, Zenon DEF DropInv, StartDrop, Attached
    <3>2. CASE CloseAdopted
      BY <2>1, <2>2, <3>2, Zenon DEF DropInv, CloseAdopted, Attached
    <3>3. CASE ClosePending
      BY <2>1, <2>2, <3>3, Zenon DEF DropInv, ClosePending, Attached
    <3> QED
      BY <1>6, <3>1, <3>2, <3>3, Zenon
  <2>8. Open' = Open /\ (rpc' # "gone" => Attached' = Attached)
    BY <2>1, Zenon DEF Open, Attached
  <2>9. RegistryExact'
    BY <2>1, <2>2, <2>8, Zenon DEF RegistryExact
  <2> QED
    BY <2>4, <2>5, <2>6, <2>7, <2>9
<1> QED
  BY <1>1, <1>2, <1>3, <1>4, <1>5, <1>6, Zenon DEF Receiver

\* Every step preserves the invariant.
LEMMA NextInv == IInv /\ [Next]_vars => IInv'
<1> SUFFICES ASSUME IInv, [Next]_vars PROVE IInv'
  BY Zenon
<1>1. CASE Receiver
  BY <1>1, ReceiverInv
<1>2. ASSUME NEW s \in Senders, Sender(s) PROVE IInv'
  BY <1>2, SenderInv, Zenon
<1>3. CASE UNCHANGED vars
  <2>1. UNCHANGED <<pendingLanes, lanes, dropped, free, nextSlot, registered, live, key, spc,
                    alive, rpc, cur>>
    BY <1>3, Zenon DEF vars, registryVars, senderVars, receiverVars
  <2>2. /\ pendingLanes \subseteq Senders /\ lanes \subseteq Senders /\ dropped \subseteq Senders
        /\ spc \in [Senders -> {"unborn", "registering", "idle", "mark", "page", "group", "gone"}]
        /\ lanes \intersect pendingLanes = {}
    BY Zenon DEF IInv, TypeOK, SlotsInv
  <2>3. Attached' = Attached
    BY <2>1, Zenon DEF Attached
  <2> QED
    BY <2>1, <2>2, <2>3, Frame, Zenon
<1> QED
  BY <1>1, <1>2, <1>3, Zenon DEF Next

\* A LaneId names one lane for ever, no slot holds two lanes, and the counts of
\* lanes and of senders are exact: for any number of senders and generations.
THEOREM RegistryAlwaysExact == Spec => []RegistryExact
<1>1. IInv => RegistryExact
  BY Zenon DEF IInv
<1> QED
  BY InitInv, NextInv, <1>1, PTL DEF Spec

\* However registrations race with it, the drop of the receiver closes the ring
\* of every sender that was ever registered.
THEOREM NoLaneOrphaned == Spec => []NoOrphanLane
<1>1. IInv => NoOrphanLane
  BY Zenon DEF IInv, DropInv, NoOrphanLane, Leaving, Attached
<1> QED
  BY InitInv, NextInv, <1>1, PTL DEF Spec

-----------------------------------------------------------------------------
(* No lane is hidden. *)

\* The rotation, when its front leaves it or goes to the back of it ...
LEMMA TailOnce ==
  ASSUME NEW S, NEW q \in Seq(S), q # << >>, IsInjective(q)
  PROVE  /\ Head(q) \in S /\ Head(q) \in Range(q) /\ Tail(q) \in Seq(S) /\ IsInjective(Tail(q))
         /\ Range(Tail(q)) = Range(q) \ {Head(q)}
<1>1. /\ Head(q) = q[1] /\ 1 \in DOMAIN q /\ Head(q) \in S /\ Tail(q) \in Seq(S)
      /\ DOMAIN q = 1 .. Len(q) /\ DOMAIN Tail(q) = 1 .. (Len(q) - 1) /\ Len(q) \in Nat
      /\ \A i \in 1 .. (Len(q) - 1) : Tail(q)[i] = q[i + 1]
  OBVIOUS
<1>2. IsInjective(Tail(q))
  BY <1>1 DEF IsInjective
<1>3. \A k \in Range(Tail(q)) : k \in Range(q) /\ k # Head(q)
  BY <1>1 DEF IsInjective, Range
<1>4. ASSUME NEW k \in Range(q), k # Head(q)
      PROVE  k \in Range(Tail(q))
  <2>1. PICK i \in DOMAIN q : q[i] = k
    BY Zenon DEF Range
  <2>2. i - 1 \in DOMAIN Tail(q) /\ Tail(q)[i - 1] = k
    BY <1>1, <1>4, <2>1
  <2> QED
    BY <2>2, Zenon DEF Range
<1> QED
  BY <1>1, <1>2, <1>3, <1>4, Zenon DEF Range

\* ... when a lane joins it ...
LEMMA AppendOnce ==
  ASSUME NEW S, NEW q \in Seq(S), NEW e \in S, IsInjective(q), e \notin Range(q)
  PROVE  /\ Append(q, e) \in Seq(S) /\ IsInjective(Append(q, e))
         /\ Range(Append(q, e)) = Range(q) \union {e}
<1> DEFINE a == Append(q, e)
<1>1. /\ a \in Seq(S) /\ DOMAIN q = 1 .. Len(q) /\ DOMAIN a = 1 .. (Len(q) + 1)
      /\ Len(q) \in Nat /\ a[Len(q) + 1] = e /\ \A i \in 1 .. Len(q) : a[i] = q[i]
  OBVIOUS
<1> HIDE DEF a
<1>2. /\ \A i \in DOMAIN a : i = Len(q) + 1 \/ (i \in DOMAIN q /\ a[i] = q[i])
      /\ \A i \in DOMAIN q : i \in DOMAIN a /\ a[i] = q[i]
      /\ Len(q) + 1 \in DOMAIN a
  BY <1>1
<1>3. IsInjective(a)
  BY <1>1, <1>2, Zenon DEF IsInjective, Range
<1>4. Range(a) = Range(q) \union {e}
  BY <1>1, <1>2, Zenon DEF Range
<1> QED
  BY <1>1, <1>3, <1>4, Zenon DEF a

\* ... and when retain takes a lane out.
LEMMA RemoveOnce ==
  ASSUME NEW S, NEW q \in Seq(S), NEW e, IsInjective(q)
  PROVE  /\ Retained(q, e) \in Seq(S) /\ IsInjective(Retained(q, e))
         /\ Range(Retained(q, e)) = Range(q) \ {e}
<1>1. DOMAIN q = 1 .. Len(q) /\ Len(q) \in Nat /\ \A i \in DOMAIN q : q[i] \in S
  OBVIOUS
<1>2. CASE e \notin Range(q)
  <2>1. Retained(q, e) = q
    BY <1>1, <1>2, Zenon DEF Retained
  <2> QED
    BY <1>2, <2>1, Zenon
<1>3. CASE e \in Range(q)
  <2>1. PICK n \in 1 .. Len(q) : q[n] = e
    BY <1>1, <1>3, Zenon DEF Range
  <2>2. \A i \in 1 .. Len(q) : q[i] = e <=> i = n
    BY <1>1, <2>1, Zenon DEF IsInjective
  <2>3. (CHOOSE i \in DOMAIN q : q[i] = e) = n
    BY <1>1, <2>1, <2>2
  <2> DEFINE a == SubSeq(q, 1, n - 1)
             b == SubSeq(q, n + 1, Len(q))
             c == a \o b
  <2>4. Retained(q, e) = c
    BY <1>3, <2>3, Zenon DEF Retained
  <2>5. a \in Seq(S) /\ Len(a) = n - 1 /\ \A i \in 1 .. (n - 1) : a[i] = q[i]
    BY <1>1
  <2>6. b \in Seq(S) /\ Len(b) = Len(q) - n /\ \A i \in 1 .. (Len(q) - n) : b[i] = q[n + i]
    <3>1. n + 1 \in Int /\ Len(q) \in Int /\ \A i \in (n + 1) .. Len(q) : q[i] \in S
      BY <1>1, <2>1
    <3>2. /\ b \in Seq(S) /\ Len(b) = IF n + 1 <= Len(q) THEN Len(q) - (n + 1) + 1 ELSE 0
          /\ \A i \in 1 .. Len(q) - (n + 1) + 1 : b[i] = q[n + 1 + i - 1]
      BY <3>1, SubSeqProperties
    <3> HIDE DEF b
    <3>3. Len(b) = Len(q) - n
      <4>1. Len(b) = IF n + 1 <= Len(q) THEN Len(q) - (n + 1) + 1 ELSE 0
        BY <3>2, Zenon
      <4>2. n \in Nat /\ n <= Len(q) /\ Len(q) \in Nat
        BY <1>1, <2>1
      <4> QED
        BY <4>1, <4>2
    <3>4. ASSUME NEW i \in 1 .. (Len(q) - n)
          PROVE  b[i] = q[n + i]
      <4>1. i \in 1 .. Len(q) - (n + 1) + 1 /\ n + 1 + i - 1 = n + i
        BY <1>1, <2>1
      <4>2. b[i] = q[n + 1 + i - 1]
        BY <3>2, <4>1, Zenon
      <4> QED
        BY <4>1, <4>2, Zenon
    <3> QED
      BY <3>2, <3>3, <3>4, Zenon
  <2> HIDE DEF a, b
  <2>7. /\ c \in Seq(S) /\ DOMAIN c = 1 .. (Len(q) - 1)
        /\ \A i \in 1 .. (Len(q) - 1) : c[i] = IF i < n THEN q[i] ELSE q[i + 1]
    <3>1. /\ c \in Seq(S) /\ Len(c) = Len(a) + Len(b)
          /\ \A i \in 1 .. Len(a) + Len(b) : c[i] = IF i <= Len(a) THEN a[i] ELSE b[i - Len(a)]
      BY <2>5, <2>6, ConcatProperties
    <3>2. Len(c) = Len(q) - 1
      BY <1>1, <2>1, <2>5, <2>6, <3>1
    <3>3. ASSUME NEW i \in 1 .. (Len(q) - 1)
          PROVE  c[i] = IF i < n THEN q[i] ELSE q[i + 1]
      <4>1. CASE i < n
        BY <1>1, <2>1, <2>5, <2>6, <3>1, <4>1
      <4>2. CASE ~(i < n)
        <5>1. /\ c[i] = b[i - (n - 1)] /\ i - (n - 1) \in 1 .. (Len(q) - n)
              /\ n + (i - (n - 1)) = i + 1
          BY <1>1, <2>1, <2>5, <2>6, <3>1, <4>2
        <5> QED
          BY <2>6, <4>2, <5>1, Zenon
      <4> QED
        BY <4>1, <4>2
    <3> QED
      BY <3>1, <3>2, <3>3
  <2> HIDE DEF c
  <2> DEFINE from(i) == IF i < n THEN i ELSE i + 1
  <2>8. \A i \in DOMAIN c : from(i) \in DOMAIN q /\ from(i) # n /\ c[i] = q[from(i)]
    BY <1>1, <2>1, <2>7
  <2>9. \A i, j \in DOMAIN c : from(i) = from(j) => i = j
    BY <1>1, <2>1, <2>7
  <2>10. \A j \in DOMAIN q : j # n => \E i \in DOMAIN c : c[i] = q[j]
    <3> SUFFICES ASSUME NEW j \in DOMAIN q, j # n
                 PROVE  \E i \in DOMAIN c : c[i] = q[j]
      BY Zenon
    <3>1. CASE j < n
      <4>1. j \in DOMAIN c /\ c[j] = q[j]
        BY <1>1, <2>1, <2>7, <3>1
      <4> QED
        BY <4>1, Zenon
    <3>2. CASE ~(j < n)
      <4>1. j - 1 \in DOMAIN c /\ c[j - 1] = q[j]
        BY <1>1, <2>1, <2>7, <3>2
      <4> QED
        BY <4>1, Zenon
    <3> QED
      BY <3>1, <3>2, Zenon
  <2> HIDE DEF from
  <2>11. IsInjective(c)
    BY <2>8, <2>9, Zenon DEF IsInjective
  <2>12. Range(c) = Range(q) \ {e}
    <3>1. \A k \in Range(c) : k \in Range(q) /\ k # e
      BY <1>1, <2>2, <2>8, Zenon DEF Range
    <3>2. \A k \in Range(q) : k # e => k \in Range(c)
      BY <1>1, <2>2, <2>10, Zenon DEF Range
    <3> QED
      BY <3>1, <3>2, Zenon
  <2> QED
    BY <2>4, <2>7, <2>11, <2>12, Zenon
<1> QED
  BY <1>2, <1>3, Zenon

\* Quotients are ordered as what they are quotients of.
LEMMA QuotientMono ==
  ASSUME NEW m \in Nat, NEW p \in Int, NEW q \in Int, NEW r \in Int, NEW t \in Int,
         r < m, 0 <= r, t < m, 0 <= t, m * p + r <= m * q + t
  PROVE  p <= q
<1> SUFFICES ASSUME q + 1 <= p PROVE FALSE
  OBVIOUS
<1> DEFINE x == m * p
           y == m * q
           z == m * (q + 1)
<1>1. x \in Int /\ y \in Int /\ z \in Int /\ z = y + m /\ z <= x /\ x + r <= y + t
  OBVIOUS
<1> HIDE DEF x, y, z
<1> QED
  BY <1>1

\* So \div is monotonic: pages and groups come in the order of their slots.
LEMMA DivMono ==
  ASSUME NEW m \in Nat, m > 0, NEW a \in Nat, NEW b \in Nat, a <= b
  PROVE  a \div m \in Nat /\ b \div m \in Nat /\ a \div m <= b \div m
<1>1. \A x \in Int : /\ x \div m \in Int /\ x % m \in Int /\ 0 <= x % m /\ x % m < m
                     /\ x = m * (x \div m) + (x % m)
  OBVIOUS
<1>2. \A x, y \in Int : x <= y => x \div m <= y \div m
  BY <1>1, QuotientMono
<1>3. 0 \div m = 0
  OBVIOUS
<1> QED
  BY <1>1, <1>2, <1>3

\* A later slot is in no earlier page, and every slot in use is in a page that exists.
LEMMA PageBound ==
  ASSUME NEW n \in Nat, NEW m \in Nat, n < m
  PROVE  /\ PageOf(n) \in Nat /\ Pages(n) \in Nat /\ Pages(m) \in Nat
         /\ PageOf(n) < Pages(m) /\ Pages(n) <= Pages(m)
<1>1. LanesPerPage \in Nat /\ LanesPerPage > 0
  BY IndexAssumption
<1>2. /\ PageOf(n) \in Nat /\ PageOf(m - 1) \in Nat /\ PageOf(n) <= PageOf(m - 1)
      /\ n > 0 => PageOf(n - 1) \in Nat /\ PageOf(n - 1) <= PageOf(m - 1)
  BY <1>1, DivMono DEF PageOf
<1> HIDE DEF PageOf
<1> QED
  BY <1>2 DEF Pages

\* The invariants as lemmas use them: each lane has a key of its own, and the rotation
\* is of the table's lanes.
LEMMA KeyFacts ==
  ASSUME IInv
  PROVE  /\ Attached \subseteq Senders /\ lanes \subseteq Attached
         /\ \A l \in Attached : key[l] \in Keys /\ key[l] # NoKey
         /\ \A a, b \in Senders : key[a] = key[b] /\ key[a] # NoKey => a = b
         /\ \A s \in Senders : spc[s] \in {"idle", "mark", "page", "group", "gone"} => key[s] # NoKey
         /\ \A s \in Senders : key[s] # NoKey =>
              key[s] \in Keys /\ PageOf(key[s].slot) \in Nat /\ PageOf(key[s].slot) < Pages(nextSlot)
<1>1. Attached \subseteq Senders /\ lanes \subseteq Attached
  BY Zenon DEF IInv, TypeOK, Attached
<1>2. \A s \in Senders : key[s] # NoKey => key[s] \in Keys
  BY Zenon DEF IInv, TypeOK
<1>3. \A l \in Attached : key[l] \in Keys /\ key[l] # NoKey
  BY <1>1, <1>2, Zenon DEF IInv, SlotsInv
<1>4. \A s \in Senders : spc[s] \in {"idle", "mark", "page", "group", "gone"} => key[s] # NoKey
  BY Zenon DEF IInv, TypeOK
<1>5. ASSUME NEW s \in Senders, key[s] # NoKey
      PROVE  PageOf(key[s].slot) \in Nat /\ PageOf(key[s].slot) < Pages(nextSlot)
  <2>1. key[s].slot \in Nat /\ nextSlot \in Nat /\ key[s].slot < nextSlot
    BY <1>2, <1>5, Zenon DEF Keys, IInv, TypeOK, KeysInv
  <2> QED
    BY <2>1, PageBound, Zenon
<1> QED
  BY <1>1, <1>2, <1>3, <1>4, <1>5, Zenon DEF IInv, RegistryExact

\* A step that leaves the rotation and its lanes alone keeps what is said of them.
LEMMA RotationKept ==
  ASSUME RotationInv, lanes \subseteq lanes', UNCHANGED <<active, queued>>,
         \A l \in queued : key'[l] = key[l],
         UNCHANGED <<rpc, cur>> \/ "settle" \notin {rpc, rpc'}
  PROVE  RotationInv'
<1>1. \A k : Settling(k)' <=> Settling(k)
  BY Zenon DEF Settling
<1>2. \A k : k \in {key[l] : l \in queued} => k \in {key'[l] : l \in queued}
  BY Zenon
<1>3. rpc' = "settle" => rpc = "settle" /\ cur' = cur
  BY Zenon
<1> QED
  BY <1>1, <1>2, <1>3, Zenon DEF RotationInv

\* A step of a sender, its registration excepted, keeps the receiver's side; what is
\* left to see to is the sender's own lane and the pages it marks.
LEMMA SenderFind ==
  ASSUME IInv, FindInv, FindTypeOK', NEW s \in Senders, NEW label, spc' = [spc EXCEPT ![s] = label],
         UNCHANGED <<key, pendingLanes, nextSlot, news, lanes, knownPages, active, queued, rpc>>,
         UNCHANGED <<cur, pagesLeft, slotsLeft>>,
         laneBits \subseteq laneBits', pageBits \subseteq pageBits',
         \A p \in pageBits' \ pageBits : key[s] # NoKey /\ p = PageOf(key[s].slot),
         \A l \in Senders \ {s} : /\ unread'[l] = unread[l] /\ (l \in closed' <=> l \in closed)
                                  /\ l \in signalled' <=> l \in signalled,
         \A b \in laneBits' : PageShown(PageOf(b)) \/ PageShown(PageOf(b))',
         spc[s] = "group" => label = "group" \/ PageOf(key[s].slot) \in pageBits',
         s \in Attached /\ s \in signalled' => SignalShown(s)',
         s \in Attached /\ (unread'[s] > 0 \/ s \in closed') =>
           s \in signalled' \/ label = "mark" \/ Settling(key[s])
  PROVE  FindInv'
<1> USE DEF FindInv
<1>1. /\ spc'[s] = label /\ \A l \in Senders \ {s} : spc'[l] = spc[l]
      /\ Attached' = Attached /\ Attached \subseteq Senders
  <2>1. spc \in [Senders -> {"unborn", "registering", "idle", "mark", "page", "group", "gone"}]
    BY Zenon DEF IInv, TypeOK
  <2> QED
    BY <2>1, KeyFacts, Zenon DEF Attached
<1>2. RotationInv'
  BY RotationKept, Zenon
<1>3. RefreshInv'
  <2>1. \A p \in pageBits' \union pagesLeft' : p \in Nat /\ p < Pages(nextSlot)
    <3>1. key[s] # NoKey => PageOf(key[s].slot) \in Nat /\ PageOf(key[s].slot) < Pages(nextSlot)
      BY KeyFacts, Zenon
    <3> QED
      BY <3>1, Zenon DEF RefreshInv
  <2>2. Pages(nextSlot)' = Pages(nextSlot)
    BY Zenon DEF Pages, PageOf
  <2> QED
    BY <2>1, <2>2, Zenon DEF RefreshInv
<1>4. IndexInv'
  <2>1. ASSUME NEW page, PageShown(page)
        PROVE  PageShown(page)'
    <3>1. CASE page \in pageBits \union pagesLeft
      BY <3>1, Zenon DEF PageShown
    <3>2. ASSUME NEW l \in Senders, spc[l] = "group", PageOf(key[l].slot) = page
          PROVE  PageShown(page)'
      <4>1. CASE l = s
        BY <1>1, <3>2, <4>1, Zenon DEF PageShown, PageOf
      <4>2. CASE l # s
        BY <1>1, <3>2, <4>2, Zenon DEF PageShown, PageOf
      <4> QED
        BY <4>1, <4>2, Zenon
    <3> QED
      BY <2>1, <3>1, <3>2, Zenon DEF PageShown
  <2> QED
    BY <2>1, Zenon DEF IndexInv, PageOf
<1>5. SignalInv'
  <2> SUFFICES ASSUME NEW l \in Attached
               PROVE  /\ l \in signalled' => SignalShown(l)'
                      /\ unread'[l] > 0 \/ l \in closed' =>
                           l \in signalled' \/ spc'[l] = "mark" \/ Settling(key[l])'
    BY <1>1, Zenon DEF SignalInv
  <2>1. CASE l = s
    BY <1>1, <2>1, Zenon DEF Settling
  <2>2. CASE l # s
    <3>1. l \in Senders \ {s} /\ spc'[l] = spc[l]
      BY <1>1, <2>2, Zenon
    <3>2. SignalShown(l) => SignalShown(l)'
      BY <3>1, Zenon DEF SignalShown
    <3> QED
      BY <3>1, <3>2, Zenon DEF SignalInv, Settling
  <2> QED
    BY <2>1, <2>2, Zenon
<1> QED
  BY <1>2, <1>3, <1>4, <1>5, Zenon

\* Every step of a sender other than its registration under the lock.
LEMMA SenderStepFind ==
  ASSUME IInv, FindInv, NEW s \in Senders,
         \/ \E n \in Senders : StartRegister(s, n)
         \/ RegisterFails(s) \/ Send(s) \/ Drop(s) \/ Mark(s) \/ MarkPage(s) \/ MarkGroup(s)
  PROVE  FindInv'
<1> USE DEF Goto, GoOn, registryVars, receiverVars, senderVars, indexVars, collectVars
<1>1. /\ Attached \subseteq Senders /\ \A l \in Attached : key[l] # NoKey
      /\ \A l \in Senders : spc[l] \in {"idle", "mark", "page", "group"} => key[l] # NoKey
      /\ \A l \in Senders : key[l] = NoKey <=> spc[l] \in {"unborn", "registering"}
  BY KeyFacts, Zenon DEF IInv, TypeOK
<1>2. \A b \in laneBits : PageShown(PageOf(b))
  BY Zenon DEF FindInv, IndexInv
<1>3. \A l \in Attached :
        /\ l \in signalled => SignalShown(l)
        /\ unread[l] > 0 \/ l \in closed => l \in signalled \/ spc[l] = "mark" \/ Settling(key[l])
  BY Zenon DEF FindInv, SignalInv
<1>4. /\ unread \in [Senders -> Nat] /\ active \in Seq(Keys)
      /\ closed \subseteq Senders /\ signalled \subseteq Senders
      /\ \A l \in Senders : key[l] = NoKey => unread[l] = 0 /\ l \notin closed \union signalled
  BY Zenon DEF FindInv, FindTypeOK
<1>5. ASSUME NEW n \in Senders, NEW label, spc' = [spc EXCEPT ![n] = label],
             spc[n] \in {"unborn", "registering"},
             UNCHANGED <<key, pendingLanes, nextSlot, news, lanes, knownPages, active, queued, rpc>>,
             UNCHANGED <<cur, pagesLeft, slotsLeft, laneBits, pageBits, unread, closed, signalled>>
      PROVE  FindInv'
  <2>1. FindTypeOK'
    BY <1>5, Zenon DEF FindInv, FindTypeOK
  <2>2. n \notin Attached /\ spc[n] # "group"
    BY <1>1, <1>5, Zenon
  <2> QED
    BY <1>2, <1>5, <2>1, <2>2, SenderFind, Zenon
<1>6. ASSUME NEW n \in Senders, StartRegister(s, n)
      PROVE  FindInv'
  BY <1>5, <1>6, Zenon DEF StartRegister
<1>7. CASE RegisterFails(s)
  BY <1>5, <1>7, Zenon DEF RegisterFails
<1>8. CASE Send(s) \/ Drop(s)
  <2>1. /\ spc[s] = "idle" /\ spc' = [spc EXCEPT ![s] = "mark"]
        /\ UNCHANGED <<key, pendingLanes, nextSlot, news, lanes, knownPages, active, queued, rpc>>
        /\ UNCHANGED <<cur, pagesLeft, slotsLeft, laneBits, pageBits, signalled>>
        /\ unread' \in {unread, [unread EXCEPT ![s] = @ + 1]} /\ closed' \in {closed, closed \union {s}}
    BY <1>8, Zenon DEF Send, Drop
  <2>2. /\ unread' \in [Senders -> Nat] /\ closed' \subseteq Senders
        /\ \A l \in Senders \ {s} : unread'[l] = unread[l] /\ (l \in closed' <=> l \in closed)
    BY <1>4, <2>1
  <2>3. FindTypeOK'
    BY <1>1, <2>1, <2>2, Zenon DEF FindInv, FindTypeOK
  <2>4. SignalShown(s) => SignalShown(s)'
    BY <2>1, Zenon DEF SignalShown
  <2> QED
    BY <1>2, <1>3, <2>1, <2>2, <2>3, <2>4, SenderFind, Zenon
<1>9. ASSUME NEW label, spc' = [spc EXCEPT ![s] = label],
             spc[s] \in {"mark", "page", "group"}, spc[s] = "group" => PageOf(key[s].slot) \in pageBits',
             UNCHANGED <<key, pendingLanes, nextSlot, news, lanes, knownPages, active, queued, rpc>>,
             UNCHANGED <<cur, pagesLeft, slotsLeft, unread, closed>>,
             signalled' \in {signalled, signalled \union {s}},
             laneBits \subseteq laneBits', pageBits' \in {pageBits, pageBits \union {PageOf(key[s].slot)}},
             \A b \in laneBits' : PageShown(PageOf(b)) \/ PageShown(PageOf(b))',
             spc[s] = "mark" => s \in signalled', s \in Attached /\ s \in signalled' => SignalShown(s)'
      PROVE  FindInv'
  <2>1. signalled' \subseteq Senders /\ \A l \in Senders \ {s} : l \in signalled' <=> l \in signalled
    BY <1>4, <1>9, Zenon
  <2>2. FindTypeOK'
    BY <1>1, <1>9, <2>1, Zenon DEF FindInv, FindTypeOK
  <2>3. /\ pageBits \subseteq pageBits'
        /\ \A p \in pageBits' \ pageBits : key[s] # NoKey /\ p = PageOf(key[s].slot)
        /\ signalled \subseteq signalled'
    BY <1>1, <1>9, Zenon
  <2>4. s \in Attached /\ (unread'[s] > 0 \/ s \in closed') =>
          s \in signalled' \/ label = "mark" \/ Settling(key[s])
    BY <1>3, <1>9, <2>3, Zenon
  <2> QED
    BY <1>9, <2>1, <2>2, <2>3, <2>4, SenderFind, Zenon
<1>10. /\ spc \in [Senders -> {"unborn", "registering", "idle", "mark", "page", "group", "gone"}]
       /\ \A label : spc' = [spc EXCEPT ![s] = label] => spc'[s] = label
  BY Zenon DEF IInv, TypeOK
<1> DEFINE done == IF s \in closed THEN "gone" ELSE "idle"
<1>11. CASE Mark(s)
  <2>1. /\ spc[s] = "mark" /\ signalled' = signalled \union {s}
        /\ UNCHANGED <<key, pendingLanes, nextSlot, news, lanes, knownPages, active, queued, rpc>>
        /\ UNCHANGED <<cur, pagesLeft, slotsLeft, unread, closed, laneBits, pageBits>>
    BY <1>11, Zenon DEF Mark
  <2>2. CASE s \in signalled
    <3>1. spc' = [spc EXCEPT ![s] = done]
      BY <1>11, <2>2, Zenon DEF Mark, EndMark
    <3>2. SignalShown(s) => SignalShown(s)'
      BY <2>1, Zenon DEF SignalShown
    <3> HIDE DEF done
    <3> QED
      BY <1>2, <1>3, <1>9, <2>1, <2>2, <3>1, <3>2, Zenon
  <2>3. CASE s \notin signalled
    <3>1. spc' = [spc EXCEPT ![s] = "page"]
      BY <1>11, <2>3, Zenon DEF Mark
    <3>2. SignalShown(s)'
      BY <1>10, <3>1, Zenon DEF SignalShown
    <3> QED
      BY <1>2, <1>9, <2>1, <3>1, <3>2, Zenon
  <2> QED
    BY <2>2, <2>3, Zenon
<1>12. CASE MarkPage(s)
  <2>1. /\ spc[s] = "page" /\ laneBits' = laneBits \union {key[s].slot}
        /\ UNCHANGED <<key, pendingLanes, nextSlot, news, lanes, knownPages, active, queued, rpc>>
        /\ UNCHANGED <<cur, pagesLeft, slotsLeft, unread, closed, signalled, pageBits>>
    BY <1>12, Zenon DEF MarkPage
  <2>2. SignalShown(s)' /\ laneBits \subseteq laneBits'
    BY <2>1, Zenon DEF SignalShown
  <2>3. CASE \E b \in laneBits : PageOf(b) = PageOf(key[s].slot)
    <3>1. spc' = [spc EXCEPT ![s] = done]
      BY <1>12, <2>3, Zenon DEF MarkPage, EndMark
    <3>2. PageShown(PageOf(key[s].slot))
      BY <1>2, <2>3, Zenon
    <3>3. \A b \in laneBits' : PageShown(PageOf(b))
      BY <1>2, <2>1, <3>2, Zenon
    <3> HIDE DEF done
    <3> QED
      BY <1>9, <2>1, <2>2, <3>1, <3>3, Zenon
  <2>4. CASE ~ \E b \in laneBits : PageOf(b) = PageOf(key[s].slot)
    <3>1. spc' = [spc EXCEPT ![s] = "group"]
      BY <1>12, <2>4, Zenon DEF MarkPage
    <3>2. PageShown(PageOf(key[s].slot))'
      BY <1>10, <2>1, <3>1, Zenon DEF PageShown, PageOf
    <3>3. \A b \in laneBits' : PageShown(PageOf(b)) \/ PageShown(PageOf(b))'
      BY <1>2, <2>1, <3>2, Zenon
    <3> QED
      BY <1>9, <2>1, <2>2, <3>1, <3>3, Zenon
  <2> QED
    BY <2>3, <2>4, Zenon
<1>13. CASE MarkGroup(s)
  <2>1. /\ spc[s] = "group" /\ pageBits' = pageBits \union {PageOf(key[s].slot)}
        /\ spc' = [spc EXCEPT ![s] = done]
        /\ UNCHANGED <<key, pendingLanes, nextSlot, news, lanes, knownPages, active, queued, rpc>>
        /\ UNCHANGED <<cur, pagesLeft, slotsLeft, unread, closed, signalled, laneBits>>
    BY <1>13, Zenon DEF MarkGroup, EndMark
  <2>2. SignalShown(s) => SignalShown(s)'
    BY <2>1, Zenon DEF SignalShown
  <2>3. PageOf(key[s].slot) \in pageBits'
    BY <2>1, Zenon
  <2> HIDE DEF done
  <2> QED
    BY <1>2, <1>3, <1>9, <2>1, <2>2, <2>3, Zenon
<1> QED
  BY <1>6, <1>7, <1>8, <1>11, <1>12, <1>13, Zenon

\* A registration brings news of a lane that nobody has marked.
LEMMA RegisterFind ==
  ASSUME IInv, FindInv, NEW n \in Senders, Register(n)
  PROVE  FindInv'
<1>1. /\ spc[n] = "registering" /\ spc' = [spc EXCEPT ![n] = "idle"]
      /\ key' = [key EXCEPT ![n] = Allocated] /\ pendingLanes' = pendingLanes \union {n} /\ news' = TRUE
      /\ UNCHANGED <<closed, unread, signalled, laneBits, pageBits, pagesLeft, slotsLeft>>
      /\ UNCHANGED <<lanes, knownPages, active, queued, rpc, cur>>
  BY Zenon DEF Register, Attach, Goto, indexVars, receiverVars, collectVars
<1>2. nextSlot' \in {nextSlot, nextSlot + 1} /\ nextSlot \in Nat
  BY Zenon DEF Register, Attach, IInv, TypeOK
<1>3. /\ key \in [Senders -> Keys \union {NoKey}] /\ key[n] = NoKey
      /\ spc \in [Senders -> {"unborn", "registering", "idle", "mark", "page", "group", "gone"}]
  BY <1>1, Zenon DEF IInv, TypeOK
<1>4. /\ \A l \in Senders \ {n} : key'[l] = key[l] /\ spc'[l] = spc[l]
      /\ key'[n] = Allocated /\ spc'[n] = "idle"
  BY <1>1, <1>3, Zenon
<1>5. Attached' = Attached \union {n} /\ Attached \subseteq Senders \ {n} /\ lanes \subseteq Attached
  BY <1>1, <1>3, KeyFacts, Zenon DEF Attached
<1>6. Allocated # NoKey
  BY AllocatedFresh DEF Keys, NoKey
<1>7. ~(unread[n] > 0) /\ n \notin closed \union signalled
  <2>1. unread[n] = 0 /\ n \notin closed \union signalled
    BY <1>3, Zenon DEF FindInv, FindTypeOK
  <2> QED
    BY <2>1
<1>8. FindTypeOK'
  BY <1>1, <1>4, <1>6, Zenon DEF FindInv, FindTypeOK
<1>9. queued \subseteq Senders \ {n}
  BY <1>5, Zenon DEF FindInv, RotationInv
<1>10. RotationInv'
  BY <1>1, <1>4, <1>9, RotationKept, Zenon DEF FindInv
<1>11. RefreshInv'
  <2>1. nextSlot > 0 /\ \A p \in pageBits \union pagesLeft : p < Pages(nextSlot)
    BY Zenon DEF FindInv, RefreshInv
  <2>2. Pages(nextSlot) \in Nat /\ Pages(nextSlot') \in Nat /\ Pages(nextSlot) <= Pages(nextSlot')
    <3>1. nextSlot < nextSlot + 1 /\ nextSlot + 1 \in Nat
      BY <1>2
    <3>2. Pages(nextSlot) \in Nat /\ Pages(nextSlot + 1) \in Nat /\ Pages(nextSlot) <= Pages(nextSlot + 1)
      BY <1>2, <3>1, PageBound, Zenon
    <3> QED
      BY <1>2, <3>2
  <2>3. \A p \in pageBits \union pagesLeft : p \in Nat /\ p < Pages(nextSlot')
    <3>1. pageBits \union pagesLeft \subseteq Nat
      BY Zenon DEF FindInv, RefreshInv
    <3> QED
      BY <2>1, <2>2, <3>1
  <2>4. Pages(nextSlot)' = Pages(nextSlot')
    BY Zenon DEF Pages, PageOf
  <2>5. nextSlot' > 0
    BY <1>2, <2>1
  <2> QED
    BY <1>1, <2>3, <2>4, <2>5, Zenon DEF FindInv, RefreshInv
<1>12. \A page : PageShown(page) => PageShown(page)'
  <2> SUFFICES ASSUME NEW page, PageShown(page) PROVE PageShown(page)'
    BY Zenon
  <2>1. CASE page \in pageBits \union pagesLeft
    BY <1>1, <2>1, Zenon DEF PageShown
  <2>2. ASSUME NEW s \in Senders, spc[s] = "group", PageOf(key[s].slot) = page
        PROVE  PageShown(page)'
    <3>1. s # n
      BY <1>1, <2>2, Zenon
    <3> QED
      BY <1>4, <2>2, <3>1, Zenon DEF PageShown, PageOf
  <2> QED
    BY <2>1, <2>2, Zenon DEF PageShown
<1>13. IndexInv'
  BY <1>1, <1>12, Zenon DEF FindInv, IndexInv, PageOf
<1>14. ASSUME NEW l \in Attached'
       PROVE  /\ l \in signalled => SignalShown(l)'
              /\ unread[l] > 0 \/ l \in closed => l \in signalled \/ spc'[l] = "mark" \/ Settling(key'[l])
  <2>1. CASE l = n
    BY <1>7, <2>1, Zenon
  <2>2. CASE l # n
    <3>1. l \in Attached /\ key'[l] = key[l] /\ spc'[l] = spc[l]
      BY <1>4, <1>5, <2>2, Zenon
    <3>2. SignalShown(l) => SignalShown(l)'
      BY <1>1, <3>1 DEF SignalShown
    <3> QED
      BY <3>1, <3>2, Zenon DEF FindInv, SignalInv
  <2> QED
    BY <2>1, <2>2, Zenon
<1>15. SignalInv'
  BY <1>1, <1>14, Zenon DEF SignalInv, Settling
<1> QED
  BY <1>8, <1>10, <1>11, <1>13, <1>15, Zenon DEF FindInv

\* What the receiver knows once it has read the registry: every lane and every page.
LEMMA RefreshKnows ==
  ASSUME IInv, FindInv, Refresh, UNCHANGED nextSlot
  PROVE  /\ Adopted = Attached /\ pendingLanes' = {} /\ news' = FALSE
         /\ knownPages' = Pages(nextSlot) /\ Pages(nextSlot)' = Pages(nextSlot)
<1>1. news \/ (pendingLanes = {} /\ knownPages = Pages(nextSlot))
  BY Zenon DEF FindInv, RefreshInv
<1>2. Pages(nextSlot)' = Pages(nextSlot)
  BY Zenon DEF Pages, PageOf
<1> QED
  BY <1>1, <1>2, Zenon DEF Refresh, Adopted, Attached

\* The refreshes of collect_ready and of a close_lane that finds nothing.  A slot that
\* was claimed before its lane was adopted is that of a lane of the table after.
LEMMA RefreshFind ==
  ASSUME IInv, FindInv, Refresh, lanes' = Adopted, UNCHANGED <<nextSlot, key, spc, unread, closed>>,
         UNCHANGED <<signalled, laneBits, active, queued, pageBits, pagesLeft, slotsLeft>>,
         \/ rpc = "idle" /\ rpc' \in {"idle", "collect"}
         \/ rpc = "collect" /\ slotsLeft = {} /\ rpc' = "page"
         \/ rpc = "lanes" /\ rpc' = "collect"
  PROVE  FindInv'
<1>1. /\ lanes' = Attached /\ pendingLanes' = {} /\ news' = FALSE
      /\ knownPages' = Pages(nextSlot) /\ Pages(nextSlot)' = Pages(nextSlot)
  BY RefreshKnows, Zenon
<1>2. Attached' = Attached /\ lanes \subseteq lanes'
  BY <1>1, Zenon DEF Attached
<1>3. "settle" \notin {rpc, rpc'}
  BY Zenon
<1>4. FindTypeOK'
  <2>1. rpc' \in {"idle", "collect", "page", "lanes", "settle", "free", "close", "closePending", "gone"}
    BY Zenon
  <2> QED
    BY <2>1, Zenon DEF FindInv, FindTypeOK
<1>5. RotationInv'
  BY <1>2, <1>3, RotationKept, Zenon DEF FindInv
<1>6. RefreshInv'
  <2>1. /\ nextSlot > 0 /\ \A p \in pageBits \union pagesLeft : p \in Nat /\ p < Pages(nextSlot)
        /\ rpc \notin {"collect", "page", "lanes"} => slotsLeft = {} /\ pagesLeft = {}
    BY Zenon DEF FindInv, RefreshInv
  <2>2. /\ rpc' = "page" => slotsLeft = {}
        /\ rpc' \notin {"collect", "page", "lanes"} => slotsLeft = {} /\ pagesLeft = {}
    BY <2>1, Zenon
  <2> QED
    BY <1>1, <2>1, <2>2, Zenon DEF RefreshInv
<1>7. IndexInv'
  BY Zenon DEF FindInv, IndexInv, PageShown, PageOf
<1>8. SignalInv'
  <2> SUFFICES ASSUME NEW l \in Attached
               PROVE  /\ l \in signalled => SignalShown(l)'
                      /\ unread[l] > 0 \/ l \in closed => l \in signalled \/ spc[l] = "mark"
    BY <1>2, Zenon DEF SignalInv
  <2>1. SignalShown(l) => SignalShown(l)'
    BY <1>1, Zenon DEF SignalShown
  <2> QED
    BY <1>3, <2>1, Zenon DEF FindInv, SignalInv, Settling
<1> QED
  BY <1>4, <1>5, <1>6, <1>7, <1>8, Zenon DEF FindInv

\* A step that only moves the receiver on, or leaves pending lanes behind.
LEMMA QuietFind ==
  ASSUME IInv, FindInv, pendingLanes' \in {pendingLanes, {}},
         UNCHANGED <<nextSlot, key, spc, unread, closed, news, lanes, knownPages>>,
         UNCHANGED <<signalled, laneBits, active, queued, pageBits, pagesLeft, slotsLeft>>,
         \/ UNCHANGED <<rpc, cur>>
         \/ /\ rpc \notin {"settle", "page", "lanes"} /\ slotsLeft = {} /\ pagesLeft = {}
            /\ rpc' \in {"idle", "close", "closePending", "gone"}
  PROVE  FindInv'
<1>1. Attached' \subseteq Attached
  BY Zenon DEF Attached
<1>2. UNCHANGED <<rpc, cur>> \/ "settle" \notin {rpc, rpc'}
  BY Zenon
<1>3. FindTypeOK'
  <2>1. rpc' \in {"idle", "collect", "page", "lanes", "settle", "free", "close", "closePending", "gone"}
    BY Zenon DEF FindInv, FindTypeOK
  <2> QED
    BY <2>1, Zenon DEF FindInv, FindTypeOK
<1>4. RotationInv'
  BY <1>2, RotationKept, Zenon DEF FindInv
<1>5. RefreshInv'
  <2>1. Pages(nextSlot)' = Pages(nextSlot)
    BY Zenon DEF Pages, PageOf
  <2>2. /\ rpc' = "page" => slotsLeft = {} /\ \A p \in pagesLeft : p < knownPages
        /\ rpc' \notin {"collect", "page", "lanes"} => slotsLeft = {} /\ pagesLeft = {}
    <3>1. CASE UNCHANGED <<rpc, cur>>
      BY <3>1, Zenon DEF FindInv, RefreshInv
    <3>2. CASE slotsLeft = {} /\ pagesLeft = {}
      BY <3>2, Zenon
    <3> QED
      BY <3>1, <3>2, Zenon
  <2> QED
    BY <2>1, <2>2, Zenon DEF FindInv, RefreshInv
<1>6. IndexInv'
  BY Zenon DEF FindInv, IndexInv, PageShown, PageOf
<1>7. SignalInv'
  <2>1. \A k : Settling(k) => Settling(k)'
    BY Zenon DEF Settling
  <2>2. \A l : SignalShown(l) => SignalShown(l)'
    BY Zenon DEF SignalShown
  <2> QED
    BY <1>1, <2>1, <2>2, Zenon DEF FindInv, SignalInv
<1> QED
  BY <1>3, <1>4, <1>5, <1>6, <1>7, Zenon DEF FindInv

\* collect_ready claims a group: its pages are in the receiver's hands.
LEMMA TakeGroupFind ==
  ASSUME IInv, FindInv, TakeGroup
  PROVE  FindInv'
<1>1. /\ rpc = "collect" /\ pagesLeft = {} /\ pagesLeft' \subseteq pageBits
      /\ pageBits' = pageBits \ pagesLeft'
      /\ UNCHANGED <<nextSlot, key, spc, unread, closed, news, lanes, knownPages, pendingLanes>>
      /\ UNCHANGED <<signalled, laneBits, active, queued, slotsLeft, rpc, cur>>
  BY Zenon DEF TakeGroup, registryVars, senderVars, receiverVars
<1>2. pageBits' \union pagesLeft' = pageBits \union pagesLeft
  BY <1>1, Zenon
<1>3. FindTypeOK'
  BY <1>1, Zenon DEF FindInv, FindTypeOK
<1>4. RotationInv'
  BY <1>1, RotationKept, Zenon DEF FindInv
<1>5. RefreshInv'
  <2>1. Pages(nextSlot)' = Pages(nextSlot)
    BY <1>1, Zenon DEF Pages, PageOf
  <2>2. rpc' # "page" /\ rpc' \in {"collect", "page", "lanes"}
    BY <1>1, Zenon
  <2> QED
    BY <1>1, <1>2, <2>1, <2>2, Zenon DEF FindInv, RefreshInv
<1>6. IndexInv'
  BY <1>1, <1>2, Zenon DEF FindInv, IndexInv, PageShown, PageOf
<1>7. SignalInv'
  BY <1>1, Zenon DEF FindInv, SignalInv, SignalShown, Settling, Attached
<1> QED
  BY <1>3, <1>4, <1>5, <1>6, <1>7, Zenon DEF FindInv

\* It takes a page: the page is known, for somebody could mark it and the registry
\* was read since, and the lanes of its bits will be adopted before they are looked up.
LEMMA TakePageFind ==
  ASSUME IInv, FindInv, TakePage
  PROVE  FindInv'
<1>1. PICK p \in pagesLeft :
        /\ pagesLeft' = pagesLeft \ {p}
        /\ slotsLeft' = IF p < knownPages THEN {b \in laneBits : PageOf(b) = p} ELSE {}
        /\ laneBits' = laneBits \ slotsLeft'
        /\ rpc' = IF p < knownPages THEN "lanes" ELSE "collect"
  BY Zenon DEF TakePage, RGoto
<1>2. /\ rpc = "page"
      /\ UNCHANGED <<nextSlot, key, spc, unread, closed, news, lanes, knownPages, pendingLanes>>
      /\ UNCHANGED <<signalled, pageBits, active, queued, cur>>
  BY Zenon DEF TakePage, registryVars, senderVars
<1>3. slotsLeft = {} /\ p < knownPages
  BY <1>2, Zenon DEF FindInv, RefreshInv
<1>4. slotsLeft' = {b \in laneBits : PageOf(b) = p} /\ rpc' = "lanes"
  BY <1>1, <1>3, Zenon
<1>5. FindTypeOK'
  BY <1>2, <1>4, Zenon DEF FindInv, FindTypeOK
<1>6. RotationInv'
  <2>1. "settle" \notin {rpc, rpc'}
    BY <1>2, <1>4, Zenon
  <2> QED
    BY <1>2, <2>1, RotationKept, Zenon DEF FindInv
<1>7. RefreshInv'
  <2>1. Pages(nextSlot)' = Pages(nextSlot)
    BY <1>2, Zenon DEF Pages, PageOf
  <2>2. rpc' # "page" /\ rpc' \in {"collect", "page", "lanes"}
    BY <1>4, Zenon
  <2> QED
    BY <1>1, <1>2, <2>1, <2>2, Zenon DEF FindInv, RefreshInv
<1>8. IndexInv'
  <2> SUFFICES ASSUME NEW b \in laneBits' PROVE PageShown(PageOf(b))'
    BY Zenon DEF IndexInv, PageOf
  <2>1. b \in laneBits /\ PageOf(b) # p
    BY <1>1, <1>4, Zenon
  <2>2. PageShown(PageOf(b))
    BY <2>1, Zenon DEF FindInv, IndexInv
  <2> QED
    BY <1>1, <1>2, <2>1, <2>2, Zenon DEF PageShown, PageOf
<1>9. SignalInv'
  <2>1. \A l : SignalShown(l) => SignalShown(l)'
    BY <1>1, <1>2, <1>3, <1>4, Zenon DEF SignalShown
  <2>2. Attached' = Attached /\ \A k : ~Settling(k)
    BY <1>2, Zenon DEF Attached, Settling
  <2> QED
    BY <1>2, <2>1, <2>2, Zenon DEF FindInv, SignalInv
<1> QED
  BY <1>5, <1>6, <1>7, <1>8, <1>9, Zenon DEF FindInv

\* It looks up the lane of a claimed slot: a PENDING lane of the table joins the
\* rotation or is in it.
LEMMA TakeLaneFind ==
  ASSUME IInv, FindInv, TakeLane
  PROVE  FindInv'
<1> DEFINE found(b) == {l \in lanes : key[l].slot = b /\ l \in signalled /\ l \notin queued}
<1>1. PICK b \in slotsLeft :
        /\ slotsLeft' = slotsLeft \ {b}
        /\ queued' = queued \union found(b)
        /\ active' = IF found(b) = {} THEN active
                     ELSE Append(active, key[CHOOSE l \in found(b) : TRUE])
  BY Zenon DEF TakeLane
<1>2. /\ rpc = "collect"
      /\ UNCHANGED <<nextSlot, key, spc, unread, closed, news, lanes, knownPages, pendingLanes>>
      /\ UNCHANGED <<signalled, pageBits, laneBits, pagesLeft, rpc, cur>>
  BY Zenon DEF TakeLane, registryVars, senderVars, indexVars
<1>3. /\ lanes \subseteq Attached /\ \A l \in Attached : key[l] \in Keys /\ key[l] # NoKey
      /\ \A a, c \in Senders : key[a] = key[c] /\ key[a] # NoKey => a = c
      /\ Attached \subseteq Senders /\ \A a, c \in Attached : key[a].slot = key[c].slot => a = c
  BY KeyFacts, Zenon DEF IInv, SlotsInv
<1>4. /\ queued \subseteq lanes /\ IsInjective(active)
      /\ Range(active) \subseteq {key[l] : l \in queued} /\ \A l \in queued : key[l] \in Range(active)
  BY <1>2, Zenon DEF FindInv, RotationInv, Settling
<1>5. active \in Seq(Keys)
  BY Zenon DEF FindInv, FindTypeOK
<1>6. /\ active' \in Seq(Keys) /\ IsInjective(active') /\ queued' \subseteq lanes
      /\ Range(active') \subseteq {key[l] : l \in queued'} /\ \A l \in queued' : key[l] \in Range(active')
      /\ Range(active) \subseteq Range(active')
  <2>1. CASE found(b) = {}
    BY <1>1, <1>4, <1>5, <2>1, Zenon
  <2>2. CASE found(b) # {}
    <3> DEFINE l == CHOOSE x \in found(b) : TRUE
    <3>1. l \in found(b)
      BY <2>2, Zenon
    <3> HIDE DEF l
    <3>2. l \in lanes /\ l \notin queued /\ l \in Attached /\ key[l] \in Keys /\ key[l].slot = b
      BY <1>3, <3>1, Zenon
    <3>2a. found(b) = {l}
      <4>1. \A x \in found(b) : x = l
        BY <1>3, <3>2, Zenon
      <4> HIDE DEF found
      <4> QED
        BY <3>1, <4>1, Zenon
    <3>3. key[l] \notin Range(active)
      <4> SUFFICES ASSUME key[l] \in Range(active) PROVE FALSE
        BY Zenon
      <4>1. PICK x \in queued : key[l] = key[x]
        BY <1>4, Zenon
      <4>2. x \in Senders /\ l \in Senders /\ key[l] # NoKey
        BY <1>3, <1>4, <3>2, <4>1, Zenon
      <4> QED
        BY <1>3, <3>2, <4>1, <4>2, Zenon
    <3>4. active' = Append(active, key[l]) /\ queued' = queued \union {l}
      BY <1>1, <2>2, <3>2a, Zenon DEF l
    <3>5. /\ Append(active, key[l]) \in Seq(Keys) /\ IsInjective(Append(active, key[l]))
          /\ Range(Append(active, key[l])) = Range(active) \union {key[l]}
      <4>1. key[l] \in Keys /\ IsInjective(active)
        BY <1>4, <3>2, Zenon
      <4> QED
        BY <1>5, <3>3, <4>1, AppendOnce, ZenonT(30)
    <3>6. Range(active') = Range(active) \union {key[l]}
      BY <3>4, <3>5, Zenon
    <3>7. Range(active') \subseteq {key[x] : x \in queued'}
      BY <1>4, <3>4, <3>6, Zenon
    <3> QED
      BY <1>4, <3>2, <3>4, <3>5, <3>6, <3>7, Zenon
  <2> QED
    BY <2>1, <2>2, Zenon
<1>7. FindTypeOK'
  BY <1>2, <1>6, Zenon DEF FindInv, FindTypeOK
<1>8. RotationInv'
  <2>1. rpc' # "settle"
    BY <1>2, Zenon
  <2> QED
    BY <1>2, <1>6, <2>1, Zenon DEF RotationInv, Settling
<1>9. RefreshInv'
  <2>1. Pages(nextSlot)' = Pages(nextSlot)
    BY <1>2, Zenon DEF Pages, PageOf
  <2>2. rpc' # "page" /\ rpc' \in {"collect", "page", "lanes"}
    BY <1>2, Zenon
  <2> QED
    BY <1>2, <2>1, <2>2, Zenon DEF FindInv, RefreshInv
<1>10. IndexInv'
  BY <1>2, Zenon DEF FindInv, IndexInv, PageShown, PageOf
<1>11. SignalInv'
  <2> SUFFICES ASSUME NEW l \in Attached
               PROVE  /\ l \in signalled => SignalShown(l)'
                      /\ unread[l] > 0 \/ l \in closed => l \in signalled \/ spc[l] = "mark"
    BY <1>2, Zenon DEF SignalInv, Attached
  <2>1. unread[l] > 0 \/ l \in closed => l \in signalled \/ spc[l] = "mark"
    BY <1>2, Zenon DEF FindInv, SignalInv, Settling
  <2>2. ASSUME l \in signalled
        PROVE  SignalShown(l)'
    <3>1. SignalShown(l) /\ rpc # "lanes"
      BY <1>2, <2>2, Zenon DEF FindInv, SignalInv
    <3>2. CASE key[l].slot = b /\ l \in lanes
      <4>1. l \in queued'
        BY <1>1, <2>2, <3>2, Zenon
      <4> QED
        BY <1>2, <1>6, <4>1, Zenon DEF SignalShown
    <3>3. CASE key[l].slot # b \/ l \notin lanes
      BY <1>1, <1>2, <1>6, <3>1, <3>3, Zenon DEF SignalShown
    <3> QED
      BY <3>2, <3>3, Zenon
  <2> QED
    BY <2>1, <2>2, Zenon
<1> QED
  BY <1>7, <1>8, <1>9, <1>10, <1>11, Zenon DEF FindInv

\* The lane that the rotation or settle_empty names is queued, and it is the only one.
LEMMA ServedLane ==
  ASSUME IInv, FindInv, NEW k, NEW l \in Lane(k), k \in Range(active) \/ Settling(k)
  PROVE  /\ l \in queued /\ l \in lanes /\ l \in Attached /\ key[l] = k /\ k \in Keys
         /\ \A x \in Attached : key[x] = k => x = l
<1>1. l \in lanes /\ key[l] = k
  BY Zenon DEF Lane
<1>2. /\ lanes \subseteq Attached /\ Attached \subseteq Senders
      /\ \A x \in Attached : key[x] \in Keys /\ key[x] # NoKey
      /\ \A a, b \in Senders : key[a] = key[b] /\ key[a] # NoKey => a = b
  BY KeyFacts, Zenon
<1>3. \A x \in Attached : key[x] = k => x = l
  <2> SUFFICES ASSUME NEW x \in Attached, key[x] = k PROVE x = l
    BY Zenon
  <2>1. x \in Senders /\ l \in Senders /\ key[x] = key[l] /\ key[x] # NoKey
    BY <1>1, <1>2, Zenon
  <2> QED
    BY <1>2, <2>1, Zenon
<1>4. queued \subseteq lanes /\ \E x \in queued : key[x] = k
  BY Zenon DEF FindInv, RotationInv, Settling
<1> QED
  BY <1>1, <1>2, <1>3, <1>4, Zenon

\* A value is received: the rotation may turn.
LEMMA PollValueFind ==
  ASSUME IInv, FindInv, PollValue
  PROVE  FindInv'
<1>1. PICK l \in Lane(Head(active)) : unread[l] > 0 /\ unread' = [unread EXCEPT ![l] = @ - 1]
  BY Zenon DEF PollValue
<1>2. /\ rpc = "idle" /\ active # << >> /\ active' \in {active, Append(Tail(active), Head(active))}
      /\ UNCHANGED <<nextSlot, key, spc, closed, news, lanes, knownPages, pendingLanes>>
      /\ UNCHANGED <<signalled, pageBits, laneBits, pagesLeft, slotsLeft, rpc, cur, queued>>
  BY Zenon DEF PollValue, registryVars, senderVars, indexVars, collectVars
<1>3. active \in Seq(Keys) /\ IsInjective(active) /\ unread \in [Senders -> Nat]
  BY Zenon DEF FindInv, FindTypeOK, RotationInv
<1>4. /\ Head(active) \in Keys /\ Head(active) \in Range(active) /\ Tail(active) \in Seq(Keys)
      /\ IsInjective(Tail(active)) /\ Range(Tail(active)) = Range(active) \ {Head(active)}
  BY <1>2, <1>3, TailOnce, Zenon
<1>5. active' \in Seq(Keys) /\ IsInjective(active') /\ Range(active') = Range(active)
  <2> DEFINE turned == Append(Tail(active), Head(active))
  <2>1. Head(active) \notin Range(Tail(active))
    BY <1>4, Zenon
  <2>2. /\ turned \in Seq(Keys) /\ IsInjective(turned)
        /\ Range(turned) = Range(Tail(active)) \union {Head(active)}
    <3>1. \A q \in Seq(Keys), k \in Keys : IsInjective(q) /\ k \notin Range(q) =>
            /\ Append(q, k) \in Seq(Keys) /\ IsInjective(Append(q, k))
            /\ Range(Append(q, k)) = Range(q) \union {k}
      BY AppendOnce, ZenonT(30)
    <3> QED
      BY <1>4, <2>1, <3>1, Zenon
  <2> HIDE DEF turned
  <2>3. Range(turned) = Range(active)
    BY <1>4, <2>2, Zenon
  <2>4. active' \in {active, turned}
    BY <1>2, Zenon DEF turned
  <2> QED
    BY <1>3, <2>2, <2>3, <2>4, Zenon
<1>6. l \in Senders /\ key[l] # NoKey
  <2>1. l \in Attached
    BY <1>4, ServedLane, Zenon
  <2> QED
    BY <2>1, KeyFacts, Zenon
<1>6a. /\ unread' \in [Senders -> Nat] /\ \A x \in Senders : unread'[x] > 0 => unread[x] > 0
       /\ \A x \in Senders : x # l => unread'[x] = unread[x]
  <2>1. unread[l] - 1 \in Nat
    BY <1>1, <1>3, <1>6
  <2>2. unread' = [unread EXCEPT ![l] = unread[l] - 1]
    BY <1>1, Zenon
  <2>3. unread' \in [Senders -> Nat] /\ \A x \in Senders : x # l => unread'[x] = unread[x]
    BY <1>3, <1>6, <2>1, <2>2, Zenon
  <2> QED
    BY <1>1, <2>3, Zenon
<1>7. FindTypeOK'
  BY <1>2, <1>5, <1>6, <1>6a, Zenon DEF FindInv, FindTypeOK
<1>8. RotationInv'
  BY <1>2, <1>5, Zenon DEF FindInv, RotationInv, Settling
<1>9. RefreshInv'
  <2>1. Pages(nextSlot)' = Pages(nextSlot)
    BY <1>2, Zenon DEF Pages, PageOf
  <2> QED
    BY <1>2, <2>1, Zenon DEF FindInv, RefreshInv
<1>10. IndexInv'
  BY <1>2, Zenon DEF FindInv, IndexInv, PageShown, PageOf
<1>11. SignalInv'
  <2>1. Attached' = Attached /\ Attached \subseteq Senders
    BY <1>2, KeyFacts, Zenon DEF Attached
  <2>2. \A x : SignalShown(x) => SignalShown(x)'
    BY <1>2, <1>5, Zenon DEF SignalShown
  <2> QED
    BY <1>2, <1>6a, <2>1, <2>2, Zenon DEF FindInv, SignalInv, Settling
<1> QED
  BY <1>7, <1>8, <1>9, <1>10, <1>11, Zenon DEF FindInv

\* An empty lane leaves the front of the rotation: settle_empty has it, and its signal
\* is idle.
LEMMA PollEmptyFind ==
  ASSUME IInv, FindInv, PollEmpty
  PROVE  FindInv'
<1>1. PICK l \in Lane(Head(active)) : unread[l] = 0 /\ signalled' = signalled \ {l}
  BY Zenon DEF PollEmpty
<1>2. /\ rpc = "idle" /\ active # << >> /\ rpc' = "settle"
      /\ cur' = Head(active) /\ active' = Tail(active)
      /\ UNCHANGED <<nextSlot, key, spc, closed, unread, news, lanes, knownPages, pendingLanes>>
      /\ UNCHANGED <<pageBits, laneBits, pagesLeft, slotsLeft, queued>>
  BY Zenon DEF PollEmpty, registryVars, senderVars, collectVars, RGoto
<1>3. active \in Seq(Keys) /\ IsInjective(active)
  BY Zenon DEF FindInv, FindTypeOK, RotationInv
<1>4. /\ Head(active) \in Range(active) /\ active' \in Seq(Keys) /\ IsInjective(active')
      /\ Range(active') = Range(active) \ {cur'}
  BY <1>2, <1>3, TailOnce, Zenon
<1>5. l \in queued /\ key[l] = cur' /\ \A x \in Attached : key[x] = cur' => x = l
  BY <1>2, <1>4, ServedLane, Zenon
<1>6. FindTypeOK'
  <2>1. rpc' \in {"idle", "collect", "page", "lanes", "settle", "free", "close", "closePending", "gone"}
    BY <1>2, Zenon
  <2> QED
    BY <1>1, <1>2, <1>4, <2>1, Zenon DEF FindInv, FindTypeOK
<1>7. RotationInv'
  <2>1. \A x \in queued : key[x] \in Range(active)
    BY <1>2, Zenon DEF FindInv, RotationInv, Settling
  <2>2. \A x \in queued : key[x] \in Range(active') <=> key[x] # cur'
    BY <1>4, <2>1, Zenon
  <2> QED
    BY <1>2, <1>4, <1>5, <2>2, Zenon DEF FindInv, RotationInv, Settling
<1>8. RefreshInv'
  <2>1. Pages(nextSlot)' = Pages(nextSlot)
    BY <1>2, Zenon DEF Pages, PageOf
  <2>2. slotsLeft = {} /\ pagesLeft = {} /\ rpc' # "page"
    BY <1>2, Zenon DEF FindInv, RefreshInv
  <2> QED
    BY <1>2, <2>1, <2>2, Zenon DEF FindInv, RefreshInv
<1>9. IndexInv'
  BY <1>2, Zenon DEF FindInv, IndexInv, PageShown, PageOf
<1>10. SignalInv'
  <2> SUFFICES ASSUME NEW x \in Attached
               PROVE  /\ x \in signalled' => SignalShown(x)'
                      /\ unread[x] > 0 \/ x \in closed =>
                           x \in signalled' \/ spc[x] = "mark" \/ key[x] = cur'
    BY <1>2, Zenon DEF SignalInv, Attached, Settling
  <2>1. CASE x = l
    BY <1>1, <1>5, <2>1, Zenon
  <2>2. CASE x # l
    <3>1. (x \in signalled' <=> x \in signalled) /\ key[x] # cur'
      BY <1>1, <1>5, <2>2, Zenon
    <3>2. ~Settling(key[x]) /\ rpc # "lanes"
      BY <1>2, Zenon DEF Settling
    <3>3. SignalShown(x) => SignalShown(x)'
      BY <1>2, <1>4, <3>1, <3>2, Zenon DEF SignalShown
    <3> QED
      BY <3>1, <3>2, <3>3, Zenon DEF FindInv, SignalInv
  <2> QED
    BY <2>1, <2>2, Zenon
<1> QED
  BY <1>6, <1>7, <1>8, <1>9, <1>10, Zenon DEF FindInv

\* The lane that settle_empty has is not in the rotation, and no other is settling.
LEMMA SettledLane ==
  ASSUME IInv, FindInv, rpc = "settle", NEW l \in Lane(cur)
  PROVE  /\ l \in queued /\ l \in lanes /\ key[l] = cur /\ cur \in Keys /\ cur \notin Range(active)
         /\ \A x \in Attached : key[x] = cur => x = l
         /\ \A x \in Attached : x # l => ~Settling(key[x])
         /\ queued \subseteq lanes /\ lanes \subseteq Attached /\ slotsLeft = {} /\ pagesLeft = {}
         /\ IsInjective(active) /\ active \in Seq(Keys) /\ Range(active) \subseteq {key[x] : x \in queued \ {l}}
         /\ \A x \in queued : x # l => key[x] \in Range(active)
<1>1. Settling(cur)
  BY Zenon DEF Settling
<1>2. /\ l \in queued /\ l \in lanes /\ key[l] = cur /\ cur \in Keys
      /\ \A x \in Attached : key[x] = cur => x = l
  BY <1>1, ServedLane, Zenon
<1>3. \A x \in Attached : x # l => ~Settling(key[x])
  BY <1>2, Zenon DEF Settling
<1>4. /\ queued \subseteq lanes /\ IsInjective(active) /\ active \in Seq(Keys)
      /\ Range(active) \subseteq {key[x] : x \in queued}
      /\ \A x \in queued : key[x] \in Range(active) <=> ~Settling(key[x])
  BY Zenon DEF FindInv, FindTypeOK, RotationInv
<1>5. cur \notin Range(active)
  BY <1>1, <1>2, <1>4, Zenon
<1>6. Range(active) \subseteq {key[x] : x \in queued \ {l}}
  BY <1>2, <1>4, <1>5, Zenon
<1>7. lanes \subseteq Attached
  BY Zenon DEF Attached
<1>8. slotsLeft = {} /\ pagesLeft = {}
  BY Zenon DEF FindInv, RefreshInv
<1> QED
  BY <1>2, <1>3, <1>4, <1>5, <1>6, <1>7, <1>8, Zenon

\* settle_empty looks again and a value came: the lane goes back into the rotation.
LEMMA SettleKeepFind ==
  ASSUME IInv, FindInv, SettleKeep
  PROVE  FindInv'
<1>1. PICK l \in Lane(cur) : unread[l] > 0 /\ signalled' = signalled \union {l}
  BY Zenon DEF SettleKeep
<1>2. /\ rpc = "settle" /\ rpc' = "idle" /\ active' = Append(active, cur)
      /\ UNCHANGED <<nextSlot, key, spc, closed, unread, news, lanes, knownPages, pendingLanes>>
      /\ UNCHANGED <<pageBits, laneBits, pagesLeft, slotsLeft, queued>>
  BY Zenon DEF SettleKeep, registryVars, senderVars, collectVars, RGoto
<1>3. /\ l \in queued /\ l \in lanes /\ key[l] = cur /\ cur \in Keys /\ cur \notin Range(active)
      /\ \A x \in Attached : x # l => ~Settling(key[x])
      /\ queued \subseteq lanes /\ lanes \subseteq Attached /\ slotsLeft = {} /\ pagesLeft = {}
      /\ IsInjective(active) /\ active \in Seq(Keys) /\ Range(active) \subseteq {key[x] : x \in queued \ {l}}
      /\ \A x \in queued : x # l => key[x] \in Range(active)
  BY <1>2, SettledLane, Zenon
<1>4. active' \in Seq(Keys) /\ IsInjective(active') /\ Range(active') = Range(active) \union {cur}
  <2>1. active \in Seq(Keys) /\ cur \in Keys /\ IsInjective(active) /\ cur \notin Range(active)
    BY <1>3, Zenon
  <2>2. /\ Append(active, cur) \in Seq(Keys) /\ IsInjective(Append(active, cur))
        /\ Range(Append(active, cur)) = Range(active) \union {cur}
    BY <2>1, AppendOnce, ZenonT(30)
  <2> QED
    BY <1>2, <2>2, Zenon
<1>5. FindTypeOK'
  <2>1. rpc' \in {"idle", "collect", "page", "lanes", "settle", "free", "close", "closePending", "gone"}
    BY <1>2, Zenon
  <2>2. l \in Senders /\ key[l] # NoKey
    BY <1>3, KeyFacts, Zenon
  <2> QED
    BY <1>1, <1>2, <1>4, <2>1, <2>2, Zenon DEF FindInv, FindTypeOK
<1>6. RotationInv'
  <2>1. \A x \in queued : key[x] \in Range(active')
    BY <1>3, <1>4, Zenon
  <2>2. Range(active') \subseteq {key[x] : x \in queued}
    BY <1>3, <1>4, Zenon
  <2>3. rpc' # "settle"
    BY <1>2, Zenon
  <2>4. queued \subseteq lanes /\ UNCHANGED <<queued, lanes, key>> /\ IsInjective(active')
    BY <1>2, <1>3, <1>4, Zenon
  <2> QED
    BY <2>1, <2>2, <2>3, <2>4, Zenon DEF RotationInv, Settling
<1>7. RefreshInv'
  <2>1. Pages(nextSlot)' = Pages(nextSlot)
    BY <1>2, Zenon DEF Pages, PageOf
  <2>2. rpc' # "page"
    BY <1>2, Zenon
  <2> QED
    BY <1>2, <1>3, <2>1, <2>2, Zenon DEF FindInv, RefreshInv
<1>8. IndexInv'
  BY <1>2, Zenon DEF FindInv, IndexInv, PageShown, PageOf
<1>9. SignalInv'
  <2> SUFFICES ASSUME NEW x \in Attached
               PROVE  /\ x \in signalled' => SignalShown(x)'
                      /\ unread[x] > 0 \/ x \in closed => x \in signalled' \/ spc[x] = "mark"
    BY <1>2, Zenon DEF SignalInv, Attached
  <2>1. CASE x = l
    BY <1>1, <1>2, <1>3, <1>4, <2>1, Zenon DEF SignalShown
  <2>2. CASE x # l
    <3>1. (x \in signalled' <=> x \in signalled) /\ ~Settling(key[x])
      BY <1>1, <1>3, <2>2, Zenon
    <3>2. SignalShown(x) => SignalShown(x)'
      BY <1>2, <1>3, <1>4, Zenon DEF SignalShown
    <3> QED
      BY <3>1, <3>2, Zenon DEF FindInv, SignalInv
  <2> QED
    BY <2>1, <2>2, Zenon
<1> QED
  BY <1>5, <1>6, <1>7, <1>8, <1>9, Zenon DEF FindInv

\* It finds nothing: the lane leaves the rotation, and the table if its sender is gone.
LEMMA SettleOutFind ==
  ASSUME IInv, FindInv, SettleIdle \/ SettleRetire
  PROVE  FindInv'
<1>1. PICK l \in Lane(cur) : /\ unread[l] = 0 /\ queued' = queued \ {l}
                             /\ \/ l \notin closed /\ lanes' = lanes /\ rpc' = "idle"
                                \/ lanes' = lanes \ {l} /\ rpc' = "free"
  <2>1. CASE SettleIdle
    BY <2>1, Zenon DEF SettleIdle, RGoto
  <2>2. CASE SettleRetire
    <3>1. PICK l \in Lane(cur) : unread[l] = 0 /\ Retire(lanes, {l})
      BY <2>2, Zenon DEF SettleRetire
    <3>2. queued' = queued \ {l} /\ lanes' = lanes \ {l} /\ rpc' = "free"
      BY <3>1, Zenon DEF Retire, RGoto
    <3> QED
      BY <3>1, <3>2, Zenon
  <2> QED
    BY <2>1, <2>2, Zenon
<1>2. /\ rpc = "settle"
      /\ UNCHANGED <<nextSlot, key, spc, closed, unread, news, knownPages, pendingLanes, active>>
      /\ UNCHANGED <<signalled, pageBits, laneBits, pagesLeft, slotsLeft>>
  BY Zenon DEF SettleIdle, SettleRetire, registryVars, senderVars, indexVars, collectVars
<1>3. /\ l \in lanes /\ \A x \in Attached : x # l => ~Settling(key[x])
      /\ queued \subseteq lanes /\ slotsLeft = {} /\ pagesLeft = {}
      /\ IsInjective(active) /\ Range(active) \subseteq {key[x] : x \in queued \ {l}}
      /\ \A x \in queued : x # l => key[x] \in Range(active)
  BY <1>2, SettledLane, Zenon
<1>4. FindTypeOK'
  <2>1. rpc' \in {"idle", "collect", "page", "lanes", "settle", "free", "close", "closePending", "gone"}
    BY <1>1, Zenon
  <2> QED
    BY <1>2, <2>1, Zenon DEF FindInv, FindTypeOK
<1>5. rpc' \notin {"page", "settle"}
  BY <1>1, Zenon
<1>6. RotationInv'
  <2>1. queued' \subseteq lanes' /\ \A x \in queued' : key[x] \in Range(active)
    BY <1>1, <1>3, Zenon
  <2> QED
    BY <1>1, <1>2, <1>3, <1>5, <2>1, Zenon DEF RotationInv, Settling
<1>7. RefreshInv'
  <2>1. Pages(nextSlot)' = Pages(nextSlot)
    BY <1>2, Zenon DEF Pages, PageOf
  <2> QED
    BY <1>2, <1>3, <1>5, <2>1, Zenon DEF FindInv, RefreshInv
<1>8. IndexInv'
  BY <1>2, Zenon DEF FindInv, IndexInv, PageShown, PageOf
<1>9. SignalInv'
  <2>1. lanes \intersect pendingLanes = {}
    BY Zenon DEF IInv, SlotsInv
  <2>2. \A x \in Attached' : x \in Attached /\ (x = l => l \notin closed)
    BY <1>1, <1>2, <1>3, <2>1, Zenon DEF Attached
  <2>3. ~(unread[l] > 0)
    BY <1>1
  <2>4. \A x : SignalShown(x) => SignalShown(x)'
    BY <1>2, <1>3, Zenon DEF SignalShown
  <2> QED
    BY <1>2, <1>3, <2>2, <2>3, <2>4, Zenon DEF FindInv, SignalInv
<1> QED
  BY <1>4, <1>6, <1>7, <1>8, <1>9, Zenon DEF FindInv

\* close_lane reads the registry; the lane it finds leaves the table and the rotation.
LEMMA CloseLaneFind ==
  ASSUME IInv, FindInv, NEW s \in Senders, CloseLane(s)
  PROVE  FindInv'
<1> DEFINE found == {l \in Adopted : key[l] = key[s]}
<1>1. /\ rpc = "idle" /\ key[s] # NoKey /\ Refresh
      /\ active' = IF found = {} THEN active ELSE Retained(active, key[s])
      /\ lanes' = Adopted \ found /\ queued' = queued \ found
      /\ rpc' = IF found = {} THEN "idle" ELSE "free"
      /\ UNCHANGED <<nextSlot, key, spc, closed, unread, signalled, laneBits, pageBits>>
      /\ UNCHANGED <<pagesLeft, slotsLeft>>
  BY Zenon DEF CloseLane, Retire, RGoto, senderVars, indexVars, collectVars
<1>2. /\ Adopted = Attached /\ pendingLanes' = {} /\ news' = FALSE
      /\ knownPages' = Pages(nextSlot) /\ Pages(nextSlot)' = Pages(nextSlot)
  BY <1>1, RefreshKnows, Zenon
<1>3. /\ lanes \subseteq Attached /\ Attached \subseteq Senders
      /\ \A a, b \in Senders : key[a] = key[b] /\ key[a] # NoKey => a = b
  BY KeyFacts, Zenon
<1>4. CASE found = {}
  <2>1. lanes' = Adopted /\ UNCHANGED <<active, queued>> /\ rpc' = "idle"
    BY <1>1, <1>4, Zenon
  <2> HIDE DEF found
  <2> QED
    BY <1>1, <2>1, RefreshFind, Zenon
<1>5. CASE found # {}
  <2>1. found = {s}
    <3>1. \A l \in found : l = s
      BY <1>1, <1>2, <1>3, Zenon
    <3> HIDE DEF found
    <3> QED
      BY <1>5, <3>1, Zenon
  <2>2. /\ active' = Retained(active, key[s]) /\ lanes' = Attached \ {s}
        /\ queued' = queued \ {s} /\ rpc' = "free"
    BY <1>1, <1>2, <1>5, <2>1, Zenon
  <2> HIDE DEF found
  <2>3. /\ active \in Seq(Keys) /\ IsInjective(active) /\ queued \subseteq lanes
        /\ Range(active) \subseteq {key[l] : l \in queued} /\ \A l \in queued : key[l] \in Range(active)
    BY <1>1, Zenon DEF FindInv, FindTypeOK, RotationInv, Settling
  <2>4. /\ active' \in Seq(Keys) /\ IsInjective(active')
        /\ Range(active') = Range(active) \ {key[s]}
    BY <2>2, <2>3, RemoveOnce, Zenon
  <2>5. \A l \in Attached : l # s => key[l] # key[s]
    BY <1>1, <1>3, Zenon
  <2>6. Attached' = Attached \ {s}
    BY <1>2, <2>2, Zenon DEF Attached
  <2>7. FindTypeOK'
    <3>1. rpc' \in {"idle", "collect", "page", "lanes", "settle", "free", "close", "closePending", "gone"}
      BY <2>2, Zenon
    <3> QED
      BY <1>1, <2>4, <3>1, Zenon DEF FindInv, FindTypeOK
  <2>8. RotationInv'
    <3>1. queued' \subseteq lanes' /\ \A l \in queued' : key[l] \in Range(active')
      BY <1>3, <2>2, <2>3, <2>4, <2>5, Zenon
    <3>2. Range(active') \subseteq {key[l] : l \in queued'}
      BY <2>2, <2>3, <2>4, Zenon
    <3>3. rpc' # "settle"
      BY <2>2, Zenon
    <3> QED
      BY <1>1, <2>4, <3>1, <3>2, <3>3, Zenon DEF RotationInv, Settling
  <2>9. slotsLeft = {} /\ pagesLeft = {} /\ rpc' # "page"
    BY <1>1, <2>2, Zenon DEF FindInv, RefreshInv
  <2>10. RefreshInv'
    BY <1>1, <1>2, <2>9, Zenon DEF FindInv, RefreshInv
  <2>11. IndexInv'
    BY <1>1, Zenon DEF FindInv, IndexInv, PageShown, PageOf
  <2>12. SignalInv'
    <3> SUFFICES ASSUME NEW l \in Attached, l # s
                 PROVE  /\ l \in signalled => SignalShown(l)'
                        /\ unread[l] > 0 \/ l \in closed => l \in signalled \/ spc[l] = "mark"
      BY <1>1, <2>6, Zenon DEF SignalInv
    <3>1. SignalShown(l) => SignalShown(l)'
      BY <1>1, <2>4, <2>5, <2>9, Zenon DEF SignalShown
    <3> QED
      BY <1>1, <3>1, Zenon DEF FindInv, SignalInv, Settling
  <2> QED
    BY <2>7, <2>8, <2>10, <2>11, <2>12, Zenon DEF FindInv
<1> QED
  BY <1>4, <1>5, Zenon

\* Every step keeps what makes the lanes findable.
LEMMA FindStep == IInv /\ FindInv /\ [Next]_vars => FindInv'
<1> SUFFICES ASSUME IInv, FindInv, [Next]_vars PROVE FindInv'
  BY Zenon
<1> USE DEF registryVars, senderVars, indexVars, receiverVars, collectVars, refreshKeeps, RGoto
<1>1. CASE StartCollect
  BY <1>1, RefreshFind, Zenon DEF StartCollect
<1>2. CASE RefreshPages
  BY <1>2, RefreshFind, Zenon DEF RefreshPages
<1>3. CASE RefreshLanes
  BY <1>3, RefreshFind, Zenon DEF RefreshLanes
<1>4. CASE EndCollect
  BY <1>4, QuietFind, Zenon DEF EndCollect
<1>5. slotsLeft # {} \/ pagesLeft # {} => rpc \in {"collect", "page", "lanes"}
  BY Zenon DEF FindInv, RefreshInv
<1>6. CASE FreeSlot
  BY <1>5, <1>6, QuietFind, Zenon DEF FreeSlot
<1>7. CASE StartDrop
  BY <1>5, <1>7, QuietFind, Zenon DEF StartDrop
<1>8. CASE CloseAdopted
  BY <1>5, <1>8, QuietFind, Zenon DEF CloseAdopted
<1>9. CASE ClosePending
  BY <1>5, <1>9, QuietFind, Zenon DEF ClosePending
<1>10. CASE UNCHANGED vars
  BY <1>10, QuietFind, Zenon DEF vars
<1>11. CASE Receiver
  BY <1>1, <1>2, <1>3, <1>4, <1>6, <1>7, <1>8, <1>9, <1>11, TakeGroupFind, TakePageFind, TakeLaneFind,
     PollValueFind, PollEmptyFind, SettleKeepFind, SettleOutFind, CloseLaneFind, Zenon DEF Receiver
<1>12. ASSUME NEW s \in Senders, Sender(s)
       PROVE  FindInv'
  BY <1>12, RegisterFind, SenderStepFind, Zenon DEF Sender
<1> QED
  BY <1>10, <1>11, <1>12, Zenon DEF Next

\* A new channel, whose one lane nobody has marked.
LEMMA InitFind == Init => FindInv
<1> SUFFICES ASSUME Init PROVE FindInv
  BY Zenon
<1>1. /\ pendingLanes = {} /\ nextSlot = 1 /\ unread = [s \in Senders |-> 0] /\ closed = {}
      /\ signalled = {} /\ laneBits = {} /\ pageBits = {} /\ knownPages = 1 /\ active = << >>
      /\ queued = {} /\ rpc = "idle" /\ pagesLeft = {} /\ slotsLeft = {}
  BY Zenon DEF Init
<1>2. FindTypeOK
  BY <1>1 DEF FindTypeOK
<1>3. RotationInv
  <2>1. DOMAIN active = {} /\ rpc # "settle"
    BY <1>1
  <2> QED
    BY <1>1, <2>1, Zenon DEF RotationInv, IsInjective, Range
<1>4. RefreshInv
  <2>1. Pages(1) = 1
    BY IndexAssumption DEF Pages, PageOf
  <2> QED
    BY <1>1, <2>1 DEF RefreshInv
<1>5. IndexInv
  BY <1>1, Zenon DEF IndexInv
<1>6. SignalInv
  <2>1. \A l \in Senders : ~(unread[l] > 0)
    BY <1>1
  <2>2. Attached \subseteq Senders
    BY SendersAssumption, Zenon DEF Init, Attached
  <2> QED
    BY <1>1, <2>1, <2>2, Zenon DEF SignalInv
<1> QED
  BY <1>2, <1>3, <1>4, <1>5, <1>6, Zenon DEF FindInv

\* A lane with a value or without its sender can be found: it is PENDING, about to be,
\* or being looked at again; and a PENDING lane is on its way into the index, in it, in
\* the hands of collect_ready or in the rotation.  The rotation names lanes of the table.
LEMMA FindInvFinds == FindInv => NoLaneHidden
<1> SUFFICES ASSUME FindInv PROVE NoLaneHidden
  BY Zenon
<1>1. ASSUME NEW l \in Attached, unread[l] > 0 \/ l \in closed
      PROVE  Indexing(l) \/ Indexed(l) \/ Found(l)
  <2>1. l \in signalled \/ spc[l] = "mark" \/ Settling(key[l])
    BY <1>1, Zenon DEF FindInv, SignalInv
  <2>2. CASE spc[l] = "mark"
    BY <2>2, Zenon DEF Indexing
  <2>3. CASE Settling(key[l])
    BY <2>3, Zenon DEF Settling, Found
  <2>4. CASE l \in signalled
    <3>1. SignalShown(l)
      BY <2>4, Zenon DEF FindInv, SignalInv
    <3>2. CASE spc[l] = "page"
      BY <3>2, Zenon DEF Indexing
    <3>3. CASE key[l].slot \in laneBits
      BY <3>3, Zenon DEF FindInv, IndexInv, PageShown, Indexed
    <3> QED
      BY <3>1, <3>2, <3>3, Zenon DEF SignalShown, Found
  <2> QED
    BY <2>1, <2>2, <2>3, <2>4, Zenon
<1>2. \A k \in Range(active) : Lane(k) # {}
  BY Zenon DEF FindInv, RotationInv, Lane
<1> QED
  BY <1>1, <1>2, Zenon DEF NoLaneHidden

\* Registration, slot reuse and late marks of earlier owners of a slot hide no lane.
THEOREM NoLaneIsHidden == Spec => []NoLaneHidden
BY InitInv, NextInv, InitFind, FindStep, FindInvFinds, PTL DEF Spec
=============================================================================
