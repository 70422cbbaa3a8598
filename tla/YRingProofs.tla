---------------------------- MODULE YRingProofs ----------------------------
(***************************************************************************)
(* Proofs about YRing, for every capacity, cursor width and value set:     *)
(* wrapping arithmetic, the inductive invariant and its consequences, and  *)
(* the refinement of the abstract FIFO.                                    *)
(***************************************************************************)
EXTENDS YRing, SequenceTheorems, TLAPS

-----------------------------------------------------------------------------
(* Wrapping arithmetic. *)

\* Ring::new leaves more than twice the capacity to the cursors.
LEMMA RangeFacts ==
  /\ Cap \in Nat /\ Cap > 0
  /\ CursorRange \in Nat /\ 2 * Cap < CursorRange
BY CapAssumption, RangeAssumption

\* wrapping_sub of two cursors, without the remainder.
LEMMA DistanceCases ==
  ASSUME NEW a \in Cursors, NEW b \in Cursors
  PROVE  Distance(a, b) = IF b <= a THEN a - b ELSE a - b + CursorRange
BY RangeFacts DEF Distance, Cursors

\* The distance between two cursors is a natural number.
LEMMA DistanceType ==
  ASSUME NEW a \in Cursors, NEW b \in Cursors
  PROVE  Distance(a, b) \in Nat
BY DistanceCases, RangeFacts DEF Cursors

\* wrapping_add of at most one capacity, without the remainder.
LEMMA WrappingAddCases ==
  ASSUME NEW c \in Cursors, NEW n \in 0..Cap
  PROVE  /\ WrappingAdd(c, n) = IF c + n < CursorRange THEN c + n ELSE c + n - CursorRange
         /\ WrappingAdd(c, n) \in Cursors
BY RangeFacts DEF WrappingAdd, Cursors

\* A remainder is determined by any quotient that goes with it.
LEMMA RemainderUnique ==
  ASSUME NEW m \in Nat, NEW q \in Int, NEW r \in Int, 0 <= r, r < m
  PROVE  (m * q + r) % m = r
OBVIOUS

\* Division with remainder.
LEMMA DivMod ==
  ASSUME NEW x \in Int, NEW m \in Nat, m > 0
  PROVE  /\ x \div m \in Int
         /\ (x % m) \in Int /\ 0 <= (x % m) /\ (x % m) < m
         /\ x = m * (x \div m) + (x % m)
OBVIOUS

\* Reducing by the cursor range first does not change the slot, because the
\* capacity divides the range.
LEMMA IndexOfWrapped ==
  ASSUME NEW c \in Cursors, NEW n \in Nat
  PROVE  Index(WrappingAdd(c, n)) = (c + n) % Cap
<1> DEFINE x == c + n
           w == x % CursorRange
           p == x \div CursorRange
           k == CursorRange \div Cap
           q == w \div Cap
           r == w % Cap
<1>1. x \in Int /\ CursorRange > 0
  BY RangeFacts DEF Cursors
<1> HIDE DEF x
<1>2. p \in Int /\ w \in Int /\ x = CursorRange * p + w
  BY <1>1, RangeFacts, DivMod
<1>3. k \in Int /\ CursorRange = Cap * k
  BY RangeFacts, RangeAssumption, DivMod
<1>4. q \in Int /\ r \in Int /\ 0 <= r /\ r < Cap /\ w = Cap * q + r
  BY <1>2, RangeFacts, DivMod, Zenon
<1> HIDE DEF w, p, k, q, r
<1>5. x = Cap * (k * p + q) + r
  BY <1>2, <1>3, <1>4, RangeFacts
<1>6. k * p + q \in Int
  BY <1>2, <1>3, <1>4
<1>7. x % Cap = r
  BY <1>4, <1>5, <1>6, RangeFacts, RemainderUnique
<1> QED
  BY <1>7 DEF Index, WrappingAdd, x, w, r

\* Two moves of at most a capacity each land on the slot of their sum.
LEMMA IndexShift ==
  ASSUME NEW c \in Cursors, NEW n \in 0..Cap, NEW k \in 0..(Cap - 1)
  PROVE  Index(WrappingAdd(WrappingAdd(c, n), k)) = (c + (n + k)) % Cap
<1> DEFINE w == WrappingAdd(c, n)
<1>1. w \in Cursors /\ w = IF c + n < CursorRange THEN c + n ELSE c + n - CursorRange
  BY WrappingAddCases
<1> HIDE DEF w
<1>2. Index(WrappingAdd(w, k)) = (w + k) % Cap
  BY <1>1, IndexOfWrapped, RangeFacts
<1>3. CASE c + n < CursorRange
  <2>1. w + k = c + (n + k)
    BY <1>1, <1>3, RangeFacts DEF Cursors
  <2> QED
    BY <1>2, <2>1 DEF w
<1>4. CASE c + n >= CursorRange
  <2>1. w + k \in Cursors /\ c + (n + k) = (w + k) + CursorRange
    BY <1>1, <1>4, RangeFacts DEF Cursors
  <2>2. WrappingAdd(c, n + k) = w + k
    BY <2>1, RangeFacts DEF WrappingAdd, Cursors
  <2>3. Index(w + k) = (c + (n + k)) % Cap
    BY <2>2, IndexOfWrapped, RangeFacts
  <2> QED
    BY <1>2, <2>3 DEF Index, w
<1> QED
  BY <1>3, <1>4, RangeFacts DEF Cursors

\* Slots reached within one capacity of a cursor are distinct ...
LEMMA SlotInjective ==
  ASSUME NEW c \in Int, NEW i \in 0..(Cap - 1), NEW j \in 0..(Cap - 1),
         (c + i) % Cap = (c + j) % Cap
  PROVE  i = j
<1> DEFINE r == (c + i) % Cap
           p == (c + i) \div Cap
           q == (c + j) \div Cap
<1>1. p \in Int /\ r \in Int /\ c + i = Cap * p + r
  BY RangeFacts, DivMod
<1>2. q \in Int /\ c + j = Cap * q + r
  BY RangeFacts, DivMod
<1> HIDE DEF r, p, q
<1>3. i - j = Cap * (p - q)
  BY <1>1, <1>2, RangeFacts
<1>4. p - q = 0
  <2>1. SUFFICES ASSUME p - q # 0 PROVE FALSE
    OBVIOUS
  <2>2. CASE p - q >= 1
    <3>1. Cap * (p - q) >= Cap
      BY <2>2, <1>1, <1>2, RangeFacts
    <3> QED BY <3>1, <1>3, RangeFacts
  <2>3. CASE p - q <= -1
    <3>1. Cap * (p - q) <= -Cap
      BY <2>3, <1>1, <1>2, RangeFacts
    <3> QED BY <3>1, <1>3, RangeFacts
  <2> QED BY <2>1, <2>2, <2>3, <1>1, <1>2
<1> QED
  BY <1>3, <1>4, RangeFacts

\* ... a full turn comes back to the same slot ...
LEMMA SlotPeriod ==
  ASSUME NEW x \in Int
  PROVE  (x + Cap) % Cap = x % Cap
<1> DEFINE q == x \div Cap
           r == x % Cap
<1>1. q \in Int /\ r \in Int /\ 0 <= r /\ r < Cap /\ x = Cap * q + r
  BY RangeFacts, DivMod
<1> HIDE DEF q, r
<1>2. x + Cap = Cap * (q + 1) + r
  BY <1>1, RangeFacts
<1>3. (x + Cap) % Cap = r
  BY <1>1, <1>2, RangeFacts, RemainderUnique
<1> QED
  BY <1>3 DEF r

\* ... and every slot is reached.
LEMMA SlotOnto ==
  ASSUME NEW c \in Int, NEW s \in Slots
  PROVE  \E k \in 0..(Cap - 1) : s = (c + k) % Cap
<1> DEFINE r == c % Cap
           q == c \div Cap
<1>1. q \in Int /\ r \in Int /\ 0 <= r /\ r < Cap /\ c = Cap * q + r
  BY RangeFacts, DivMod
<1> HIDE DEF r, q
<1>s. s \in Int /\ 0 <= s /\ s < Cap
  BY RangeFacts DEF Slots
<1>2. CASE r <= s
  <2>1. s - r \in 0..(Cap - 1)
    BY <1>1, <1>2, <1>s, RangeFacts
  <2>2. c + (s - r) = Cap * q + s
    BY <1>1, <1>s, RangeFacts
  <2>3. (c + (s - r)) % Cap = s
    BY <2>2, <1>1, <1>s, RangeFacts, RemainderUnique
  <2> QED BY <2>1, <2>3
<1>3. CASE s < r
  <2>1. s - r + Cap \in 0..(Cap - 1)
    BY <1>1, <1>3, <1>s, RangeFacts
  <2>2. c + (s - r + Cap) = Cap * (q + 1) + s
    BY <1>1, <1>s, RangeFacts
  <2>3. (c + (s - r + Cap)) % Cap = s
    BY <2>2, <1>1, <1>s, RangeFacts, RemainderUnique
  <2> QED BY <2>1, <2>3
<1> QED
  BY <1>1, <1>2, <1>3, <1>s

-----------------------------------------------------------------------------
(* The inductive invariant. *)

\* A new ring, as Ring::new and spsc build it, satisfies the invariant.
LEMMA InitInv == Init => IInv
<1> SUFFICES ASSUME Init PROVE IInv
  OBVIOUS
<1>1. 0 \in Cursors
  BY RangeFacts DEF Cursors
<1>2. Distance(0, 0) = 0
  BY <1>1, DistanceCases
<1>3. TypeOK
  <2>1. <<>> \in Seq(Values)
    OBVIOUS
  <2> QED
    BY <1>1, <2>1, Zenon DEF Init, TypeOK
<1>4. CursorsInOrder
  BY <1>2, RangeFacts DEF Init, CursorsInOrder
<1>5. SlotsMatchCursors
  <2>1. ASSUME NEW k \in 0..(Cap - 1) PROVE Index(WrappingAdd(0, k)) \in Slots
    BY <1>1, RangeFacts, IndexOfWrapped, DivMod DEF Slots
  <2> QED
    BY <2>1, <1>2 DEF Init, SlotsMatchCursors
<1>6. HalvesHandOff
  BY DEF Init, HalvesHandOff
<1> QED
  BY <1>3, <1>4, <1>5, <1>6 DEF IInv

\* Every window position lies in a slot of the buffer.
LEMMA SlotInRange ==
  ASSUME NEW c \in Cursors, NEW n \in Nat
  PROVE  Index(WrappingAdd(c, n)) \in Slots
<1>1. c + n \in Int
  BY RangeFacts DEF Cursors
<1>2. /\ ((c + n) % Cap) \in Int
      /\ 0 <= ((c + n) % Cap)
      /\ ((c + n) % Cap) < Cap
  BY <1>1, RangeFacts, DivMod
<1> QED
  BY <1>2, IndexOfWrapped, RangeFacts DEF Slots

\* A cursor sits at its own distance from any other.
LEMMA AddDistance ==
  ASSUME NEW a \in Cursors, NEW b \in Cursors, Distance(a, b) <= Cap
  PROVE  /\ Distance(a, b) \in 0..Cap
         /\ WrappingAdd(b, Distance(a, b)) = a
<1>1. Distance(a, b) \in 0..Cap
  BY DistanceCases, RangeFacts DEF Cursors
<1> DEFINE d == Distance(a, b)
<1>2. d = IF b <= a THEN a - b ELSE a - b + CursorRange
  BY DistanceCases
<1>3. d \in 0..Cap
  BY <1>1
<1> HIDE DEF d
<1>4. WrappingAdd(b, d) = IF b + d < CursorRange THEN b + d ELSE b + d - CursorRange
  BY <1>3, WrappingAddCases
<1>5. WrappingAdd(b, d) = a
  BY <1>2, <1>3, <1>4, RangeFacts DEF Cursors
<1> QED
  BY <1>1, <1>5 DEF d

\* The order of the cursors, measured from the consumer's own head.
LEMMA OrderFromConsumer ==
  ASSUME TypeOK, CursorsInOrder, ~dropped
  PROVE  /\ Distance(cachedTail, chead) \in 0..Cap
         /\ Distance(tail, chead) \in 0..Cap
         /\ Distance(cursor, chead) \in 0..Cap
         /\ Distance(cachedTail, chead) <= Distance(tail, chead)
         /\ Distance(tail, chead) <= Distance(cursor, chead)
         /\ Distance(cursor, chead) <= Distance(cursor, cachedHead)
         /\ Distance(cursor, chead) = Distance(cursor, tail) + Distance(tail, chead)
         /\ Distance(cursor, chead) <= Distance(cursor, head)
<1>1. /\ head \in Cursors /\ tail \in Cursors /\ cursor \in Cursors
      /\ cachedHead \in Cursors /\ chead \in Cursors /\ cachedTail \in Cursors
  BY DEF TypeOK
<1> DEFINE D(a, b) == IF b <= a THEN a - b ELSE a - b + CursorRange
<1>2. /\ Distance(chead, head) = D(chead, head)
      /\ Distance(cachedTail, head) = D(cachedTail, head)
      /\ Distance(tail, head) = D(tail, head)
      /\ Distance(cursor, head) = D(cursor, head)
      /\ Distance(cursor, cachedHead) = D(cursor, cachedHead)
  BY <1>1, DistanceCases
<1>3. /\ Distance(cachedTail, chead) = D(cachedTail, chead)
      /\ Distance(tail, chead) = D(tail, chead)
      /\ Distance(cursor, chead) = D(cursor, chead)
      /\ Distance(cursor, tail) = D(cursor, tail)
  BY <1>1, DistanceCases
<1> QED
  BY <1>1, <1>2, <1>3, RangeFacts DEF CursorsInOrder, Cursors

\* Moving the consumer's head by what its window allows.
LEMMA AdvanceConsumer ==
  ASSUME TypeOK, CursorsInOrder, ~dropped,
         NEW n \in Nat, n <= Distance(cachedTail, chead),
         NEW c \in Cursors, c = WrappingAdd(chead, n)
  PROVE  /\ Distance(c, head) <= Distance(cachedTail, head)
         /\ Distance(cursor, c) = Distance(cursor, chead) - n
         /\ Distance(tail, c) = Distance(tail, chead) - n
<1>1. /\ head \in Cursors /\ tail \in Cursors /\ cursor \in Cursors
      /\ cachedHead \in Cursors /\ chead \in Cursors /\ cachedTail \in Cursors
  BY DEF TypeOK
<1> DEFINE D(a, b) == IF b <= a THEN a - b ELSE a - b + CursorRange
<1>2. /\ Distance(chead, head) = D(chead, head)
      /\ Distance(cachedTail, head) = D(cachedTail, head)
      /\ Distance(tail, head) = D(tail, head)
      /\ Distance(cursor, head) = D(cursor, head)
      /\ Distance(cursor, cachedHead) = D(cursor, cachedHead)
  BY <1>1, DistanceCases
<1>3. /\ Distance(cachedTail, chead) = D(cachedTail, chead)
      /\ Distance(tail, chead) = D(tail, chead)
      /\ Distance(cursor, chead) = D(cursor, chead)
      /\ Distance(c, head) = D(c, head)
      /\ Distance(cursor, c) = D(cursor, c)
      /\ Distance(tail, c) = D(tail, c)
  BY <1>1, DistanceCases
<1>4. n \in 0..Cap
  BY OrderFromConsumer, RangeFacts
<1>5. c = IF chead + n < CursorRange THEN chead + n ELSE chead + n - CursorRange
  BY <1>1, <1>4, WrappingAddCases
<1> QED
  BY <1>1, <1>2, <1>3, <1>4, <1>5, RangeFacts DEF CursorsInOrder, Cursors

\* Moving the producer's cursor by one when there is room behind head h.
LEMMA AdvanceProducer ==
  ASSUME TypeOK, CursorsInOrder, ~dropped,
         NEW h \in {cachedHead, head}, Distance(cursor, h) < Cap,
         NEW c \in Cursors, c = WrappingAdd(cursor, 1)
  PROVE  /\ Distance(tail, head) <= Distance(c, head)
         /\ Distance(c, head) <= Distance(c, h)
         /\ Distance(c, h) <= Cap
         /\ Distance(c, chead) = Distance(cursor, chead) + 1
         /\ Distance(c, tail) = Distance(cursor, tail) + 1
         /\ Distance(cursor, chead) < Cap
<1>1. /\ head \in Cursors /\ tail \in Cursors /\ cursor \in Cursors /\ h \in Cursors
      /\ cachedHead \in Cursors /\ chead \in Cursors /\ cachedTail \in Cursors
  BY DEF TypeOK
<1> DEFINE D(a, b) == IF b <= a THEN a - b ELSE a - b + CursorRange
<1>2. /\ Distance(chead, head) = D(chead, head)
      /\ Distance(cachedTail, head) = D(cachedTail, head)
      /\ Distance(tail, head) = D(tail, head)
      /\ Distance(cursor, head) = D(cursor, head)
      /\ Distance(cursor, cachedHead) = D(cursor, cachedHead)
  BY <1>1, DistanceCases
<1>3. /\ Distance(cursor, h) = D(cursor, h)
      /\ Distance(cursor, chead) = D(cursor, chead)
      /\ Distance(cursor, tail) = D(cursor, tail)
      /\ Distance(c, head) = D(c, head)
      /\ Distance(c, h) = D(c, h)
      /\ Distance(c, chead) = D(c, chead)
      /\ Distance(c, tail) = D(c, tail)
  BY <1>1, DistanceCases
<1>4. c = IF cursor + 1 < CursorRange THEN cursor + 1 ELSE cursor + 1 - CursorRange
  BY <1>1, WrappingAddCases, RangeFacts
<1> QED
  BY <1>1, <1>2, <1>3, <1>4, RangeFacts DEF CursorsInOrder, Cursors

\* Releasing, publishing and prefetching move one position up to the next one.
LEMMA MovesUp ==
  ASSUME TypeOK, CursorsInOrder, ~dropped
  PROVE  /\ Distance(chead, chead) = 0
         /\ Distance(cursor, chead) <= Distance(cursor, cachedHead)
         /\ Distance(cursor, head) <= Cap
         /\ Distance(cachedTail, chead) <= Distance(tail, chead)
         /\ Distance(tail, chead) <= Distance(cursor, chead)
         /\ Distance(chead, head) <= Distance(tail, head)
         /\ Distance(cachedTail, head) <= Distance(cursor, head)
<1>1. /\ head \in Cursors /\ tail \in Cursors /\ cursor \in Cursors
      /\ cachedHead \in Cursors /\ chead \in Cursors /\ cachedTail \in Cursors
  BY DEF TypeOK
<1>2. Distance(chead, chead) = 0
  BY <1>1, DistanceCases, RangeFacts DEF Cursors
<1>3. /\ Distance(chead, head) \in Int /\ Distance(cachedTail, head) \in Int
      /\ Distance(tail, head) \in Int /\ Distance(cursor, head) \in Int
      /\ Distance(cursor, cachedHead) \in Int
  BY <1>1, DistanceType
<1> QED
  BY <1>2, <1>3, OrderFromConsumer, RangeFacts DEF CursorsInOrder

\* Emptying the first n window slots and moving the head past them keeps slots
\* and cursors matched: a slot beyond the old window comes round as an emptied
\* one.
LEMMA MoveOutSlots ==
  ASSUME TypeOK, CursorsInOrder, SlotsMatchCursors, ~dropped,
         NEW n \in Nat, n <= Distance(cachedTail, chead),
         NEW b, NEW c \in Cursors, c = WrappingAdd(chead, n),
         \A j \in 0..(Cap - 1) :
           b[Index(WrappingAdd(chead, j))] =
             IF j < n THEN Uninit ELSE buf[Index(WrappingAdd(chead, j))]
  PROVE  \A k \in 0..(Cap - 1) :
           (b[Index(WrappingAdd(c, k))] # Uninit) <=> (k < Distance(cursor, c))
<1> SUFFICES ASSUME NEW k \in 0..(Cap - 1)
             PROVE  (b[Index(WrappingAdd(c, k))] # Uninit) <=> (k < Distance(cursor, c))
  OBVIOUS
<1>1. /\ chead \in Cursors /\ cursor \in Cursors /\ n \in 0..Cap
      /\ Distance(cursor, chead) \in 0..Cap /\ n <= Distance(cursor, chead)
  BY OrderFromConsumer, RangeFacts DEF TypeOK
<1>2. Distance(cursor, c) = Distance(cursor, chead) - n
  BY AdvanceConsumer
<1>3. Index(WrappingAdd(c, k)) = (chead + (n + k)) % Cap
  BY <1>1, IndexShift, RangeFacts
<1>4. CASE n + k < Cap
  <2>1. n + k \in 0..(Cap - 1)
    BY <1>4, <1>1, RangeFacts
  <2>2. Index(WrappingAdd(c, k)) = Index(WrappingAdd(chead, n + k))
    BY <1>1, <1>3, <2>1, IndexOfWrapped, RangeFacts
  <2>3. b[Index(WrappingAdd(c, k))] = buf[Index(WrappingAdd(chead, n + k))]
    BY <2>1, <2>2, RangeFacts
  <2> QED
    BY <2>1, <2>3, <1>1, <1>2, RangeFacts DEF SlotsMatchCursors
<1>5. CASE n + k >= Cap
  <2> DEFINE j == n + k - Cap
  <2>1. j \in 0..(Cap - 1) /\ j < n
    BY <1>5, <1>1, RangeFacts
  <2>2. (chead + (n + k)) % Cap = (chead + j) % Cap
    <3>1. chead + j \in Int /\ chead + (n + k) = (chead + j) + Cap
      BY <1>1, <2>1, RangeFacts DEF Cursors
    <3> QED
      BY <3>1, SlotPeriod
  <2>3. Index(WrappingAdd(c, k)) = Index(WrappingAdd(chead, j))
    BY <1>1, <1>3, <2>1, <2>2, IndexOfWrapped, RangeFacts
  <2>4. b[Index(WrappingAdd(c, k))] = Uninit
    BY <2>1, <2>3
  <2> QED
    BY <2>4, <1>1, <1>2, <1>5, RangeFacts
<1> QED
  BY <1>4, <1>5, <1>1, RangeFacts

\* Writing the producer's slot when it is free.
LEMMA WriteSlots ==
  ASSUME TypeOK, CursorsInOrder, SlotsMatchCursors, ~dropped,
         Distance(cursor, chead) < Cap,
         NEW v \in Values,
         NEW b, b = [buf EXCEPT ![Index(cursor)] = v],
         NEW c \in Cursors, Distance(c, chead) = Distance(cursor, chead) + 1
  PROVE  /\ \A k \in 0..(Cap - 1) :
              (b[Index(WrappingAdd(chead, k))] # Uninit) <=> (k < Distance(c, chead))
         /\ Index(cursor) = Index(WrappingAdd(chead, Distance(cursor, chead)))
         /\ \A k \in 0..(Cap - 1) :
              k # Distance(cursor, chead) =>
                b[Index(WrappingAdd(chead, k))] = buf[Index(WrappingAdd(chead, k))]
<1> DEFINE d == Distance(cursor, chead)
<1>1. chead \in Cursors /\ cursor \in Cursors /\ d \in 0..(Cap - 1)
  BY OrderFromConsumer, RangeFacts DEF TypeOK
<1>2. Index(cursor) = Index(WrappingAdd(chead, d))
  BY <1>1, AddDistance, RangeFacts
<1> HIDE DEF d
<1>3. ASSUME NEW k \in 0..(Cap - 1), k # d
      PROVE  Index(WrappingAdd(chead, k)) # Index(cursor)
  <2>1. chead \in Int
    BY <1>1, RangeFacts DEF Cursors
  <2>2. /\ Index(WrappingAdd(chead, k)) = (chead + k) % Cap
        /\ Index(WrappingAdd(chead, d)) = (chead + d) % Cap
    BY <1>1, IndexOfWrapped, RangeFacts
  <2> QED
    BY <1>1, <1>2, <1>3, <2>1, <2>2, SlotInjective, Zenon
<1>4. ASSUME NEW k \in 0..(Cap - 1)
      PROVE  /\ Index(WrappingAdd(chead, k)) \in Slots
             /\ b[Index(WrappingAdd(chead, k))] =
                  IF k = d THEN v ELSE buf[Index(WrappingAdd(chead, k))]
  <2>1. Index(WrappingAdd(chead, k)) \in Slots
    BY <1>1, SlotInRange, RangeFacts
  <2> QED
    BY <1>2, <1>3, <2>1 DEF TypeOK
<1>5. v # Uninit
  BY UninitAssumption
<1>6. ASSUME NEW k \in 0..(Cap - 1)
      PROVE  (b[Index(WrappingAdd(chead, k))] # Uninit) <=> (k < Distance(c, chead))
  BY <1>1, <1>4, <1>5, RangeFacts DEF SlotsMatchCursors, d
<1> QED
  BY <1>2, <1>4, <1>6 DEF d

\* What the consumer may read is a sequence of values.
LEMMA WindowType ==
  ASSUME TypeOK, CursorsInOrder, SlotsMatchCursors, ~dropped,
         NEW n \in Nat, n <= Distance(cursor, chead)
  PROVE  Window(chead, n) \in Seq(Values) /\ Len(Window(chead, n)) = n
<1>1. chead \in Cursors /\ Distance(cursor, chead) \in 0..Cap /\ n \in 0..Cap
  BY OrderFromConsumer, RangeFacts DEF TypeOK
<1>2. ASSUME NEW i \in 1..n
      PROVE  buf[Index(WrappingAdd(chead, i - 1))] \in Values
  <2>1. i - 1 \in 0..(Cap - 1) /\ i - 1 < Distance(cursor, chead)
    BY <1>1, RangeFacts
  <2>2. Index(WrappingAdd(chead, i - 1)) \in Slots
    BY <1>1, <2>1, SlotInRange
  <2>3. buf[Index(WrappingAdd(chead, i - 1))] # Uninit
    BY <2>1 DEF SlotsMatchCursors
  <2> QED
    BY <2>2, <2>3 DEF TypeOK
<1>3. Window(chead, n) \in [1..n -> Values]
  BY <1>2 DEF Window
<1> QED
  BY <1>3

\* The two contiguous copies of pop_into are the window in cursor order.
LEMMA SegmentsAreWindow ==
  ASSUME TypeOK, CursorsInOrder, SlotsMatchCursors, ~dropped,
         NEW n \in Nat, n <= Distance(cursor, chead)
  PROVE  MovedSegments(n) = Window(chead, n)
<1> DEFINE start == Index(chead)
           first == Least(n, Cap - start)
           one == [i \in 1..first |-> buf[start + i - 1]]
           two == [i \in 1..(n - first) |-> buf[i - 1]]
<1>1. chead \in Cursors /\ chead \in Int /\ n \in 0..Cap
  BY OrderFromConsumer, RangeFacts DEF TypeOK, Cursors
<1>2. start \in Int /\ 0 <= start /\ start < Cap
      /\ chead \div Cap \in Int /\ chead = Cap * (chead \div Cap) + start
  BY <1>1, RangeFacts, DivMod DEF Index
<1> HIDE DEF start
<1>3. first \in 0..n /\ first <= Cap - start /\ (first < n => first = Cap - start)
  BY <1>1, <1>2, RangeFacts DEF Least
<1> HIDE DEF first
<1>4. ASSUME NEW i \in 1..n
      PROVE  Index(WrappingAdd(chead, i - 1)) =
               IF i <= first THEN start + i - 1 ELSE i - first - 1
  <2> DEFINE q == chead \div Cap
  <2>1. Index(WrappingAdd(chead, i - 1)) = (chead + (i - 1)) % Cap
    BY <1>1, IndexOfWrapped
  <2>2. q \in Int /\ chead = Cap * q + start
    BY <1>2
  <2> HIDE DEF q
  <2>3. CASE i <= first
    <3>1. chead + (i - 1) = Cap * q + (start + i - 1)
      BY <1>1, <1>2, <2>2, RangeFacts
    <3>2. start + i - 1 \in Int /\ 0 <= start + i - 1 /\ start + i - 1 < Cap
      BY <1>2, <1>3, <2>3, RangeFacts
    <3> QED
      BY <2>1, <2>2, <2>3, <3>1, <3>2, RangeFacts, RemainderUnique, Zenon
  <2>4. CASE first < i
    <3>1. chead + (i - 1) = Cap * (q + 1) + (i - first - 1)
      BY <1>1, <1>2, <1>3, <2>2, <2>4, RangeFacts
    <3>2. i - first - 1 \in Int /\ 0 <= i - first - 1 /\ i - first - 1 < Cap
      BY <1>1, <1>2, <1>3, <2>4, RangeFacts
    <3>3. q + 1 \in Int
      BY <2>2
    <3>4. (chead + (i - 1)) % Cap = i - first - 1
      BY <3>1, <3>2, <3>3, RangeFacts, RemainderUnique
    <3> QED
      BY <2>1, <2>4, <3>4, <1>3
  <2> QED
    BY <2>3, <2>4, <1>3
<1>5. MovedSegments(n) = one \o two
  BY DEF MovedSegments, start, first
<1>6. Window(chead, n) \in Seq(Values) /\ Len(Window(chead, n)) = n
  BY WindowType
<1>7. ASSUME NEW i \in 1..n PROVE Window(chead, n)[i] \in Values
  BY <1>6
<1>8. one \in Seq(Values) /\ Len(one) = first
  <2>1. ASSUME NEW i \in 1..first PROVE buf[start + i - 1] \in Values
    BY <1>3, <1>4, <1>7 DEF Window
  <2>2. one \in [1..first -> Values]
    BY <2>1
  <2> QED
    BY <2>2, <1>3
<1>9. two \in Seq(Values) /\ Len(two) = n - first
  <2>1. ASSUME NEW i \in 1..(n - first) PROVE buf[i - 1] \in Values
    <3>1. first + i \in 1..n /\ ~(first + i <= first) /\ (first + i) - first - 1 = i - 1
      BY <1>3
    <3>2. Window(chead, n)[first + i] = buf[i - 1]
      BY <3>1, <1>4 DEF Window
    <3> QED
      BY <3>1, <3>2, <1>7
  <2>2. two \in [1..(n - first) -> Values]
    BY <2>1
  <2> QED
    BY <2>2, <1>3
<1>10. one \o two \in Seq(Values) /\ Len(one \o two) = n
  BY <1>8, <1>9, <1>3
<1>11. ASSUME NEW i \in 1..n PROVE (one \o two)[i] = Window(chead, n)[i]
  <2>1. CASE i <= first
    <3>1. (one \o two)[i] = one[i]
      BY <1>8, <1>9, <1>3, <2>1
    <3>2. i \in 1..first
      BY <1>3, <2>1
    <3> QED
      BY <3>1, <3>2, <1>4, <2>1, Zenon DEF Window
  <2>2. CASE first < i
    <3>1. (one \o two)[i] = two[i - first]
      BY <1>8, <1>9, <1>3, <2>2
    <3>2. i - first \in 1..(n - first) /\ ~(i <= first)
      BY <1>3, <2>2
    <3>3. two[i - first] = buf[i - first - 1]
      BY <3>2
    <3>4. Window(chead, n)[i] = buf[i - first - 1]
      BY <3>2, <1>4 DEF Window
    <3> QED
      BY <3>1, <3>3, <3>4, Zenon
  <2> QED
    BY <2>1, <2>2, <1>3
<1> HIDE DEF one, two
<1>12. one \o two = Window(chead, n)
  BY <1>6, <1>10, <1>11, SeqEqual
<1> QED
  BY <1>5, <1>12

\* Emptied, seen from the window it empties.
LEMMA EmptiedWindow ==
  ASSUME TypeOK, NEW c \in Cursors, NEW n \in 0..Cap
  PROVE  /\ Emptied(c, n) \in [Slots -> Values \union {Uninit}]
         /\ \A j \in 0..(Cap - 1) :
              Emptied(c, n)[Index(WrappingAdd(c, j))] =
                IF j < n THEN Uninit ELSE buf[Index(WrappingAdd(c, j))]
<1>1. Emptied(c, n) \in [Slots -> Values \union {Uninit}]
  BY DEF Emptied, TypeOK
<1>2. ASSUME NEW j \in 0..(Cap - 1)
      PROVE  Emptied(c, n)[Index(WrappingAdd(c, j))] =
               IF j < n THEN Uninit ELSE buf[Index(WrappingAdd(c, j))]
  <2>1. Index(WrappingAdd(c, j)) \in Slots
    BY SlotInRange, RangeFacts
  <2>2. ASSUME NEW i \in 0..(n - 1), Index(WrappingAdd(c, j)) = Index(WrappingAdd(c, i))
        PROVE  i = j
    <3>1. c \in Int /\ i \in 0..(Cap - 1)
      BY RangeFacts DEF Cursors
    <3>2. (c + i) % Cap = (c + j) % Cap
      BY <2>2, <3>1, IndexOfWrapped, RangeFacts
    <3> QED
      BY <3>1, <3>2, SlotInjective
  <2>3. CASE j < n
    <3>1. j \in 0..(n - 1)
      BY <2>3, RangeFacts
    <3> QED
      BY <3>1, <2>1, <2>3 DEF Emptied
  <2>4. CASE ~(j < n)
    <3>1. ~ \E i \in 0..(n - 1) : Index(WrappingAdd(c, j)) = Index(WrappingAdd(c, i))
      BY <2>2, <2>4, RangeFacts
    <3> QED
      BY <3>1, <2>1, <2>4 DEF Emptied
  <2> QED
    BY <2>3, <2>4
<1> QED
  BY <1>1, <1>2

\* The consumer's moves, one value or a batch: everything they may disturb.
LEMMA MoveOutInv ==
  ASSUME IInv, cons = "open", ~dropped,
         NEW n \in Nat, n <= Distance(cachedTail, chead),
         out' \in Seq(Values),
         buf' \in [Slots -> Values \union {Uninit}],
         \A j \in 0..(Cap - 1) :
           buf'[Index(WrappingAdd(chead, j))] =
             IF j < n THEN Uninit ELSE buf[Index(WrappingAdd(chead, j))],
         chead' = WrappingAdd(chead, n),
         UNCHANGED <<head, tail, cursor, cachedHead, prod, cachedTail, cons,
                     disconnected, dropped>>
  PROVE  IInv'
<1>1. TypeOK /\ CursorsInOrder /\ SlotsMatchCursors /\ HalvesHandOff
  BY DEF IInv
<1>2. chead \in Cursors /\ n \in 0..Cap
  BY <1>1, OrderFromConsumer, RangeFacts DEF TypeOK
<1>3. chead' \in Cursors
  BY <1>2, WrappingAddCases
<1>4. TypeOK'
  BY <1>1, <1>3 DEF TypeOK
<1>5. CursorsInOrder'
  BY <1>1, <1>3, AdvanceConsumer DEF CursorsInOrder
<1>6. SlotsMatchCursors'
  BY <1>1, <1>3, MoveOutSlots DEF SlotsMatchCursors
<1>7. HalvesHandOff'
  <2>1. disconnected => chead' = chead
    <3>1. SUFFICES ASSUME disconnected PROVE chead' = chead
      OBVIOUS
    <3>2. chead = tail
      BY <3>1, <1>1 DEF HalvesHandOff
    <3>3. Distance(tail, chead) = 0
      BY <3>2, <1>1, MovesUp
    <3>4. n = 0
      BY <3>3, <1>1, OrderFromConsumer, RangeFacts
    <3> QED
      BY <3>4, <1>2, WrappingAddCases, RangeFacts DEF Cursors
  <2> QED
    BY <2>1, <1>1 DEF HalvesHandOff
<1> QED
  BY <1>4, <1>5, <1>6, <1>7 DEF IInv

\* Every step keeps the invariant: one case per action.
LEMMA NextInv == IInv /\ [Next]_vars => IInv'
<1> SUFFICES ASSUME IInv, [Next]_vars PROVE IInv'
  OBVIOUS
<1>0. TypeOK /\ CursorsInOrder /\ SlotsMatchCursors /\ HalvesHandOff
  BY DEF IInv
<1>live. (prod # "closed" \/ cons # "closed") => ~dropped
  BY <1>0 DEF HalvesHandOff
<1>seq. /\ head \in Cursors /\ tail \in Cursors /\ cursor \in Cursors
        /\ cachedHead \in Cursors /\ chead \in Cursors /\ cachedTail \in Cursors
  BY <1>0 DEF TypeOK
<1>refreshed. RefreshedHead \in {cachedHead, head}
  BY DEF RefreshedHead
<1>1. ASSUME NEW v \in Values, Push(v) PROVE IInv'
  <2> USE DEF Push, WriteSlot, HasRoom, consVars
  <2>1. ~dropped /\ ~dropped'
    BY <1>1, <1>live
  <2>2. cursor' \in Cursors /\ cursor' = WrappingAdd(cursor, 1)
    BY <1>1, <1>seq, WrappingAddCases, RangeFacts
  <2>3. /\ Distance(tail, head) <= Distance(cursor', head)
        /\ Distance(cursor', head) <= Distance(cursor', cachedHead')
        /\ Distance(cursor', cachedHead') <= Cap
        /\ Distance(cursor', chead) = Distance(cursor, chead) + 1
        /\ Distance(cursor, chead) < Cap
    BY <1>1, <1>0, <1>refreshed, <2>1, <2>2, AdvanceProducer
  <2>4. Index(cursor) \in Slots
    BY <1>seq, DivMod, RangeFacts DEF Index, Slots, Cursors
  <2>5. TypeOK'
    BY <1>1, <1>0, <1>seq, <1>refreshed, <2>2, <2>4 DEF TypeOK
  <2>6. CursorsInOrder'
    BY <1>1, <1>0, <2>1, <2>3 DEF CursorsInOrder
  <2>7. SlotsMatchCursors'
    <3>1. buf' = [buf EXCEPT ![Index(cursor)] = v] /\ chead' = chead
      BY <1>1
    <3> HIDE DEF Push, WriteSlot, HasRoom, consVars
    <3>2. \A k \in 0..(Cap - 1) :
            (buf'[Index(WrappingAdd(chead, k))] # Uninit) <=> (k < Distance(cursor', chead))
      <4>1. /\ TypeOK /\ CursorsInOrder /\ SlotsMatchCursors /\ ~dropped
            /\ Distance(cursor, chead) < Cap
            /\ Distance(cursor', chead) = Distance(cursor, chead) + 1
            /\ cursor' \in Cursors /\ v \in Values
        BY <1>0, <2>1, <2>2, <2>3, <1>1
      <4>2. SUFFICES ASSUME NEW b, b = [buf EXCEPT ![Index(cursor)] = v],
                            NEW c \in Cursors, c = cursor'
                     PROVE  \A k \in 0..(Cap - 1) :
                              (b[Index(WrappingAdd(chead, k))] # Uninit)
                                <=> (k < Distance(c, chead))
        BY <3>1, <4>1, Zenon
      <4>3. Distance(c, chead) = Distance(cursor, chead) + 1
        BY <4>1, <4>2
      <4> QED
        BY <4>1, <4>2, <4>3, WriteSlots, Zenon
    <3> QED
      BY <3>1, <3>2 DEF SlotsMatchCursors, Index, WrappingAdd, Distance
  <2>8. HalvesHandOff'
    BY <1>1, <1>0, <2>1 DEF HalvesHandOff
  <2> QED
    BY <2>5, <2>6, <2>7, <2>8 DEF IInv
<1>2. ASSUME FindFull \/ FindRoom PROVE IInv'
  <2> USE DEF FindFull, FindRoom, consVars
  <2>1. ~dropped /\ cachedHead' \in {cachedHead, head}
    BY <1>2, <1>live, <1>refreshed
  <2>2. TypeOK'
    BY <1>2, <1>0, <1>seq, <2>1 DEF TypeOK
  <2>3. CursorsInOrder'
    <3>1. Distance(cursor, head) <= Cap
      BY <1>0, <2>1, MovesUp
    <3>2. Distance(cursor, head) \in Nat
      BY <1>seq, DistanceType
    <3> QED
      BY <1>2, <1>0, <2>1, <3>1, <3>2 DEF CursorsInOrder
  <2>4. SlotsMatchCursors' /\ HalvesHandOff'
    BY <1>2, <1>0, <2>1 DEF SlotsMatchCursors, HalvesHandOff
  <2> QED
    BY <2>2, <2>3, <2>4 DEF IInv
<1>3. ASSUME Flush \/ ProducerClose PROVE IInv'
  <2> USE DEF Flush, ProducerClose, prodVars, consVars
  <2>1. ~dropped
    BY <1>3, <1>live
  <2>2. TypeOK'
    BY <1>3, <1>0, <1>seq DEF TypeOK
  <2>3. CursorsInOrder'
    <3>1. Distance(cachedTail, head) <= Distance(cursor, head)
      BY <1>0, <2>1, MovesUp
    <3>2. Distance(cursor, head) \in Nat
      BY <1>seq, DistanceType
    <3> QED
      BY <1>3, <1>0, <2>1, <3>1, <3>2 DEF CursorsInOrder
  <2>4. ~disconnected
    BY <1>3, <1>0 DEF HalvesHandOff
  <2>5. cons # "checking"
    BY <1>3, <1>0 DEF HalvesHandOff
  <2>6. SlotsMatchCursors' /\ HalvesHandOff'
    BY <1>3, <1>0, <2>1, <2>4, <2>5 DEF SlotsMatchCursors, HalvesHandOff
  <2> QED
    BY <2>2, <2>3, <2>6 DEF IInv
<1>4. ASSUME ProducerDropped PROVE IInv'
  BY <1>4, <1>0, <1>live
  DEF ProducerDropped, consVars, IInv, TypeOK, CursorsInOrder, SlotsMatchCursors, HalvesHandOff
<1>5. ASSUME Prefetch PROVE IInv'
  <2> USE DEF Prefetch, prodVars
  <2>1. ~dropped
    BY <1>5, <1>live
  <2>2. TypeOK'
    BY <1>5, <1>0, <1>seq DEF TypeOK
  <2>3. CursorsInOrder'
    <3>1. Distance(chead, head) <= Distance(tail, head)
      BY <1>0, <2>1, MovesUp
    <3>2. Distance(tail, head) \in Nat
      BY <1>seq, DistanceType
    <3> QED
      BY <1>5, <1>0, <2>1, <3>1, <3>2 DEF CursorsInOrder
  <2>4. SlotsMatchCursors' /\ HalvesHandOff'
    BY <1>5, <1>0, <2>1 DEF SlotsMatchCursors, HalvesHandOff
  <2> QED
    BY <2>2, <2>3, <2>4 DEF IInv
<1>6. ASSUME Pop PROVE IInv'
  <2> USE DEF Pop, prodVars
  <2>1. ~dropped
    BY <1>6, <1>live
  <2>2. 1 <= Distance(cachedTail, chead)
    BY <1>6, <1>seq, DistanceCases, RangeFacts DEF Cursors
  <2>4. Index(WrappingAdd(chead, 0)) = Index(chead) /\ Index(chead) \in Slots
    BY <1>seq, WrappingAddCases, SlotInRange, RangeFacts DEF Cursors
  <2>5. buf[Index(chead)] \in Values
    <3>1. 0 \in 0..(Cap - 1) /\ 0 < Distance(cursor, chead)
      BY <2>1, <2>2, <1>0, OrderFromConsumer, RangeFacts
    <3>2. buf[Index(WrappingAdd(chead, 0))] # Uninit
      BY <1>0, <2>1, <3>1 DEF SlotsMatchCursors
    <3> QED
      BY <3>2, <2>4, <1>0 DEF TypeOK
  <2>6. out' \in Seq(Values)
    BY <1>6, <2>5
  <2>7. buf' \in [Slots -> Values \union {Uninit}]
    BY <1>6, <1>0, <2>4 DEF TypeOK
  <2>8. ASSUME NEW j \in 0..(Cap - 1)
        PROVE  buf'[Index(WrappingAdd(chead, j))] =
                 IF j < 1 THEN Uninit ELSE buf[Index(WrappingAdd(chead, j))]
    <3>1. Index(WrappingAdd(chead, j)) \in Slots
      BY <1>seq, SlotInRange
    <3>2. CASE j = 0
      BY <3>2, <2>4, <1>6, <1>0 DEF TypeOK
    <3>3. CASE j # 0
      <4>1. /\ Index(WrappingAdd(chead, j)) = (chead + j) % Cap
            /\ Index(WrappingAdd(chead, 0)) = (chead + 0) % Cap
        BY <1>seq, IndexOfWrapped, RangeFacts
      <4>2. chead \in Int /\ 0 \in 0..(Cap - 1)
        BY <1>seq, RangeFacts DEF Cursors
      <4>3. Index(WrappingAdd(chead, j)) # Index(chead)
        BY <4>1, <4>2, <3>3, <2>4, SlotInjective, Zenon
      <4> QED
        BY <4>3, <3>1, <3>3, <1>6, <1>0, RangeFacts DEF TypeOK
    <3> QED
      BY <3>2, <3>3
  <2> QED
    BY <1>6, <2>1, <2>2, <2>6, <2>7, <2>8, MoveOutInv
<1>7. ASSUME cons = "open", NEW n \in Nat, n <= Distance(cachedTail, chead), MoveOut(n)
      PROVE  IInv'
  <2> USE DEF MoveOut, prodVars
  <2>1. ~dropped
    BY <1>7, <1>live
  <2>2. n <= Distance(cursor, chead) /\ n \in 0..Cap
    BY <1>7, <2>1, <1>0, OrderFromConsumer, RangeFacts
  <2>3. out' \in Seq(Values)
    BY <1>7, <1>0, <2>1, <2>2, SegmentsAreWindow, WindowType
  <2> QED
    BY <1>7, <1>0, <1>seq, <2>1, <2>2, <2>3, EmptiedWindow, MoveOutInv
<1>window. ASSUME NEW limit \in 0..Cap
           PROVE  /\ Least(Distance(cachedTail, chead), limit) \in Nat
                  /\ Least(Distance(cachedTail, chead), limit) <= Distance(cachedTail, chead)
  BY <1>seq, DistanceType, RangeFacts DEF Least
<1>8. ASSUME NEW limit \in 0..Cap, PopInto(limit) PROVE IInv'
  BY <1>8, <1>7, <1>window DEF PopInto
<1>9. ASSUME NEW limit \in 0..Cap, NEW admitted \in SUBSET Values,
             PopIntoWhile(limit, admitted)
      PROVE  IInv'
  <2> DEFINE window == Least(Distance(cachedTail, chead), limit)
  <2>1. PICK accepted \in 0..window : MoveOut(accepted)
    BY <1>9 DEF PopIntoWhile
  <2>2. window \in Nat /\ window <= Distance(cachedTail, chead)
    BY <1>window
  <2>3. Distance(cachedTail, chead) \in Nat
    BY <1>seq, DistanceType
  <2> HIDE DEF window
  <2>4. accepted \in Nat /\ accepted <= Distance(cachedTail, chead)
    BY <2>1, <2>2, <2>3
  <2>5. cons = "open"
    BY <1>9 DEF PopIntoWhile
  <2> QED
    BY <2>1, <2>4, <2>5, <1>7
<1>10. ASSUME Release \/ ConsumerClose PROVE IInv'
  <2> USE DEF Release, ConsumerClose, prodVars, consVars
  <2>1. ~dropped
    BY <1>10, <1>live
  <2>2. TypeOK'
    BY <1>10, <1>0, <1>seq DEF TypeOK
  <2>3. CursorsInOrder'
    <3>1. /\ Distance(chead, chead) = 0
          /\ Distance(cursor, chead) <= Distance(cursor, cachedHead)
          /\ Distance(cachedTail, chead) <= Distance(tail, chead)
          /\ Distance(tail, chead) <= Distance(cursor, chead)
      BY <1>0, <2>1, MovesUp
    <3>2. Distance(cachedTail, chead) \in Nat
      BY <1>seq, DistanceType
    <3> QED
      BY <1>10, <1>0, <2>1, <3>1, <3>2 DEF CursorsInOrder
  <2>4. SlotsMatchCursors' /\ HalvesHandOff'
    BY <1>10, <1>0, <2>1 DEF SlotsMatchCursors, HalvesHandOff
  <2> QED
    BY <2>2, <2>3, <2>4 DEF IInv
<1>11. ASSUME CheckDropped PROVE IInv'
  BY <1>11, <1>0, <1>live
  DEF CheckDropped, prodVars, IInv, TypeOK, CursorsInOrder, SlotsMatchCursors, HalvesHandOff
<1>15. ASSUME CheckTail PROVE IInv'
  <2> USE DEF CheckTail, prodVars
  <2>1. disconnected' \in BOOLEAN /\ (disconnected' => chead = tail)
    BY <1>15, Zenon
  <2>2. TypeOK'
    BY <1>15, <1>0, <2>1, Zenon DEF TypeOK
  <2>3. CursorsInOrder' /\ SlotsMatchCursors'
    BY <1>15, <1>0, Zenon DEF CursorsInOrder, SlotsMatchCursors
  <2>4. HalvesHandOff'
    <3>1. prod' = "closed"
      BY <1>15, <1>0 DEF HalvesHandOff
    <3>2. cons' = "open" /\ ~dropped'
      BY <1>15, <1>live
    <3> QED
      BY <1>15, <1>0, <2>1, <3>1, <3>2, Zenon DEF HalvesHandOff
  <2> QED
    BY <2>2, <2>3, <2>4 DEF IInv
<1>12. ASSUME ConsumerDropped PROVE IInv'
  BY <1>12, <1>0, <1>live
  DEF ConsumerDropped, prodVars, IInv, TypeOK, CursorsInOrder, SlotsMatchCursors, HalvesHandOff
<1>13. ASSUME RingDrop PROVE IInv'
  <2> USE DEF RingDrop, prodVars, consVars
  <2>1. ~dropped /\ head = chead /\ tail = cursor
    BY <1>13, <1>0 DEF HalvesHandOff
  <2> DEFINE n == Distance(tail, head)
  <2>2. n \in 0..Cap /\ n = Distance(cursor, chead)
    BY <2>1, <1>0, OrderFromConsumer
  <2> HIDE DEF n
  <2>3. /\ Emptied(head, n) \in [Slots -> Values \union {Uninit}]
        /\ \A j \in 0..(Cap - 1) :
             Emptied(head, n)[Index(WrappingAdd(head, j))] =
               IF j < n THEN Uninit ELSE buf[Index(WrappingAdd(head, j))]
    BY <1>0, <1>seq, <2>2, EmptiedWindow
  <2>4. ASSUME NEW s \in Slots PROVE buf'[s] = Uninit
    <3>1. head \in Int
      BY <1>seq, RangeFacts DEF Cursors
    <3>2. PICK j \in 0..(Cap - 1) : s = (head + j) % Cap
      BY <3>1, SlotOnto
    <3>3. s = Index(WrappingAdd(head, j))
      BY <3>2, <1>seq, IndexOfWrapped, RangeFacts
    <3>4. ~(j < n) => buf[s] = Uninit
      BY <3>3, <2>1, <2>2, <1>0 DEF SlotsMatchCursors
    <3> QED
      BY <3>3, <3>4, <2>3, <1>13 DEF n
  <2>5. TypeOK'
    BY <1>13, <1>0, <1>seq, <2>3 DEF TypeOK, n
  <2>6. HalvesHandOff'
    BY <1>13, <1>0, <2>1, <2>4 DEF HalvesHandOff
  <2>7. CursorsInOrder' /\ SlotsMatchCursors'
    BY <1>13 DEF CursorsInOrder, SlotsMatchCursors
  <2> QED
    BY <2>5, <2>6, <2>7 DEF IInv
<1>14. ASSUME UNCHANGED vars PROVE IInv'
  BY <1>14, <1>0 DEF vars, IInv, TypeOK, CursorsInOrder, SlotsMatchCursors, HalvesHandOff
<1> QED
  BY <1>1, <1>2, <1>3, <1>4, <1>5, <1>6, <1>8, <1>9, <1>10, <1>11, <1>12, <1>13, <1>14, <1>15
  DEF Next, ProducerStep, ConsumerStep

-----------------------------------------------------------------------------
(* The theorems. *)

\* The inductive invariant holds in every reachable state.
THEOREM Invariance == Spec => []IInv
BY InitInv, NextInv, PTL DEF Spec

\* Types, and with them that no receive returns the content of an empty slot.
THEOREM TypeCorrect == Spec => []TypeOK
<1>1. IInv => TypeOK
  BY DEF IInv
<1> QED
  BY <1>1, Invariance, PTL

\* Across any number of wraps of the usize cursors the six positions keep the
\* order that the unsafe slot accesses of ring.rs rely on.
THEOREM CursorOrder == Spec => []CursorsInOrder
<1>1. IInv => CursorsInOrder
  BY DEF IInv
<1> QED
  BY <1>1, Invariance, PTL

\* A slot is initialised exactly when it lies between the two private cursors.
THEOREM SlotInitialisation == Spec => []SlotsMatchCursors
<1>1. IInv => SlotsMatchCursors
  BY DEF IInv
<1> QED
  BY <1>1, Invariance, PTL

\* is_disconnected returns true only after the last pushed value was received.
THEOREM DisconnectIsLast == Spec => []DisconnectedAfterLastValue
<1>1. IInv => DisconnectedAfterLastValue
  <2> SUFFICES ASSUME IInv, disconnected PROVE chead = cursor
    BY DEF DisconnectedAfterLastValue
  <2>1. HalvesHandOff
    BY DEF IInv
  <2>2. prod = "closed" /\ chead = tail
    BY <2>1 DEF HalvesHandOff
  <2> QED
    BY <2>1, <2>2 DEF HalvesHandOff
<1> QED
  BY <1>1, Invariance, PTL

\* The last half to go destroys every remaining value and touches no other slot.
THEOREM DropIsExact == Spec => []DropDestroysExactlyTheRest
<1>1. IInv => DropDestroysExactlyTheRest
  <2> SUFFICES ASSUME IInv PROVE DropDestroysExactlyTheRest
    OBVIOUS
  <2>0. TypeOK /\ CursorsInOrder /\ SlotsMatchCursors /\ HalvesHandOff
    BY DEF IInv
  <2>1. dropped => \A s \in Slots : buf[s] = Uninit
    BY <2>0 DEF HalvesHandOff
  <2>2. ASSUME prod = "closed", cons = "closed", ~dropped, NEW s \in Slots
        PROVE  (buf[s] # Uninit) <=>
                 \E i \in 0..(Distance(tail, head) - 1) : s = Index(WrappingAdd(head, i))
    <3>1. head = chead /\ tail = cursor
      BY <2>0, <2>2 DEF HalvesHandOff
    <3>2. Distance(tail, head) \in 0..Cap /\ Distance(tail, head) = Distance(cursor, chead)
      BY <2>0, <2>2, <3>1, OrderFromConsumer
    <3>3. head \in Cursors /\ head \in Int
      BY <2>0, RangeFacts DEF TypeOK, Cursors
    <3>4. PICK k \in 0..(Cap - 1) : s = (head + k) % Cap
      BY <3>3, SlotOnto, Zenon
    <3>5. s = Index(WrappingAdd(head, k))
      BY <3>3, <3>4, IndexOfWrapped, RangeFacts
    <3>6. (buf[s] # Uninit) <=> (k < Distance(tail, head))
      BY <2>0, <2>2, <3>1, <3>5 DEF SlotsMatchCursors
    <3>7. ASSUME NEW i \in 0..(Distance(tail, head) - 1), s = Index(WrappingAdd(head, i))
          PROVE  i = k
      <4>1. i \in 0..(Cap - 1)
        BY <3>2, RangeFacts
      <4>2. (head + i) % Cap = (head + k) % Cap
        BY <3>3, <3>4, <3>7, <4>1, IndexOfWrapped, RangeFacts
      <4> QED
        BY <3>3, <4>1, <4>2, SlotInjective
    <3> QED
      BY <3>2, <3>5, <3>6, <3>7
  <2> QED
    BY <2>1, <2>2 DEF DropDestroysExactlyTheRest
<1> QED
  BY <1>1, Invariance, PTL

-----------------------------------------------------------------------------
(* The ring implements the abstract bounded FIFO of YFifo, for every       *)
(* capacity, cursor width and value set.                                   *)

\* A sequence made of the elements of s followed by those of t.
LEMMA Glued ==
  ASSUME NEW S, NEW s \in Seq(S), NEW t \in Seq(S), NEW w \in Seq(S),
         Len(w) = Len(s) + Len(t),
         \A i \in 1..Len(s) : w[i] = s[i],
         \A i \in 1..Len(t) : w[Len(s) + i] = t[i]
  PROVE  w = s \o t
<1>1. /\ s \o t \in Seq(S) /\ Len(s \o t) = Len(s) + Len(t)
      /\ Len(s) \in Nat /\ Len(t) \in Nat
      /\ \A i \in 1..Len(s) + Len(t) :
           (s \o t)[i] = IF i <= Len(s) THEN s[i] ELSE t[i - Len(s)]
  BY ConcatProperties, LenProperties
<1>2. ASSUME NEW i \in 1..Len(w) PROVE w[i] = (s \o t)[i]
  <2>1. CASE i <= Len(s)
    BY <1>1, <2>1
  <2>2. CASE ~(i <= Len(s))
    <3>1. i - Len(s) \in 1..Len(t) /\ Len(s) + (i - Len(s)) = i
      BY <1>1, <2>2
    <3>2. w[i] = t[i - Len(s)]
      BY <3>1
    <3> QED
      BY <1>1, <2>2, <3>2
  <2> QED
    BY <2>1, <2>2
<1> QED
  BY <1>1, <1>2, SeqEqual

\* The first n elements of s.
LEMMA CutFront ==
  ASSUME NEW S, NEW s \in Seq(S), NEW w \in Seq(S), NEW n \in 0..Len(s),
         Len(w) = n,
         \A i \in 1..n : w[i] = s[i]
  PROVE  w = SubSeq(s, 1, n)
<1>1. Len(s) \in Nat /\ \A i \in 1..n : s[i] \in S
  BY LenProperties, ElementOfSeq
<1>2. /\ SubSeq(s, 1, n) \in Seq(S) /\ Len(SubSeq(s, 1, n)) = n
      /\ \A i \in 1..n : SubSeq(s, 1, n)[i] = s[1 + i - 1]
  BY <1>1, SubSeqProperties
<1>3. ASSUME NEW i \in 1..n PROVE w[i] = SubSeq(s, 1, n)[i]
  <2>1. 1 + i - 1 = i
    OBVIOUS
  <2> QED
    BY <1>2, <2>1
<1> QED
  BY <1>2, <1>3, SeqEqual

\* What is left of s after its first n elements.
LEMMA CutBack ==
  ASSUME NEW S, NEW s \in Seq(S), NEW w \in Seq(S), NEW n \in 0..Len(s),
         Len(w) = Len(s) - n,
         \A i \in 1..(Len(s) - n) : w[i] = s[n + i]
  PROVE  w = SubSeq(s, n + 1, Len(s))
<1> DEFINE m == Len(s)
<1>1. m \in Nat /\ \A i \in (n + 1)..m : s[i] \in S
  BY LenProperties, ElementOfSeq
<1> HIDE DEF m
<1>2. /\ SubSeq(s, n + 1, m) \in Seq(S)
      /\ Len(SubSeq(s, n + 1, m)) = IF n + 1 <= m THEN m - (n + 1) + 1 ELSE 0
      /\ \A i \in 1..(m - (n + 1) + 1) : SubSeq(s, n + 1, m)[i] = s[(n + 1) + i - 1]
  BY <1>1, SubSeqProperties
<1>3. m - (n + 1) + 1 = m - n /\ (IF n + 1 <= m THEN m - (n + 1) + 1 ELSE 0) = m - n
  BY <1>1 DEF m
<1>4. ASSUME NEW i \in 1..(m - n) PROVE w[i] = SubSeq(s, n + 1, m)[i]
  <2>1. (n + 1) + i - 1 = n + i
    BY <1>1
  <2> QED
    BY <1>2, <1>3, <2>1 DEF m
<1> QED
  BY <1>2, <1>3, <1>4, SeqEqual DEF m

\* A live ring seen as two adjacent windows that together start at the
\* consumer's head: the published values, then the pushed ones.
QueueFacts ==
  LET dt == Distance(tail, chead)
      dp == Distance(cursor, tail)
      slot(k) == Index(WrappingAdd(chead, k))
  IN /\ VisibleQueue \in Seq(Values) /\ Len(VisibleQueue) = dt
     /\ \A i \in 1..dt : VisibleQueue[i] = buf[slot(i - 1)]
     /\ PendingQueue \in Seq(Values) /\ Len(PendingQueue) = dp
     /\ \A i \in 1..dp : PendingQueue[i] = buf[slot(dt + i - 1)]

\* In a live ring both queues of the refinement mapping are sequences of
\* values, read from consecutive slots counted from the consumer's head.
LEMMA Queues == IInv /\ ~dropped => QueueFacts
<1> SUFFICES ASSUME IInv, ~dropped PROVE QueueFacts
  OBVIOUS
<1>0. TypeOK /\ CursorsInOrder /\ SlotsMatchCursors
  BY DEF IInv
<1> DEFINE dt == Distance(tail, chead)
           dp == Distance(cursor, tail)
           d == Distance(cursor, chead)
<1>1. /\ dt \in 0..Cap /\ d \in 0..Cap /\ dp \in Nat /\ d = dp + dt
      /\ chead \in Cursors /\ tail \in Cursors /\ cursor \in Cursors
  BY <1>0, OrderFromConsumer, DistanceType, Zenon DEF TypeOK
<1>2. tail = WrappingAdd(chead, dt)
  BY <1>1, AddDistance, RangeFacts
<1> HIDE DEF dt, dp, d
<1>3. VisibleQueue = Window(chead, dt)
  BY DEF VisibleQueue, dt
<1>4. VisibleQueue \in Seq(Values) /\ Len(VisibleQueue) = dt
  <2>1. dt \in Nat /\ dt <= d
    BY <1>1, RangeFacts
  <2> QED
    BY <1>0, <1>3, <2>1, WindowType DEF d
<1>5. \A i \in 1..dt : VisibleQueue[i] = buf[Index(WrappingAdd(chead, i - 1))]
  BY <1>3 DEF Window
<1>6. ASSUME NEW i \in 1..dp
      PROVE  Index(WrappingAdd(tail, i - 1)) = Index(WrappingAdd(chead, dt + i - 1))
  <2>1. i - 1 \in 0..(Cap - 1) /\ dt + i - 1 \in Nat /\ dt + (i - 1) = dt + i - 1
    BY <1>1, RangeFacts
  <2>2. Index(WrappingAdd(tail, i - 1)) = (chead + (dt + (i - 1))) % Cap
    BY <1>1, <1>2, <2>1, IndexShift
  <2> QED
    BY <1>1, <2>1, <2>2, IndexOfWrapped
<1>7. ASSUME NEW i \in 1..dp
      PROVE  buf[Index(WrappingAdd(chead, dt + i - 1))] \in Values
  <2>1. dt + i - 1 \in 0..(Cap - 1) /\ dt + i - 1 < d
    BY <1>1, RangeFacts
  <2>2. Index(WrappingAdd(chead, dt + i - 1)) \in Slots
    BY <1>1, <2>1, SlotInRange
  <2>3. buf[Index(WrappingAdd(chead, dt + i - 1))] # Uninit
    BY <1>0, <2>1 DEF SlotsMatchCursors, d
  <2> QED
    BY <1>0, <2>2, <2>3 DEF TypeOK
<1>8. PendingQueue = [i \in 1..dp |-> buf[Index(WrappingAdd(tail, i - 1))]]
  BY DEF PendingQueue, Window, dp
<1>9. PendingQueue \in [1..dp -> Values]
  BY <1>6, <1>7, <1>8
<1>10. PendingQueue \in Seq(Values) /\ Len(PendingQueue) = dp
  BY <1>9, <1>1
<1> QED
  BY <1>4, <1>5, <1>6, <1>8, <1>10, Zenon DEF dt, dp, QueueFacts

\* A push appends to the pending values and leaves the published ones alone.
LEMMA PushAppends ==
  ASSUME IInv, IInv', NEW v \in Values, Push(v)
  PROVE  /\ PendingQueue' = Append(PendingQueue, v)
         /\ VisibleQueue' = VisibleQueue
         /\ Len(PendingQueue) + Len(VisibleQueue) < Cap
<1> USE DEF Push, WriteSlot, HasRoom, consVars
<1>0. TypeOK /\ CursorsInOrder /\ SlotsMatchCursors /\ HalvesHandOff
  BY DEF IInv
<1>1. ~dropped /\ ~dropped'
  BY <1>0 DEF HalvesHandOff
<1> DEFINE dt == Distance(tail, chead)
           dp == Distance(cursor, tail)
           d == Distance(cursor, chead)
<1>2. /\ dt \in 0..Cap /\ d \in 0..Cap /\ dp \in Nat /\ d = dp + dt
      /\ chead \in Cursors /\ tail \in Cursors /\ cursor \in Cursors /\ cursor' \in Cursors
  BY <1>0, <1>1, OrderFromConsumer, DistanceType, Zenon DEF TypeOK, IInv
<1>3. /\ Distance(cursor', chead) = d + 1
      /\ Distance(cursor', tail) = dp + 1
      /\ d < Cap
  <2>1. RefreshedHead \in {cachedHead, head}
    BY DEF RefreshedHead
  <2> QED
    BY <1>0, <1>1, <1>2, <2>1, AdvanceProducer
<1>4. /\ Index(cursor) = Index(WrappingAdd(chead, d))
      /\ \A k \in 0..(Cap - 1) :
           k # d => buf'[Index(WrappingAdd(chead, k))] = buf[Index(WrappingAdd(chead, k))]
  BY <1>0, <1>1, <1>2, <1>3, WriteSlots
<1>5. buf'[Index(WrappingAdd(chead, d))] = v
  <2>1. Index(WrappingAdd(chead, d)) \in Slots
    BY <1>2, SlotInRange
  <2> QED
    BY <1>0, <1>4, <2>1 DEF TypeOK
<1>6. /\ VisibleQueue \in Seq(Values) /\ Len(VisibleQueue) = dt
      /\ \A i \in 1..dt : VisibleQueue[i] = buf[Index(WrappingAdd(chead, i - 1))]
      /\ PendingQueue \in Seq(Values) /\ Len(PendingQueue) = dp
      /\ \A i \in 1..dp : PendingQueue[i] = buf[Index(WrappingAdd(chead, dt + i - 1))]
  BY <1>1, Queues DEF QueueFacts
<1>7. /\ VisibleQueue' \in Seq(Values) /\ Len(VisibleQueue') = dt
      /\ \A i \in 1..dt : VisibleQueue'[i] = buf'[Index(WrappingAdd(chead, i - 1))]
      /\ PendingQueue' \in Seq(Values) /\ Len(PendingQueue') = dp + 1
      /\ \A i \in 1..(dp + 1) : PendingQueue'[i] = buf'[Index(WrappingAdd(chead, dt + i - 1))]
  <2>1. chead' = chead /\ tail' = tail
    OBVIOUS
  <2>2. QueueFacts'
    BY <1>1, Queues, PTL
  <2> QED
    BY <1>3, <2>1, <2>2 DEF QueueFacts
<1> HIDE DEF dt, dp, d
<1>8. VisibleQueue' = VisibleQueue
  <2>1. \A i \in 1..dt : VisibleQueue'[i] = VisibleQueue[i]
    <3> TAKE i \in 1..dt
    <3>1. i - 1 \in 0..(Cap - 1) /\ i - 1 # d
      BY <1>2, <1>3, RangeFacts
    <3> QED
      BY <1>4, <1>6, <1>7, <3>1
  <2> QED
    BY <1>2, <1>6, <1>7, <2>1, SeqEqual
<1>9. PendingQueue' = Append(PendingQueue, v)
  <2>1. Append(PendingQueue, v) \in Seq(Values) /\ Len(Append(PendingQueue, v)) = dp + 1
    BY <1>6
  <2>2. ASSUME NEW i \in 1..(dp + 1)
        PROVE  PendingQueue'[i] = Append(PendingQueue, v)[i]
    <3>1. CASE i = dp + 1
      <4>1. dt + i - 1 = d
        BY <1>2, <3>1
      <4>2. Append(PendingQueue, v)[i] = v
        BY <1>6, <1>2, <3>1
      <4> QED
        BY <1>5, <1>7, <4>1, <4>2
    <3>2. CASE i # dp + 1
      <4>1. i \in 1..dp /\ dt + i - 1 \in 0..(Cap - 1) /\ dt + i - 1 # d
        BY <1>2, <1>3, <3>2, RangeFacts
      <4>2. Append(PendingQueue, v)[i] = PendingQueue[i]
        BY <1>6, <4>1
      <4> QED
        BY <1>4, <1>6, <1>7, <4>1, <4>2, Zenon
    <3> QED
      BY <3>1, <3>2, Zenon
  <2> QED
    BY <1>2, <1>6, <1>7, <2>1, <2>2, SeqEqual
<1> QED
  BY <1>2, <1>3, <1>6, <1>8, <1>9

\* A flush, or the flush a close begins with, publishes everything pending.
LEMMA FlushPublishes ==
  ASSUME IInv, IInv', ~dropped, ~dropped', tail' = cursor,
         UNCHANGED <<buf, cursor, chead>>
  PROVE  VisibleQueue' = VisibleQueue \o PendingQueue /\ PendingQueue' = <<>>
<1>0. TypeOK /\ CursorsInOrder
  BY DEF IInv
<1> DEFINE dt == Distance(tail, chead)
           dp == Distance(cursor, tail)
           d == Distance(cursor, chead)
<1>1. /\ dt \in Nat /\ d \in Nat /\ dp \in Nat /\ d = dp + dt
      /\ Distance(cursor, cursor) = 0
  <2>1. cursor \in Cursors /\ tail \in Cursors
    BY <1>0 DEF TypeOK
  <2>2. Distance(cursor, cursor) = 0
    BY <2>1, DistanceCases, RangeFacts DEF Cursors
  <2> QED
    BY <1>0, <2>1, <2>2, OrderFromConsumer, DistanceType
<1>2. QueueFacts /\ QueueFacts'
  BY Queues, PTL
<1>3. /\ VisibleQueue' \in Seq(Values) /\ Len(VisibleQueue') = d
      /\ \A i \in 1..d : VisibleQueue'[i] = buf[Index(WrappingAdd(chead, i - 1))]
      /\ PendingQueue' \in Seq(Values) /\ Len(PendingQueue') = 0
  BY <1>1, <1>2 DEF QueueFacts
<1>4. /\ VisibleQueue \in Seq(Values) /\ Len(VisibleQueue) = dt
      /\ \A i \in 1..dt : VisibleQueue[i] = buf[Index(WrappingAdd(chead, i - 1))]
      /\ PendingQueue \in Seq(Values) /\ Len(PendingQueue) = dp
      /\ \A i \in 1..dp : PendingQueue[i] = buf[Index(WrappingAdd(chead, dt + i - 1))]
  BY <1>2 DEF QueueFacts
<1> HIDE DEF dt, dp, d
<1>5. \A i \in 1..dt : VisibleQueue'[i] = VisibleQueue[i]
  <2> TAKE i \in 1..dt
  <2>1. i \in 1..d
    BY <1>1
  <2> QED
    BY <1>3, <1>4, <2>1
<1>6. \A i \in 1..dp : VisibleQueue'[dt + i] = PendingQueue[i]
  <2> TAKE i \in 1..dp
  <2> DEFINE j == dt + i
  <2>1. j \in 1..d
    BY <1>1
  <2>2. PendingQueue[i] = buf[Index(WrappingAdd(chead, j - 1))]
    BY <1>4
  <2> HIDE DEF j
  <2>3. VisibleQueue'[j] = buf[Index(WrappingAdd(chead, j - 1))]
    BY <1>3, <2>1
  <2> USE DEF j
  <2> QED
    BY <2>2, <2>3
<1>7. PendingQueue' = <<>>
  BY <1>3, EmptySeq
<1>8. VisibleQueue' = VisibleQueue \o PendingQueue
  <2>1. /\ Len(VisibleQueue') = Len(VisibleQueue) + Len(PendingQueue)
        /\ \A i \in 1..Len(VisibleQueue) : VisibleQueue'[i] = VisibleQueue[i]
        /\ \A i \in 1..Len(PendingQueue) :
             VisibleQueue'[Len(VisibleQueue) + i] = PendingQueue[i]
    BY <1>1, <1>3, <1>4, <1>5, <1>6
  <2>2. /\ VisibleQueue \in Seq(Values) /\ PendingQueue \in Seq(Values)
        /\ VisibleQueue' \in Seq(Values)
    BY <1>3, <1>4
  <2> QED
    BY <2>1, <2>2, Glued
<1> QED
  BY <1>7, <1>8

\* Moving n values out takes the first n published ones, in order.
LEMMA MoveTakes ==
  ASSUME IInv, IInv', ~dropped, ~dropped',
         NEW n \in Nat, n <= Distance(cachedTail, chead),
         out' = Window(chead, n),
         chead' = WrappingAdd(chead, n),
         \A j \in 0..(Cap - 1) :
           buf'[Index(WrappingAdd(chead, j))] =
             IF j < n THEN Uninit ELSE buf[Index(WrappingAdd(chead, j))],
         UNCHANGED <<tail, cursor>>
  PROVE  /\ n \in 0..Len(VisibleQueue)
         /\ out' = SubSeq(VisibleQueue, 1, n)
         /\ VisibleQueue' = SubSeq(VisibleQueue, n + 1, Len(VisibleQueue))
         /\ PendingQueue' = PendingQueue
<1>0. TypeOK /\ CursorsInOrder /\ SlotsMatchCursors
  BY DEF IInv
<1> DEFINE dt == Distance(tail, chead)
           dp == Distance(cursor, tail)
           slot(k) == Index(WrappingAdd(chead, k))
<1>1. /\ dt \in 0..Cap /\ dp \in Nat /\ dp + dt \in 0..Cap /\ n <= dt /\ n \in 0..Cap
      /\ n <= Distance(cursor, chead)
      /\ chead \in Cursors /\ chead' \in Cursors /\ tail \in Cursors /\ cursor \in Cursors
  <2>1. /\ chead \in Cursors /\ chead' \in Cursors /\ tail \in Cursors /\ cursor \in Cursors
    BY <1>0 DEF TypeOK, IInv
  <2>2. dp \in Nat
    BY <2>1, DistanceType
  <2>3. /\ Distance(cachedTail, chead) \in 0..Cap /\ dt \in 0..Cap
        /\ Distance(cursor, chead) \in 0..Cap
        /\ Distance(cachedTail, chead) <= dt
        /\ Distance(cursor, chead) = dp + dt
    BY <1>0, OrderFromConsumer
  <2> HIDE DEF dt, dp
  <2> QED
    BY <2>1, <2>2, <2>3, RangeFacts
<1>2. Distance(tail, chead') = dt - n
  BY <1>0, <1>1, AdvanceConsumer
<1>3. QueueFacts /\ QueueFacts'
  BY Queues, PTL
<1>4. /\ VisibleQueue \in Seq(Values) /\ Len(VisibleQueue) = dt
      /\ \A i \in 1..dt : VisibleQueue[i] = buf[slot(i - 1)]
      /\ PendingQueue \in Seq(Values) /\ Len(PendingQueue) = dp
      /\ \A i \in 1..dp : PendingQueue[i] = buf[slot(dt + i - 1)]
  BY <1>3 DEF QueueFacts
<1>5. /\ VisibleQueue' \in Seq(Values) /\ Len(VisibleQueue') = dt - n
      /\ \A i \in 1..(dt - n) : VisibleQueue'[i] = buf'[Index(WrappingAdd(chead', i - 1))]
      /\ PendingQueue' \in Seq(Values) /\ Len(PendingQueue') = dp
      /\ \A i \in 1..dp :
           PendingQueue'[i] = buf'[Index(WrappingAdd(chead', (dt - n) + i - 1))]
  BY <1>2, <1>3 DEF QueueFacts
<1>6. ASSUME NEW j \in 0..(Cap - 1), n <= j
      PROVE  buf'[Index(WrappingAdd(chead', j - n))] = buf[slot(j)]
  <2>1. j - n \in 0..(Cap - 1) /\ n + (j - n) = j /\ j \in Nat
    BY <1>1, <1>6, RangeFacts
  <2>2. Index(WrappingAdd(chead', j - n)) = (chead + (n + (j - n))) % Cap
    BY <1>1, <2>1, IndexShift
  <2>3. Index(WrappingAdd(chead', j - n)) = slot(j)
    BY <1>1, <2>1, <2>2, IndexOfWrapped
  <2> QED
    BY <1>6, <2>1, <2>3
<1>7. out' \in Seq(Values) /\ Len(out') = n /\ \A i \in 1..n : out'[i] = buf[slot(i - 1)]
  <2>1. \A i \in 1..n : Window(chead, n)[i] = buf[slot(i - 1)]
    BY DEF Window
  <2> QED
    BY <1>0, <1>1, <2>1, WindowType
<1> HIDE DEF dt, dp, slot
<1>8. out' = SubSeq(VisibleQueue, 1, n)
  <2>1. \A i \in 1..n : out'[i] = VisibleQueue[i]
    <3> TAKE i \in 1..n
    <3>1. i \in 1..dt
      BY <1>1
    <3> QED
      BY <1>4, <1>7, <3>1
  <2>2. n \in 0..Len(VisibleQueue)
    BY <1>1, <1>4
  <2> QED
    BY <1>4, <1>7, <2>1, <2>2, CutFront
<1>9. VisibleQueue' = SubSeq(VisibleQueue, n + 1, Len(VisibleQueue))
  <2>1. ASSUME NEW i \in 1..(dt - n)
        PROVE  VisibleQueue'[i] = VisibleQueue[n + i]
    <3>1. /\ n + i - 1 \in 0..(Cap - 1) /\ n <= n + i - 1
          /\ (n + i - 1) - n = i - 1 /\ n + i \in 1..dt
      BY <1>1, RangeFacts
    <3>2. buf'[Index(WrappingAdd(chead', i - 1))] = buf[slot(n + i - 1)]
      BY <1>6, <3>1
    <3>3. VisibleQueue'[i] = buf'[Index(WrappingAdd(chead', i - 1))]
      BY <1>5
    <3>4. VisibleQueue[n + i] = buf[slot(n + i - 1)]
      BY <1>4, <3>1
    <3> QED
      BY <3>2, <3>3, <3>4
  <2>2. n \in 0..Len(VisibleQueue)
    BY <1>1, <1>4
  <2> QED
    BY <1>4, <1>5, <2>1, <2>2, CutBack
<1>10. PendingQueue' = PendingQueue
  <2>1. ASSUME NEW i \in 1..dp
        PROVE  PendingQueue'[i] = PendingQueue[i]
    <3>1. /\ dt + i - 1 \in 0..(Cap - 1) /\ n <= dt + i - 1
          /\ (dt + i - 1) - n = (dt - n) + i - 1
      BY <1>1, RangeFacts
    <3>2. buf'[Index(WrappingAdd(chead', (dt + i - 1) - n))] = buf[slot(dt + i - 1)]
      BY <1>6, <3>1
    <3>3. PendingQueue'[i] = buf'[Index(WrappingAdd(chead', (dt - n) + i - 1))]
      BY <1>5
    <3>4. PendingQueue[i] = buf[slot(dt + i - 1)]
      BY <1>4
    <3> QED
      BY <3>1, <3>2, <3>3, <3>4
  <2> QED
    BY <1>4, <1>5, <2>1, SeqEqual
<1> QED
  BY <1>1, <1>4, <1>8, <1>9, <1>10

\* Steps that move no cursor of the mapping and no value are invisible.
LEMMA QueuesUnchanged ==
  ASSUME UNCHANGED <<buf, tail, cursor, chead, dropped>>
  PROVE  UNCHANGED <<PendingQueue, VisibleQueue>>
BY DEF PendingQueue, VisibleQueue, Window

\* Every operation of the ring is a step of the FIFO or changes nothing there.
LEMMA StepSimulation == IInv /\ IInv' /\ [Next]_vars => [Fifo!Next]_(Fifo!fifoVars)
<1> SUFFICES ASSUME IInv, IInv', [Next]_vars PROVE [Fifo!Next]_(Fifo!fifoVars)
  OBVIOUS
<1>0. TypeOK /\ CursorsInOrder /\ SlotsMatchCursors /\ HalvesHandOff
  BY DEF IInv
<1>live. (prod # "closed" \/ cons # "closed") => ~dropped
  BY <1>0 DEF HalvesHandOff
<1>seq. /\ tail \in Cursors /\ cursor \in Cursors
        /\ chead \in Cursors /\ cachedTail \in Cursors
  BY <1>0 DEF TypeOK
<1> USE DEF prodVars, consVars
<1>1. ASSUME NEW v \in Values, Push(v) PROVE Fifo!Next
  <2>1. /\ PendingQueue' = Append(PendingQueue, v) /\ VisibleQueue' = VisibleQueue
        /\ Len(PendingQueue) + Len(VisibleQueue) < Cap
    BY <1>1, PushAppends
  <2>2. Fifo!Put(v)
    BY <1>1, <2>1 DEF Push, WriteSlot, Fifo!Put
  <2> QED
    BY <2>2 DEF Fifo!Next
<1>2. ASSUME Flush \/ ProducerClose PROVE Fifo!Next
  <2>1. VisibleQueue' = VisibleQueue \o PendingQueue /\ PendingQueue' = <<>>
    <3>1. ~dropped /\ ~dropped' /\ tail' = cursor /\ UNCHANGED <<buf, cursor, chead>>
      BY <1>2, <1>live DEF Flush, ProducerClose
    <3> QED
      BY <3>1, FlushPublishes
  <2>2. Fifo!Publish
    BY <1>2, <2>1 DEF Flush, ProducerClose, Fifo!Publish
  <2> QED
    BY <2>2 DEF Fifo!Next
<1>3. ASSUME ProducerDropped PROVE Fifo!Next
  <2>1. UNCHANGED <<PendingQueue, VisibleQueue>>
    BY <1>3, QueuesUnchanged DEF ProducerDropped
  <2>2. PendingQueue = <<>>
    <3>1. ~dropped /\ tail = cursor
      BY <1>0, <1>3, <1>live DEF ProducerDropped, HalvesHandOff
    <3>2. Distance(cursor, tail) = 0
      BY <1>seq, <3>1, DistanceCases, RangeFacts DEF Cursors
    <3>3. PendingQueue \in Seq(Values) /\ Len(PendingQueue) = 0
      BY <3>1, <3>2, Queues DEF QueueFacts
    <3> QED
      BY <3>3, EmptySeq
  <2>3. Fifo!CloseSender
    BY <1>3, <2>1, <2>2 DEF ProducerDropped, Fifo!CloseSender
  <2> QED
    BY <2>3 DEF Fifo!Next
<1>4. ASSUME NEW n \in Nat, n <= Distance(cachedTail, chead), cons = "open",
             out' = Window(chead, n), chead' = WrappingAdd(chead, n),
             \A j \in 0..(Cap - 1) :
               buf'[Index(WrappingAdd(chead, j))] =
                 IF j < n THEN Uninit ELSE buf[Index(WrappingAdd(chead, j))],
             UNCHANGED <<tail, cursor, prod, cons, dropped>>
      PROVE  Fifo!Next
  <2>1. /\ n \in 0..Len(VisibleQueue)
        /\ out' = SubSeq(VisibleQueue, 1, n)
        /\ VisibleQueue' = SubSeq(VisibleQueue, n + 1, Len(VisibleQueue))
        /\ PendingQueue' = PendingQueue
    BY <1>4, <1>live, MoveTakes
  <2>2. Fifo!Take
    BY <1>4, <2>1 DEF Fifo!Take
  <2> QED
    BY <2>2 DEF Fifo!Next
<1>5. ASSUME Pop PROVE Fifo!Next
  <2>1. ~dropped /\ 1 <= Distance(cachedTail, chead)
    BY <1>5, <1>live, <1>seq, DistanceCases, RangeFacts DEF Pop, Cursors
  <2>2. Index(WrappingAdd(chead, 0)) = Index(chead) /\ Index(chead) \in Slots
    BY <1>seq, WrappingAddCases, SlotInRange, RangeFacts DEF Cursors
  <2>3. out' = Window(chead, 1)
    <3>1. \A i \in 1..1 : i - 1 = 0
      OBVIOUS
    <3> QED
      BY <1>5, <2>2, <3>1 DEF Pop, Window
  <2>4. ASSUME NEW j \in 0..(Cap - 1)
        PROVE  buf'[Index(WrappingAdd(chead, j))] =
                 IF j < 1 THEN Uninit ELSE buf[Index(WrappingAdd(chead, j))]
    <3>1. Index(WrappingAdd(chead, j)) \in Slots
      BY <1>seq, SlotInRange, RangeFacts
    <3>2. CASE j = 0
      BY <1>5, <1>0, <2>2, <3>2 DEF Pop, TypeOK
    <3>3. CASE j # 0
      <4>1. Index(WrappingAdd(chead, j)) # Index(WrappingAdd(chead, 0))
        <5>1. 0 \in 0..(Cap - 1) /\ 0 \in Nat /\ j \in Nat /\ chead \in Int
          BY <1>seq, RangeFacts DEF Cursors
        <5>2. /\ Index(WrappingAdd(chead, j)) = (chead + j) % Cap
              /\ Index(WrappingAdd(chead, 0)) = (chead + 0) % Cap
          BY <1>seq, <5>1, IndexOfWrapped
        <5> QED
          BY <3>3, <5>1, <5>2, SlotInjective, Zenon
      <4> QED
        BY <1>5, <1>0, <2>2, <3>1, <3>3, <4>1 DEF Pop, TypeOK
    <3> QED
      BY <3>2, <3>3
  <2> QED
    BY <1>4, <1>5, <2>1, <2>3, <2>4 DEF Pop
<1>6. ASSUME NEW n \in Nat, n <= Distance(cachedTail, chead), cons = "open", MoveOut(n)
      PROVE  Fifo!Next
  <2>1. ~dropped
    BY <1>6, <1>live
  <2>2. n <= Distance(cursor, chead) /\ n \in 0..Cap
    BY <1>0, <1>6, <2>1, OrderFromConsumer, RangeFacts
  <2>3. out' = Window(chead, n)
    BY <1>0, <1>6, <2>1, <2>2, SegmentsAreWindow DEF MoveOut
  <2>4. \A j \in 0..(Cap - 1) :
          buf'[Index(WrappingAdd(chead, j))] =
            IF j < n THEN Uninit ELSE buf[Index(WrappingAdd(chead, j))]
    BY <1>0, <1>6, <1>seq, <2>2, EmptiedWindow DEF MoveOut
  <2> QED
    BY <1>4, <1>6, <2>3, <2>4 DEF MoveOut
<1>7. ASSUME NEW limit \in 0..Cap, PopInto(limit) PROVE Fifo!Next
  <2>1. Distance(cachedTail, chead) \in Nat
    BY <1>seq, DistanceType
  <2> QED
    BY <1>6, <1>7, <2>1, RangeFacts DEF PopInto, Least
<1>8. ASSUME NEW limit \in 0..Cap, NEW admitted \in SUBSET Values, PopIntoWhile(limit, admitted)
      PROVE  Fifo!Next
  <2>1. Distance(cachedTail, chead) \in Nat
    BY <1>seq, DistanceType
  <2> QED
    BY <1>6, <1>8, <2>1, RangeFacts DEF PopIntoWhile, Least
<1>9. ASSUME ConsumerDropped PROVE Fifo!Next
  <2>1. UNCHANGED <<PendingQueue, VisibleQueue>>
    BY <1>9, QueuesUnchanged DEF ConsumerDropped
  <2>2. Fifo!CloseReceiver
    BY <1>9, <2>1 DEF ConsumerDropped, Fifo!CloseReceiver
  <2> QED
    BY <2>2 DEF Fifo!Next
<1>10. ASSUME RingDrop PROVE Fifo!Next
  <2>1. PendingQueue = <<>>
    <3>1. ~dropped /\ tail = cursor
      BY <1>0, <1>10 DEF RingDrop, HalvesHandOff
    <3>2. Distance(cursor, tail) = 0
      BY <1>seq, <3>1, DistanceCases, RangeFacts DEF Cursors
    <3>3. PendingQueue \in Seq(Values) /\ Len(PendingQueue) = 0
      BY <3>1, <3>2, Queues DEF QueueFacts
    <3> QED
      BY <3>3, EmptySeq
  <2>2. PendingQueue' = <<>> /\ VisibleQueue' = <<>>
    BY <1>10 DEF RingDrop, PendingQueue, VisibleQueue
  <2>3. Fifo!Destroy
    BY <1>10, <2>1, <2>2 DEF RingDrop, Fifo!Destroy
  <2> QED
    BY <2>3 DEF Fifo!Next
<1>11. ASSUME FindFull \/ FindRoom \/ Prefetch \/ Release \/ CheckDropped \/ CheckTail
              \/ ConsumerClose \/ UNCHANGED vars
       PROVE  UNCHANGED Fifo!fifoVars
  <2> USE DEF FindFull, FindRoom, Prefetch, Release, CheckDropped, CheckTail, ConsumerClose, vars
  <2>1. UNCHANGED <<buf, tail, cursor, chead, dropped, prod, out>>
    BY <1>11
  <2>2. UNCHANGED <<PendingQueue, VisibleQueue>>
    BY <2>1, QueuesUnchanged
  <2>3. (cons' = "closed") = (cons = "closed")
    BY <1>11
  <2> QED
    BY <2>1, <2>2, <2>3 DEF Fifo!fifoVars
<1> QED
  BY <1>1, <1>2, <1>3, <1>5, <1>7, <1>8, <1>9, <1>10, <1>11
  DEF Next, ProducerStep, ConsumerStep

\* A new ring is an empty FIFO.
LEMMA InitSimulation == Init => Fifo!Init
<1> SUFFICES ASSUME Init PROVE Fifo!Init
  OBVIOUS
<1>1. IInv /\ ~dropped
  BY InitInv DEF Init
<1>2. 0 \in Cursors /\ Distance(0, 0) = 0
  BY DistanceCases, RangeFacts DEF Cursors
<1>3. PendingQueue = <<>> /\ VisibleQueue = <<>>
  BY <1>1, <1>2, Queues, EmptySeq DEF QueueFacts, Init
<1> QED
  BY <1>3 DEF Init, Fifo!Init

\* The ring implements the bounded FIFO: over any number of wraps of its
\* cursors, with either side working from a stale copy of the other's cursor
\* and batches cut in two at the end of the buffer, values come out once each,
\* in push order and only after they were flushed.
THEOREM Refinement == Spec => ImplementsFifo
<1>1. Spec => Fifo!Init
  BY InitSimulation DEF Spec
<1> QED
  BY <1>1, Invariance, StepSimulation, PTL DEF Spec, ImplementsFifo, Fifo!Spec
=============================================================================
