-------------------------- MODULE SpscQueueProofs --------------------------
(***************************************************************************)
(* Proofs about SpscQueue, for every power-of-two Size, every set of       *)
(* values, weak or strong loads, and any number of stores.                 *)
(***************************************************************************)
EXTENDS SpscQueue, Integers, TLAPS

(* Arithmetic of the index mask *)

\* All that the arithmetic needs of SizeAssumption.
LEMMA SizeIsPositive == Size \in Nat \ {0}
BY SizeAssumption

\* Euclidean division by the number of slots.
LEMMA DivMod == ASSUME NEW a \in Nat
                PROVE  /\ a = Size * (a \div Size) + (a % Size)
                       /\ a \div Size \in Nat
                       /\ a % Size \in 0..(Size - 1)
BY SizeIsPositive, Z3

\* The remainder is unique.
LEMMA ModUnique == ASSUME NEW q \in Int, NEW r \in 0..(Size - 1)
                   PROVE  (Size * q + r) % Size = r
BY SizeIsPositive, Z3

\* Masking after every increment is the same as masking the sum.
LEMMA ModSucc == ASSUME NEW a \in Nat
                 PROVE  ((a % Size) + 1) % Size = (a + 1) % Size
<1> DEFINE q == a \div Size
           r == a % Size
<1>1. a = Size * q + r /\ q \in Nat /\ r \in 0..(Size - 1)
  BY DivMod
<1> HIDE DEF q, r
<1>2. CASE r + 1 < Size
  <2>1. a + 1 = Size * q + (r + 1) /\ r + 1 \in 0..(Size - 1)
    BY <1>1, <1>2, SizeIsPositive, Z3
  <2>2. (a + 1) % Size = r + 1
    BY <2>1, <1>1, ModUnique
  <2>3. (Size * 0 + (r + 1)) % Size = r + 1
    BY <2>1, ModUnique
  <2>4. Size * 0 + (r + 1) = r + 1
    BY <1>1, SizeIsPositive, Z3
  <2> QED BY <2>2, <2>3, <2>4 DEF r
<1>3. CASE r + 1 = Size
  <2>1. a + 1 = Size * (q + 1) + 0
    BY <1>1, <1>3, SizeIsPositive, Z3
  <2>2. (a + 1) % Size = 0
    BY <2>1, <1>1, ModUnique, SizeIsPositive
  <2>3. r + 1 = Size * 1 + 0
    BY <1>1, <1>3, SizeIsPositive
  <2>4. (r + 1) % Size = 0
    BY <2>3, ModUnique, SizeIsPositive
  <2> QED BY <2>2, <2>4 DEF r
<1> QED BY <1>1, <1>2, <1>3, SizeIsPositive

\* Two positions less than a full turn apart are different slots.
LEMMA ModInj == ASSUME NEW a \in Nat, NEW b \in Nat, a < b, b - a < Size
                PROVE  a % Size # b % Size
<1> DEFINE qa == a \div Size
           qb == b \div Size
           r  == a % Size
<1>1. SUFFICES ASSUME a % Size = b % Size PROVE FALSE
  OBVIOUS
<1>2. /\ a = Size * qa + r /\ qa \in Nat /\ r \in 0..(Size - 1)
      /\ b = Size * qb + r /\ qb \in Nat
  BY <1>1, DivMod
<1> HIDE DEF qa, qb, r
<1>3. b - a = Size * (qb - qa)
  BY <1>2, SizeIsPositive, Z3
<1>4. CASE qb - qa <= 0
  BY <1>3, <1>4, <1>2, SizeIsPositive, Z3
<1>5. CASE qb - qa >= 1
  BY <1>3, <1>5, <1>2, SizeIsPositive, Z3
<1> QED BY <1>2, <1>4, <1>5

\* A full turn leads back to the same slot.
LEMMA ModTurn == ASSUME NEW a \in Nat PROVE (a + Size) % Size = a % Size
<1> DEFINE q == a \div Size
           r == a % Size
<1>1. a = Size * q + r /\ q \in Nat /\ r \in 0..(Size - 1)
  BY DivMod
<1> HIDE DEF q, r
<1>2. a + Size = Size * (q + 1) + r
  BY <1>1, SizeIsPositive, Z3
<1>3. (a + Size) % Size = r
  BY <1>1, <1>2, ModUnique
<1> QED BY <1>3 DEF r
-----------------------------------------------------------------------------
\* The slot of the i-th store of an index: in range, one step at a time, the
\* same after a full turn and different before it.
LEMMA SlotFacts ==
    /\ Slot(1) = 0
    /\ \A i \in Nat \ {0} : /\ Slot(i) \in Slots
                            /\ Following(Slot(i)) = Slot(i + 1)
                            /\ Slot(i + Size) = Slot(i)
    /\ \A i, j \in Nat \ {0} : i < j /\ j - i < Size => Slot(i) # Slot(j)
<1>1. Slot(1) = 0
  <2>1. (Size * 0 + 0) % Size = 0
    BY ModUnique, SizeIsPositive
  <2>2. Size * 0 + 0 = 0
    BY SizeIsPositive, Z3
  <2> QED BY <2>1, <2>2 DEF Slot
<1>2. ASSUME NEW i \in Nat \ {0}
      PROVE  /\ Slot(i) \in Slots
             /\ Following(Slot(i)) = Slot(i + 1)
             /\ Slot(i + Size) = Slot(i)
  <2> DEFINE a == i - 1
  <2>1. /\ a \in Nat /\ a + 1 = (i + 1) - 1
        /\ a + Size = (i + Size) - 1
    BY SizeIsPositive
  <2> HIDE DEF a
  <2>2. /\ a % Size \in 0..(Size - 1)
        /\ ((a % Size) + 1) % Size = (a + 1) % Size
        /\ (a + Size) % Size = a % Size
    BY <2>1, DivMod, ModSucc, ModTurn
  <2> QED BY <2>1, <2>2 DEF Slot, Slots, Following, a
<1>3. ASSUME NEW i \in Nat \ {0}, NEW j \in Nat \ {0}, i < j, j - i < Size
      PROVE  Slot(i) # Slot(j)
  <2> DEFINE a == i - 1
             b == j - 1
  <2>1. a \in Nat /\ b \in Nat /\ a < b /\ b - a < Size
    BY <1>3, SizeIsPositive
  <2> HIDE DEF a, b
  <2>2. a % Size # b % Size
    BY <2>1, ModInj
  <2> QED BY <2>2 DEF Slot, a, b
<1> QED BY <1>1, <1>2, <1>3
-----------------------------------------------------------------------------
(* The inductive invariant *)

IInv == TypeOK /\ Synchronised

LEMMA InitIInv == Init => IInv
<1> SUFFICES ASSUME Init PROVE IInv
  OBVIOUS
<1> USE SizeIsPositive DEF Init
<1>1. 0 \in Slots /\ Slot(1) = 0
  BY SlotFacts DEF Slots
<1>2. headMO \in Seq(Slots) /\ Len(headMO) = 1 /\ headMO[1] = 0
  BY <1>1
<1>3. tailMO \in Seq(Slots) /\ Len(tailMO) = 1 /\ tailMO[1] = 0
  BY <1>1
<1>4. TypeOK
  BY <1>1, <1>2, <1>3 DEF TypeOK
<1>5. Synchronised
  BY <1>1, <1>2, <1>3 DEF Synchronised
<1> QED BY <1>4, <1>5 DEF IInv

\* What an acquire load may return.
LEMMA VisibleRange ==
    ASSUME NEW mo \in Seq(Slots), NEW seen \in 1..Len(mo), NEW i \in Visible(mo, seen)
    PROVE  i \in Nat /\ seen <= i /\ i <= Len(mo)
BY DEF Visible

LEMMA NextIInv == IInv /\ [Next]_vars => IInv'
<1> SUFFICES ASSUME IInv, [Next]_vars PROVE IInv'
  OBVIOUS
<1> USE SizeIsPositive
<1> DEFINE nh == Len(headMO)
           nt == Len(tailMO)
<1>0. /\ nh \in Nat \ {0} /\ nt \in Nat \ {0}
      /\ headSeen \in 1..nh /\ tailSeen \in 1..nt /\ nh <= tailSeen
      /\ nt - headSeen <= Size - 1
      /\ headMO \in Seq(Slots) /\ tailMO \in Seq(Slots)
  BY DEF IInv, TypeOK, Synchronised
<1>1. ASSUME NEW v \in Values, EnqueueCall(v) PROVE IInv'
  <2>1. tailMO[nt] \in Slots /\ tailMO[nt] = Slot(nt)
    <3>1. nt \in 1..nt
      BY <1>0
    <3>2. tailMO[nt] = Slot(nt)
      BY <3>1 DEF IInv, Synchronised
    <3>3. tailMO[nt] \in Slots
      BY <1>0, <3>1
    <3> QED BY <3>2, <3>3
  <2>2. TypeOK'
    BY <1>1, <2>1 DEF EnqueueCall, IInv, TypeOK, consumer
  <2>3. Synchronised'
    BY <1>1, <2>1 DEF EnqueueCall, IInv, Synchronised, consumer
  <2> QED BY <2>2, <2>3 DEF IInv
<1>2. CASE EnqueueFull
  <2>1. PICK i \in Visible(headMO, headSeen) : headSeen' = i
    BY <1>2 DEF EnqueueFull
  <2>2. headSeen' \in headSeen..nh
    BY <1>0, <2>1, VisibleRange
  <2>3. TypeOK'
    BY <1>2, <1>0, <2>2 DEF EnqueueFull, IInv, TypeOK, consumer
  <2>4. Synchronised'
    BY <1>2, <1>0, <2>2 DEF EnqueueFull, IInv, Synchronised, consumer
  <2> QED BY <2>3, <2>4 DEF IInv
<1>3. CASE EnqueueRoom
  <2>1. PICK i \in Visible(headMO, headSeen) :
            headSeen' = i /\ Following(t) # headMO[i]
    BY <1>3 DEF EnqueueRoom
  <2>2. i \in headSeen..nh
    BY <1>0, <2>1, VisibleRange
  <2>3. t = Slot(nt) /\ headMO[i] = Slot(i)
    BY <1>3, <1>0, <2>2 DEF EnqueueRoom, IInv, Synchronised
  <2>4. Slot(nt + 1) # Slot(i)
    BY <1>0, <2>1, <2>3, SlotFacts
  <2>5. nt - i # Size - 1
    <3>1. SUFFICES ASSUME nt - i = Size - 1 PROVE FALSE
      OBVIOUS
    <3>2. i \in Nat \ {0} /\ nt + 1 = i + Size
      BY <1>0, <2>2, <3>1
    <3> QED BY <2>4, <3>2, SlotFacts
  <2>6. nt - i < Size - 1
    BY <1>0, <2>2, <2>5
  <2>7. TypeOK'
    BY <1>3, <1>0, <2>1, <2>2 DEF EnqueueRoom, IInv, TypeOK, consumer
  <2>8. Synchronised'
    BY <1>3, <1>0, <2>1, <2>2, <2>6 DEF EnqueueRoom, IInv, Synchronised, consumer
  <2> QED BY <2>7, <2>8 DEF IInv
<1>4. CASE EnqueueWrite
  <2>1. t = Slot(nt) /\ t \in Slots /\ value \in Values /\ nt - headSeen < Size - 1
    BY <1>4 DEF EnqueueWrite, IInv, TypeOK, Synchronised
  <2>2. buffer' \in [Slots -> Values \cup {NoValue}] /\ buffer'[t] = value
    BY <1>4, <2>1 DEF EnqueueWrite, IInv, TypeOK
  <2>3. cpc = "publish" => buffer'[h] = buffer[h]
    <3>1. SUFFICES ASSUME cpc = "publish" PROVE h # t
      BY <1>4 DEF EnqueueWrite, IInv, TypeOK
    <3>2. h = Slot(nh) /\ nh < tailSeen
      BY <3>1 DEF IInv, Synchronised
    <3>3. nh < nt /\ nt - nh < Size
      BY <1>0, <2>1, <3>2
    <3> QED BY <1>0, <2>1, <3>2, <3>3, SlotFacts
  <2>4. TypeOK'
    BY <1>4, <2>2 DEF EnqueueWrite, IInv, TypeOK, consumer
  <2>5. Synchronised'
    BY <1>4, <2>1, <2>2, <2>3 DEF EnqueueWrite, IInv, Synchronised, consumer
  <2> QED BY <2>4, <2>5 DEF IInv
<1>5. CASE EnqueuePublish
  <2>1. /\ Following(t) = Slot(nt + 1) /\ Following(t) \in Slots
        /\ nt - headSeen < Size - 1
    BY <1>5, <1>0, SlotFacts DEF EnqueuePublish, IInv, Synchronised
  <2>2. /\ tailMO' \in Seq(Slots) /\ Len(tailMO') = nt + 1
        /\ \A i \in 1..nt : tailMO'[i] = tailMO[i]
        /\ tailMO'[nt + 1] = Following(t)
    BY <1>5, <1>0, <2>1 DEF EnqueuePublish
  <2>3. TypeOK'
    BY <1>5, <1>0, <2>2 DEF EnqueuePublish, IInv, TypeOK, consumer
  <2>4. \A i \in 1..Len(tailMO') : tailMO'[i] = Slot(i)
    <3>1. \A i \in 1..nt : tailMO'[i] = Slot(i)
      BY <2>2 DEF IInv, Synchronised
    <3>2. \A i \in 1..Len(tailMO') : i \in 1..nt \/ i = nt + 1
      BY <1>0, <2>2
    <3>3. tailMO'[nt + 1] = Slot(nt + 1)
      BY <2>1, <2>2
    <3> QED BY <3>1, <3>2, <3>3
  <2>5. Synchronised'
    BY <1>5, <1>0, <2>1, <2>2, <2>4 DEF EnqueuePublish, IInv, Synchronised, consumer
  <2> QED BY <2>3, <2>5 DEF IInv
<1>6. CASE DequeueCall
  <2>1. headMO[nh] \in Slots /\ headMO[nh] = Slot(nh)
    <3>1. nh \in 1..nh
      BY <1>0
    <3>2. headMO[nh] = Slot(nh)
      BY <3>1 DEF IInv, Synchronised
    <3>3. headMO[nh] \in Slots
      BY <1>0, <3>1
    <3> QED BY <3>2, <3>3
  <2>2. TypeOK'
    BY <1>6, <2>1 DEF DequeueCall, IInv, TypeOK, producer
  <2>3. Synchronised'
    BY <1>6, <2>1 DEF DequeueCall, IInv, Synchronised, producer
  <2> QED BY <2>2, <2>3 DEF IInv
<1>7. CASE DequeueEmpty
  <2>1. PICK i \in Visible(tailMO, tailSeen) : tailSeen' = i
    BY <1>7 DEF DequeueEmpty
  <2>2. tailSeen' \in tailSeen..nt
    BY <1>0, <2>1, VisibleRange
  <2>3. TypeOK'
    BY <1>7, <1>0, <2>2 DEF DequeueEmpty, IInv, TypeOK, producer
  <2>4. Synchronised'
    BY <1>7, <1>0, <2>2 DEF DequeueEmpty, IInv, Synchronised, producer
  <2> QED BY <2>3, <2>4 DEF IInv
<1>8. CASE DequeueSome
  <2>1. PICK i \in Visible(tailMO, tailSeen) : tailSeen' = i /\ h # tailMO[i]
    BY <1>8 DEF DequeueSome
  <2>2. i \in tailSeen..nt
    BY <1>0, <2>1, VisibleRange
  <2>3. h = Slot(nh) /\ tailMO[i] = Slot(i)
    BY <1>8, <1>0, <2>2 DEF DequeueSome, IInv, Synchronised
  <2>4. nh < i
    BY <1>0, <2>1, <2>2, <2>3
  <2>5. TypeOK'
    BY <1>8, <1>0, <2>1, <2>2 DEF DequeueSome, IInv, TypeOK, producer
  <2>6. Synchronised'
    BY <1>8, <1>0, <2>1, <2>2, <2>4 DEF DequeueSome, IInv, Synchronised, producer
  <2> QED BY <2>5, <2>6 DEF IInv
<1>9. CASE DequeueRead
  <2>1. buffer[h] \in Values \cup {NoValue}
    BY DEF IInv, TypeOK
  <2>2. TypeOK'
    BY <1>9, <2>1 DEF DequeueRead, IInv, TypeOK, producer
  <2>3. Synchronised'
    BY <1>9 DEF DequeueRead, IInv, Synchronised, producer
  <2> QED BY <2>2, <2>3 DEF IInv
<1>10. CASE DequeuePublish
  <2>1. /\ Following(h) = Slot(nh + 1) /\ Following(h) \in Slots
        /\ nh < tailSeen
    BY <1>10, <1>0, SlotFacts DEF DequeuePublish, IInv, Synchronised
  <2>2. /\ headMO' \in Seq(Slots) /\ Len(headMO') = nh + 1
        /\ \A i \in 1..nh : headMO'[i] = headMO[i]
        /\ headMO'[nh + 1] = Following(h)
    BY <1>10, <1>0, <2>1 DEF DequeuePublish
  <2>3. TypeOK'
    BY <1>10, <1>0, <2>2 DEF DequeuePublish, IInv, TypeOK, producer
  <2>4. \A i \in 1..Len(headMO') : headMO'[i] = Slot(i)
    <3>1. \A i \in 1..nh : headMO'[i] = Slot(i)
      BY <2>2 DEF IInv, Synchronised
    <3>2. \A i \in 1..Len(headMO') : i \in 1..nh \/ i = nh + 1
      BY <1>0, <2>2
    <3>3. headMO'[nh + 1] = Slot(nh + 1)
      BY <2>1, <2>2
    <3> QED BY <3>1, <3>2, <3>3
  <2>5. deqRet' # <<"pending">>
    <3>1. deqRet'[1] = "ok" /\ <<"pending">>[1] = "pending"
      BY <1>10 DEF DequeuePublish
    <3> QED BY <3>1
  <2>6. Synchronised'
    BY <1>10, <1>0, <2>1, <2>2, <2>4, <2>5
    DEF DequeuePublish, IInv, Synchronised, producer
  <2> QED BY <2>3, <2>6 DEF IInv
<1>11. CASE UNCHANGED vars
  BY <1>11 DEF vars, producer, consumer, IInv, TypeOK, Synchronised
<1> QED
  BY <1>1, <1>2, <1>3, <1>4, <1>5, <1>6, <1>7, <1>8, <1>9, <1>10, <1>11
  DEF Next, Producer, Consumer
-----------------------------------------------------------------------------
(* Theorems *)

LEMMA Invariance == Spec => []IInv
<1>1. Init => IInv
  BY InitIInv
<1>2. IInv /\ [Next]_vars => IInv'
  BY NextIInv
<1> QED BY <1>1, <1>2, PTL DEF Spec

\* Every variable of the queue keeps its type: an index never leaves the ring.
THEOREM TypeCorrect == Spec => []TypeOK
<1>1. IInv => TypeOK
  BY DEF IInv
<1> QED BY <1>1, Invariance, PTL

\* The head never overtakes the tail and the tail never laps the head.
THEOREM IndicesSynchronised == Spec => []Synchronised
<1>1. IInv => Synchronised
  BY DEF IInv
<1> QED BY <1>1, Invariance, PTL

\* The producer's write to a slot cannot race with a consumer's read of it.
LEMMA WriteRaceFree == Spec => []NoWriteRace
<1>1. IInv => NoWriteRace
  <2>1. SUFFICES ASSUME IInv, ppc = "write", NEW k \in headSeen..(Len(tailMO) - 1)
                 PROVE  tailMO[k] # t
    BY DEF NoWriteRace
  <2>2. /\ k \in Nat \ {0} /\ k \in 1..Len(tailMO) /\ Len(tailMO) \in Nat \ {0}
        /\ k < Len(tailMO) /\ Len(tailMO) - k < Size
    BY <2>1, SizeIsPositive DEF IInv, TypeOK, Synchronised
  <2>3. tailMO[k] = Slot(k) /\ t = Slot(Len(tailMO))
    BY <2>1, <2>2 DEF IInv, Synchronised
  <2> QED BY <2>2, <2>3, SlotFacts
<1> QED BY <1>1, Invariance, PTL

\* The consumer's read of a slot cannot race with the write that filled it.
LEMMA ReadRaceFree == Spec => []NoReadRace
<1>1. IInv => NoReadRace
  <2>1. SUFFICES ASSUME IInv, cpc = "read"
                 PROVE  Len(headMO) < tailSeen /\ tailMO[Len(headMO)] = h
    BY DEF NoReadRace
  <2>2. Len(headMO) < tailSeen /\ h = Slot(Len(headMO))
    BY <2>1 DEF IInv, Synchronised
  <2>3. Len(headMO) \in 1..Len(tailMO)
    BY <2>1, <2>2 DEF IInv, TypeOK
  <2> QED BY <2>1, <2>2, <2>3 DEF IInv, Synchronised
<1> QED BY <1>1, Invariance, PTL

\* Both: no slot of the ring is ever raced for.
THEOREM SlotRaceFree == Spec => []NoSlotRace
<1>1. NoWriteRace /\ NoReadRace => NoSlotRace
  BY DEF NoSlotRace
<1> QED BY <1>1, WriteRaceFree, ReadRaceFree, PTL
-----------------------------------------------------------------------------
(* Refinement of BoundedFifo *)

\* The slots the items are read from, and how many there are.
ItemsLayout ==
    /\ Len(tailMO) - Len(headMO) \in 0..(Size - 1)
    /\ Items \in Seq(Values \cup {NoValue})
    /\ Len(Items) = Len(tailMO) - Len(headMO)
    /\ \A i \in 1..Len(Items) : Items[i] = buffer[Slot(Len(headMO) + i - 1)]

LEMMA ItemsFacts == IInv => ItemsLayout
<1> SUFFICES ASSUME IInv PROVE ItemsLayout
  OBVIOUS
<1> USE SizeIsPositive
<1> DEFINE nh == Len(headMO)
           nt == Len(tailMO)
<1>1. /\ nh \in Nat \ {0} /\ nt \in Nat \ {0} /\ nh <= nt /\ nt - nh <= Size - 1
      /\ tailMO \in Seq(Slots)
  BY DEF IInv, TypeOK, Synchronised
<1>2. nt - nh \in 0..(Size - 1)
  BY <1>1
<1>3. ASSUME NEW i \in 1..(nt - nh)
      PROVE  /\ nh + i - 1 \in 1..nt
             /\ tailMO[nh + i - 1] = Slot(nh + i - 1)
             /\ buffer[tailMO[nh + i - 1]] \in Values \cup {NoValue}
  <2>1. nh + i - 1 \in 1..nt
    BY <1>1, <1>3
  <2>2. tailMO[nh + i - 1] = Slot(nh + i - 1)
    BY <2>1 DEF IInv, Synchronised
  <2>3. tailMO[nh + i - 1] \in Slots
    BY <2>1, <1>1
  <2> QED BY <2>1, <2>2, <2>3 DEF IInv, TypeOK
<1>4. Items \in Seq(Values \cup {NoValue}) /\ Len(Items) = nt - nh
  BY <1>2, <1>3 DEF Items
<1>5. \A i \in 1..Len(Items) : Items[i] = buffer[Slot(nh + i - 1)]
  BY <1>3, <1>4 DEF Items
<1> QED BY <1>2, <1>4, <1>5 DEF ItemsLayout

LEMMA ItemsFactsNext == IInv' => ItemsLayout'
BY ItemsFacts, PTL

\* A step that leaves the slots and both indices alone leaves the items alone.
LEMMA ItemsUnchanged ==
    ASSUME UNCHANGED <<headMO, tailMO, buffer>> PROVE Items' = Items
BY DEF Items

LEMMA FifoInit == Init => Fifo!Init
<1> SUFFICES ASSUME Init PROVE Items = <<>>
  BY DEF Init, Fifo!Init
<1>1. IInv
  BY InitIInv
<1>2. Len(Items) = 0 /\ Items \in Seq(Values \cup {NoValue})
  BY <1>1, ItemsFacts DEF Init, ItemsLayout
<1> QED BY <1>2

\* Two sequences with the same length and the same elements are one.
LEMMA SameSequence == ASSUME NEW S, NEW a \in Seq(S), NEW b \in Seq(S), Len(a) = Len(b),
                             \A i \in 1..Len(a) : a[i] = b[i]
                      PROVE  a = b
OBVIOUS

\* What the tail of a sequence that is not empty is.
LEMMA TailOf == ASSUME NEW S, NEW a \in Seq(S), Len(a) > 0
                PROVE  /\ Tail(a) \in Seq(S)
                       /\ Len(Tail(a)) = Len(a) - 1
                       /\ \A i \in 1..(Len(a) - 1) : Tail(a)[i] = a[i + 1]
OBVIOUS

LEMMA FifoNext == IInv /\ IInv' /\ [Next]_vars => [Fifo!Next]_(Fifo!vars)
<1> SUFFICES ASSUME IInv, IInv', [Next]_vars PROVE [Fifo!Next]_(Fifo!vars)
  OBVIOUS
<1> USE SizeIsPositive
<1> DEFINE nh == Len(headMO)
           nt == Len(tailMO)
<1>0. /\ nh \in Nat \ {0} /\ nt \in Nat \ {0} /\ nh <= tailSeen /\ tailSeen <= nt
      /\ headSeen \in 1..nh /\ tailSeen \in 1..nt /\ nt - headSeen <= Size - 1
  BY DEF IInv, TypeOK, Synchronised
<1>a. ItemsLayout /\ ItemsLayout'
  BY ItemsFacts, ItemsFactsNext
<1>1. ASSUME NEW v \in Values, EnqueueCall(v) PROVE Fifo!CallEnqueue
  BY <1>1, ItemsUnchanged DEF EnqueueCall, consumer, IInv, Synchronised, Fifo!CallEnqueue
<1>2. CASE EnqueueFull
  <2>1. PICK i \in Visible(headMO, headSeen) : Following(t) = headMO[i]
    BY <1>2 DEF EnqueueFull
  <2>2. WeakLoads \/ Len(Items) = Size - 1
    <3>1. SUFFICES ASSUME ~WeakLoads PROVE nt - nh = Size - 1
      BY <1>a DEF ItemsLayout
    <3>2. i = nh
      BY <2>1, <3>1 DEF Visible
    <3>3. Slot(nt + 1) = Slot(nh)
      <4>1. t = Slot(nt)
        BY <1>2 DEF EnqueueFull, IInv, Synchronised
      <4>2. Following(t) = Slot(nt + 1)
        BY <1>0, <4>1, SlotFacts
      <4>3. nh \in 1..nh
        BY <1>0
      <4>4. headMO[nh] = Slot(nh)
        BY <4>3 DEF IInv, Synchronised
      <4> QED BY <2>1, <3>2, <4>2, <4>4
    <3>4. ~(nt + 1 - nh < Size)
      BY <1>0, <3>3, SlotFacts
    <3> QED BY <1>0, <3>4
  <2>3. Items' = Items
    BY <1>2, ItemsUnchanged DEF EnqueueFull
  <2>4. Fifo!Refuse
    BY <1>2, <2>2, <2>3 DEF EnqueueFull, consumer, IInv, Synchronised, Fifo!Refuse
  <2> QED BY <2>4 DEF Fifo!Next
<1>3. CASE EnqueueRoom
  BY <1>3, ItemsUnchanged DEF EnqueueRoom, consumer, Fifo!vars
<1>4. CASE EnqueueWrite
  <2>1. /\ t = Slot(nt) /\ nt - headSeen < Size - 1
        /\ nh' = nh /\ nt' = nt
    BY <1>4 DEF EnqueueWrite, IInv, Synchronised
  <2>2. Len(Items') = Len(Items) /\ Len(Items) = nt - nh
    BY <2>1, <1>a DEF ItemsLayout
  <2>3. ASSUME NEW i \in 1..Len(Items) PROVE Items'[i] = Items[i]
    <3>1. nh + i - 1 \in Nat \ {0} /\ nh + i - 1 < nt /\ nt - (nh + i - 1) < Size
      BY <1>0, <2>1, <2>2, <2>3
    <3>2. Slot(nh + i - 1) # t /\ Slot(nh + i - 1) \in Slots
      BY <1>0, <2>1, <3>1, SlotFacts
    <3>3. buffer'[Slot(nh + i - 1)] = buffer[Slot(nh + i - 1)]
      BY <1>4, <3>2 DEF EnqueueWrite, IInv, TypeOK
    <3>4. Items'[i] = buffer'[Slot(nh + i - 1)]
      BY <2>1, <2>2, <2>3, <1>a DEF ItemsLayout
    <3> QED BY <2>3, <3>3, <3>4, <1>a DEF ItemsLayout
  <2>4. Items' \in Seq(Values \cup {NoValue}) /\ Items \in Seq(Values \cup {NoValue})
    BY <1>a DEF ItemsLayout
  <2>5. Items' = Items
    BY <2>2, <2>3, <2>4, SameSequence
  <2> QED BY <1>4, <2>5 DEF EnqueueWrite, consumer, Fifo!vars
<1>5. CASE EnqueuePublish
  <2>1. /\ t = Slot(nt) /\ buffer[t] = value /\ value \in Values
        /\ nt - headSeen < Size - 1 /\ nh' = nh /\ nt' = nt + 1 /\ buffer' = buffer
    BY <1>5, <1>0 DEF EnqueuePublish, IInv, TypeOK, Synchronised
  <2>2. /\ Len(Items) = nt - nh /\ Len(Items') = nt + 1 - nh
        /\ Items \in Seq(Values \cup {NoValue}) /\ Items' \in Seq(Values \cup {NoValue})
    BY <2>1, <1>a DEF ItemsLayout
  <2>3. ASSUME NEW i \in 1..Len(Items) PROVE Items'[i] = Items[i]
    <3>1. i \in 1..Len(Items')
      BY <1>0, <2>2, <2>3
    <3> QED BY <2>1, <2>3, <3>1, <1>a DEF ItemsLayout
  <2>4. Items'[Len(Items) + 1] = value
    <3>1. /\ Len(Items) + 1 \in 1..Len(Items')
          /\ nh + (Len(Items) + 1) - 1 = nt
      BY <1>0, <2>2
    <3> QED BY <2>1, <3>1, <1>a DEF ItemsLayout
  <2>5. Items' = Append(Items, value)
    <3>1. Len(Items') = Len(Items) + 1 /\ Len(Items) \in Nat
      BY <1>0, <2>2
    <3>2. /\ Append(Items, value) \in Seq(Values \cup {NoValue})
          /\ Len(Append(Items, value)) = Len(Items')
      BY <2>1, <2>2, <3>1
    <3>3. \A i \in 1..Len(Items') : Items'[i] = Append(Items, value)[i]
      BY <2>2, <2>3, <2>4, <3>1
    <3> QED BY <2>2, <3>2, <3>3, SameSequence
  <2>6. Len(Items) < Size - 1
    BY <1>0, <2>1, <2>2
  <2>7. Fifo!Put(value)
    BY <1>5, <2>5, <2>6 DEF EnqueuePublish, consumer, IInv, Synchronised, Fifo!Put
  <2> QED BY <2>1, <2>7 DEF Fifo!Next
<1>6. CASE DequeueCall
  <2>1. Fifo!CallDequeue
    BY <1>6, ItemsUnchanged
    DEF DequeueCall, producer, IInv, Synchronised, Fifo!CallDequeue
  <2> QED BY <2>1 DEF Fifo!Next
<1>7. CASE DequeueEmpty
  <2>1. PICK i \in Visible(tailMO, tailSeen) : h = tailMO[i]
    BY <1>7 DEF DequeueEmpty
  <2>2. WeakLoads \/ Items = <<>>
    <3>1. SUFFICES ASSUME ~WeakLoads PROVE nt = nh
      BY <1>0, <1>a DEF ItemsLayout
    <3>2. i = nt
      BY <2>1, <3>1 DEF Visible
    <3>3. Slot(nh) = Slot(nt)
      <4>1. nt \in 1..nt
        BY <1>0
      <4> QED BY <1>7, <2>1, <3>2, <4>1 DEF DequeueEmpty, IInv, Synchronised
    <3>4. ~(nh < nt)
      <4>1. nt - nh < Size
        BY <1>0
      <4> QED BY <1>0, <3>3, <4>1, SlotFacts
    <3> QED BY <1>0, <3>4
  <2>3. Items' = Items
    BY <1>7, ItemsUnchanged DEF DequeueEmpty
  <2>4. Fifo!Miss
    BY <1>7, <2>2, <2>3 DEF DequeueEmpty, producer, IInv, Synchronised, Fifo!Miss
  <2> QED BY <2>4 DEF Fifo!Next
<1>8. CASE DequeueSome
  BY <1>8, ItemsUnchanged DEF DequeueSome, producer, Fifo!vars
<1>9. CASE DequeueRead
  BY <1>9, ItemsUnchanged DEF DequeueRead, producer, Fifo!vars
<1>10. CASE DequeuePublish
  <2>1. /\ h = Slot(nh) /\ outValue = buffer[h] /\ nh < nt
        /\ nh' = nh + 1 /\ nt' = nt /\ buffer' = buffer
    BY <1>10, <1>0 DEF DequeuePublish, IInv, TypeOK, Synchronised
  <2>2. /\ Len(Items) = nt - nh /\ Len(Items') = nt - (nh + 1)
        /\ Items \in Seq(Values \cup {NoValue}) /\ Items' \in Seq(Values \cup {NoValue})
    BY <2>1, <1>a DEF ItemsLayout
  <2>3. Items # <<>> /\ Len(Tail(Items)) = Len(Items) - 1
    BY <1>0, <2>1, <2>2
  <2>4. Head(Items) = outValue
    <3>1. 1 \in 1..Len(Items) /\ nh + 1 - 1 = nh
      BY <1>0, <2>1, <2>2
    <3>2. Items[1] = buffer[Slot(nh)]
      BY <3>1, <1>a DEF ItemsLayout
    <3> QED BY <2>1, <2>3, <3>2
  <2>5. ASSUME NEW i \in 1..Len(Items') PROVE Items'[i] = Tail(Items)[i]
    <3>1. i + 1 \in 1..Len(Items) /\ nh' + i - 1 = nh + (i + 1) - 1
      BY <1>0, <2>1, <2>2, <2>5
    <3>2. Items'[i] = Items[i + 1]
      BY <2>1, <2>5, <3>1, <1>a DEF ItemsLayout
    <3>3. Tail(Items)[i] = Items[i + 1]
      BY <1>0, <2>1, <2>2, TailOf
    <3> QED BY <3>2, <3>3
  <2>6. Items' = Tail(Items)
    <3>1. Tail(Items) \in Seq(Values \cup {NoValue}) /\ Len(Tail(Items)) = Len(Items')
      BY <1>0, <2>1, <2>2, TailOf
    <3> QED BY <2>2, <2>5, <3>1, SameSequence
  <2>7. Fifo!Take
    BY <1>10, <2>3, <2>4, <2>6
    DEF DequeuePublish, producer, IInv, Synchronised, Fifo!Take
  <2> QED BY <2>7 DEF Fifo!Next
<1>11. CASE UNCHANGED vars
  BY <1>11, ItemsUnchanged DEF vars, producer, consumer, Fifo!vars
<1> QED
  BY <1>1, <1>2, <1>3, <1>4, <1>5, <1>6, <1>7, <1>8, <1>9, <1>10, <1>11
  DEF Next, Producer, Consumer, Fifo!Next

\* The lock-free ring implements the bounded first-in first-out queue.
THEOREM RefinesFifo == Spec => ImplementsFifo
<1>1. Init => Fifo!Init
  BY FifoInit
<1>2. IInv /\ IInv' /\ [Next]_vars => [Fifo!Next]_(Fifo!vars)
  BY FifoNext
<1> QED BY <1>1, <1>2, Invariance, PTL DEF Spec, ImplementsFifo, Fifo!Spec
=============================================================================
