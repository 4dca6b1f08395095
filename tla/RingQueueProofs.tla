-------------------------- MODULE RingQueueProofs --------------------------
(***************************************************************************)
(* Proofs about RingQueue for every ring size, index width, burst length   *)
(* and set of packets, when one thread uses each side: the indices and the *)
(* types first, then that RingQueue implements BoundedFifo.  The queue is  *)
(* the window of slots between the two tails; lemmas say what happens to a *)
(* window when its ends move and slots beyond are written.                 *)
(***************************************************************************)
EXTENDS RingQueue, FiniteSetTheorems, FunctionTheorems, SequenceTheorems, TLAPS

-----------------------------------------------------------------------------
(* Index arithmetic *)

\* Advancing an index keeps it an index (the wrap of a uint32_t).
LEMMA PlusType ==
  ASSUME NEW a \in Index, NEW n \in 0..Modulus
  PROVE  Plus(a, n) \in Index
BY SizeAssumption, ModulusAssumption DEF Index, Plus

\* A distance between indices is a natural number below the modulus.
LEMMA DistanceType ==
  ASSUME NEW a \in Index, NEW b \in Index
  PROVE  Distance(a, b) \in 0..(Modulus - 1)
BY SizeAssumption, ModulusAssumption DEF Index, Distance

\* Advancing the leading index lengthens the distance.
LEMMA AdvanceHead ==
  ASSUME NEW a \in Index, NEW b \in Index, NEW n \in Nat,
         Distance(a, b) + n < Modulus
  PROVE  Distance(a, Plus(b, n)) = Distance(a, b) + n
BY SizeAssumption, ModulusAssumption DEF Index, Plus, Distance

\* Advancing the trailing index shortens it.
LEMMA AdvanceTail ==
  ASSUME NEW a \in Index, NEW b \in Index, NEW n \in Nat, n <= Distance(a, b)
  PROVE  Distance(Plus(a, n), b) = Distance(a, b) - n
BY SizeAssumption, ModulusAssumption DEF Index, Plus, Distance

\* Following the distance from one index leads to the other.
LEMMA PlusDistance ==
  ASSUME NEW a \in Index, NEW b \in Index
  PROVE  Plus(a, Distance(a, b)) = b
BY SizeAssumption, ModulusAssumption DEF Index, Plus, Distance

\* Two advances are one, as long as they stay within one turn.
LEMMA PlusPlus ==
  ASSUME NEW a \in Index, NEW n \in Nat, NEW m \in Nat, n + m < Modulus
  PROVE  Plus(Plus(a, n), m) = Plus(a, n + m)
BY SizeAssumption, ModulusAssumption DEF Index, Plus

\* An index in the middle splits the distance.
LEMMA DistanceSplit ==
  ASSUME NEW a \in Index, NEW b \in Index, NEW c \in Index,
         Distance(a, b) <= Distance(a, c)
  PROVE  Distance(b, c) = Distance(a, c) - Distance(a, b)
BY SizeAssumption, ModulusAssumption DEF Index, Distance

\* The room a producer computes is what the ring has left.
LEMMA RoomLeft ==
  ASSUME NEW a \in Index, NEW b \in Index, Distance(a, b) <= Capacity
  PROVE  Distance(b, Plus(a, Capacity)) = Capacity - Distance(a, b)
BY SizeAssumption, ModulusAssumption DEF Index, Plus, Distance, Capacity

-----------------------------------------------------------------------------
(* Slots *)

\* The integer part and the remainder by the ring size.
LEMMA DivMod ==
  ASSUME NEW x \in Int
  PROVE  /\ x \div Size \in Int
         /\ x % Size \in 0..(Size - 1)
         /\ x = Size * (x \div Size) + (x % Size)
BY SizeAssumption

\* Numbers less than a ring apart and congruent are equal.
LEMMA Congruent ==
  ASSUME NEW x \in Int, NEW y \in Int, NEW k \in Int,
         y - x = Size * k, -Size < y - x, y - x < Size
  PROVE  x = y
<1>1. Size \in Nat /\ Size > 1
  BY SizeAssumption
<1>2. CASE k >= 1
  BY <1>1, <1>2
<1>3. CASE k <= -1
  BY <1>1, <1>3
<1>4. CASE k = 0
  BY <1>1, <1>4
<1> QED
  BY <1>2, <1>3, <1>4

\* Positions less than a ring apart, across the wrap too, are different
\* slots: the size divides the modulus.
LEMMA SlotsDistinct ==
  ASSUME NEW a \in Index, NEW j \in Nat, NEW k \in Nat, j < k, k < Size
  PROVE  Slot(Plus(a, j)) # Slot(Plus(a, k))
<1>1. Size \in Nat /\ Size > 1 /\ Modulus \in Nat /\ Modulus >= 2 * Size
  BY SizeAssumption, ModulusAssumption
<1> DEFINE x == Plus(a, j)
           y == Plus(a, k)
           w == Modulus \div Size
<1>2. x \in Int /\ y \in Int /\ a \in Int
  BY <1>1 DEF Plus, Index
<1>3. Modulus = Size * w /\ w \in Int
  BY <1>1, DivMod, ModulusAssumption
<1> SUFFICES ASSUME x % Size = y % Size
             PROVE  FALSE
  BY DEF Slot
<1>4. y - x = Size * (y \div Size - x \div Size)
  <2>1. x = Size * (x \div Size) + (x % Size) /\ x \div Size \in Int
    BY <1>2, DivMod
  <2>2. y = Size * (y \div Size) + (y % Size) /\ y \div Size \in Int
    BY <1>2, DivMod
  <2>3. x % Size \in Int
    BY <1>2, DivMod
  <2> QED
    BY <2>1, <2>2, <2>3, <1>1
<1>5. x \div Size \in Int /\ y \div Size \in Int
  BY <1>2, DivMod
<1> DEFINE q == y \div Size - x \div Size
<1>6. q \in Int /\ y - x = Size * q
  BY <1>4, <1>5
<1> HIDE DEF q
<1>7. CASE a + k < Modulus
  <2>1. y - x = k - j
    BY <1>7, <1>1, <1>2 DEF Plus
  <2>2. x = y
    BY <2>1, <1>1, <1>2, <1>6, Congruent
  <2> QED
    BY <2>1, <2>2, <1>2
<1>8. CASE a + k >= Modulus /\ a + j >= Modulus
  <2>1. y - x = k - j
    BY <1>8, <1>1, <1>2 DEF Plus
  <2>2. x = y
    BY <2>1, <1>1, <1>2, <1>6, Congruent
  <2> QED
    BY <2>1, <2>2, <1>2
<1>9. CASE a + k >= Modulus /\ a + j < Modulus
  <2>1. y - x = k - j - Size * w
    BY <1>9, <1>1, <1>2, <1>3 DEF Plus
  <2> DEFINE r == q + w
  <2>2. r \in Int /\ k - j = Size * r
    <3>1. Size * q + Size * w = Size * (q + w)
      BY <1>1, <1>3, <1>6
    <3>2. Size * q \in Int /\ Size * w \in Int
      BY <1>1, <1>3, <1>6
    <3> QED
      BY <2>1, <1>3, <1>6, <3>1, <3>2
  <2> HIDE DEF r
  <2>3. j = k
    BY <2>2, <1>1, Congruent
  <2> QED
    BY <2>3
<1> QED
  BY <1>1, <1>2, <1>7, <1>8, <1>9

-----------------------------------------------------------------------------
(* The invariant *)

Inv == TypeOK /\ IndicesOrdered /\ PromiseKept

\* The invariant holds in a ring just created.
LEMMA InitInv == Init => Inv
<1> SUFFICES ASSUME Init PROVE Inv
  OBVIOUS
<1>1. TypeOK
  BY SizeAssumption, ModulusAssumption DEF Init, TypeOK, Index, Content
<1>2. Distance(0, 0) = 0 /\ 0 \in Index
  BY SizeAssumption, ModulusAssumption DEF Distance, Index
<1>3. IndicesOrdered
  BY <1>2, SizeAssumption
     DEF Init, IndicesOrdered, ProducerPosition, ConsumerPosition, Capacity,
         Threads
<1>4. PromiseKept
  <2>1. FreeEntries(0) = Capacity
    BY <1>2, RoomLeft, SizeAssumption DEF Init, FreeEntries, Capacity
  <2>2. ReadyEntries(0) = 0
    BY <1>2 DEF Init, ReadyEntries
  <2> QED
    BY <2>1, <2>2, SizeAssumption DEF Init, PromiseKept, Threads, Capacity
<1> QED
  BY <1>1, <1>3, <1>4 DEF Inv

\* The room a producer sees, and the packets a consumer sees.
LEMMA Room ==
  ASSUME Inv
  PROVE  /\ FreeEntries(prodHead) = Capacity - Distance(consTail, prodHead)
         /\ FreeEntries(prodHead) \in 0..Capacity
         /\ FreeCount = Capacity - Distance(consTail, prodTail)
         /\ FreeCount \in 0..Capacity
         /\ ReadyEntries(consHead)
              = Distance(consTail, prodTail) - Distance(consTail, consHead)
         /\ ReadyEntries(consHead) \in 0..Capacity
<1>1. /\ Distance(consTail, prodHead) \in Nat
      /\ Distance(consTail, prodTail) \in Nat
      /\ Distance(consTail, consHead) \in Nat
  BY DistanceType DEF Inv, TypeOK
<1>2. Capacity \in Nat
  BY SizeAssumption DEF Capacity
<1>3. FreeEntries(prodHead) = Capacity - Distance(consTail, prodHead)
  BY RoomLeft DEF Inv, TypeOK, IndicesOrdered, FreeEntries
<1>4. FreeCount = Capacity - Distance(consTail, prodTail)
  BY <1>1, <1>2 DEF Inv, IndicesOrdered, FreeCount, AtMost
<1>5. ReadyEntries(consHead)
        = Distance(consTail, prodTail) - Distance(consTail, consHead)
  BY DistanceSplit DEF Inv, TypeOK, IndicesOrdered, ReadyEntries
<1> QED
  BY <1>1, <1>2, <1>3, <1>4, <1>5 DEF Inv, IndicesOrdered

\* available_count() leaves the indices alone and promises the room there is.
LEMMA ObserveRoomInv ==
  ASSUME OneThreadPerSide, Inv, NEW p \in Producers, ObserveRoom(p)
  PROVE  Inv'
<1>1. TypeOK'
  <2>1. FreeCount \in Nat
    BY Room, SizeAssumption DEF Capacity
  <2>2. (IF created THEN FreeCount ELSE 0) \in Nat
    BY <2>1
  <2>3. promise' = [promise EXCEPT ![p] = IF created THEN FreeCount ELSE 0]
    BY DEF ObserveRoom
  <2>4. promise' \in [Threads -> Nat]
    BY <2>2, <2>3 DEF Inv, TypeOK
  <2> QED
    BY <2>4 DEF Inv, TypeOK, ObserveRoom, indices
<1>2. IndicesOrdered'
  BY DEF Inv, IndicesOrdered, ProducerPosition, ConsumerPosition, ObserveRoom,
     indices, TypeOK, Threads, Capacity, Distance
<1>3. PromiseKept'
  <2>1. UNCHANGED <<stage, FreeEntries(prodHead), ReadyEntries(consHead)>>
    BY DEF ObserveRoom, indices, FreeEntries, ReadyEntries
  <2>2. promise'[p] <= FreeEntries(prodHead)
    BY Room, SizeAssumption
       DEF Inv, TypeOK, IndicesOrdered, ProducerPosition, ObserveRoom, Threads,
           Capacity
  <2>3. \A t \in Threads : t # p => promise'[t] = promise[t]
    BY DEF Inv, TypeOK, ObserveRoom
  <2> QED
    BY <2>1, <2>2, <2>3, ThreadAssumption DEF Inv, PromiseKept, Threads
<1> QED
  BY <1>1, <1>2, <1>3 DEF Inv

\* empty() leaves the indices alone and promises a packet only if one waits.
LEMMA ObserveEmptyInv ==
  ASSUME OneThreadPerSide, Inv, NEW c \in Consumers, ObserveEmpty(c)
  PROVE  Inv'
<1>1. TypeOK'
  BY DEF Inv, TypeOK, ObserveEmpty, indices, Threads
<1>2. IndicesOrdered'
  BY DEF Inv, IndicesOrdered, ProducerPosition, ConsumerPosition, ObserveEmpty,
     indices, TypeOK, Threads, Capacity, Distance
<1>3. PromiseKept'
  <2>1. UNCHANGED <<stage, FreeEntries(prodHead), ReadyEntries(consHead)>>
    BY DEF ObserveEmpty, indices, FreeEntries, ReadyEntries
  <2>2. promise'[c] <= ReadyEntries(consHead)
    <3>1. consHead = consTail /\ ReadyEntries(consHead) \in Nat
      BY Room, SizeAssumption
         DEF Inv, IndicesOrdered, ConsumerPosition, ObserveEmpty, Capacity
    <3>2. prodTail # consTail => ReadyEntries(consHead) > 0
      BY <3>1, ModulusAssumption, SizeAssumption
         DEF Inv, TypeOK, Index, ReadyEntries, Distance
    <3> QED
      BY <3>1, <3>2 DEF Inv, TypeOK, ObserveEmpty, Threads
  <2>3. \A t \in Threads : t # c => promise'[t] = promise[t]
    BY DEF Inv, TypeOK, ObserveEmpty
  <2> QED
    BY <2>1, <2>2, <2>3, ThreadAssumption DEF Inv, PromiseKept, Threads
<1> QED
  BY <1>1, <1>2, <1>3 DEF Inv

\* A reserved burst fits the room the producer saw.
LEMMA EnqueueReserveInv ==
  ASSUME OneThreadPerSide, Inv, NEW p \in Producers, EnqueueReserve(p)
  PROVE  Inv'
<1> DEFINE room == FreeEntries(prodHead)
<1>1. PICK b \in Bursts :
        /\ Reserve(p, prodHead, AtMost(Len(b), room))
        /\ burst' = [burst EXCEPT ![p] = b]
  BY DEF EnqueueReserve
<1>2. b \in Seq(Packets) /\ Len(b) \in Nat /\ Len(b) > 0
  BY BurstAssumption DEF Bursts
<1>3. /\ room \in Nat /\ room > 0
      /\ room = Capacity - Distance(consTail, prodHead)
  BY Room, SizeAssumption DEF EnqueueReserve, Capacity
<1>4. /\ AtMost(Len(b), room) \in Nat
      /\ AtMost(Len(b), room) > 0
      /\ AtMost(Len(b), room) <= Len(b)
      /\ AtMost(Len(b), room) <= room
  BY <1>2, <1>3 DEF AtMost
<1> HIDE DEF room
<1>5. b \in Seq(Content)
  BY <1>2 DEF Content
<1>6. TypeOK'
  BY <1>1, <1>4, <1>5
     DEF Inv, TypeOK, EnqueueReserve, Reserve, indices, Threads
<1>7. IndicesOrdered'
  <2>1. ProducerPosition(p)'
    BY <1>1, <1>3, <1>4, <1>2
       DEF Inv, TypeOK, IndicesOrdered, ProducerPosition, EnqueueReserve,
           Reserve, indices, Threads, Distance, Capacity
  <2>2. \A c \in Consumers : ConsumerPosition(c)'
    BY <1>1, ThreadAssumption
       DEF Inv, TypeOK, IndicesOrdered, ConsumerPosition, EnqueueReserve,
           Reserve, indices, Threads, Distance
  <2>3. UNCHANGED <<Distance(consTail, prodHead), Distance(consTail, consHead),
                    Distance(consTail, prodTail)>>
    BY DEF EnqueueReserve, indices, Distance
  <2> QED
    BY <2>1, <2>2, <2>3 DEF Inv, IndicesOrdered, OneThreadPerSide, Capacity
<1>8. PromiseKept'
  BY <1>1, ThreadAssumption
     DEF Inv, TypeOK, PromiseKept, EnqueueReserve, Reserve, indices, Threads,
         FreeEntries, ReadyEntries, OneThreadPerSide
<1> QED
  BY <1>6, <1>7, <1>8 DEF Inv

\* Moving the producer's head uses up the room it reserved.
LEMMA EnqueueClaimInv ==
  ASSUME OneThreadPerSide, Inv, NEW p \in Producers, EnqueueClaim(p)
  PROVE  Inv'
<1>1. /\ stage[p] = "claim" /\ start[p] = prodTail /\ prodHead = prodTail
      /\ count[p] \in Nat /\ count[p] > 0
      /\ count[p] <= Capacity - Distance(consTail, prodHead)
  BY DEF Inv, TypeOK, IndicesOrdered, ProducerPosition, EnqueueClaim, Threads
<1>2. Capacity \in Nat /\ Capacity < Modulus
  BY SizeAssumption, ModulusAssumption DEF Capacity
<1>3. /\ Distance(consTail, prodHead) \in Nat
      /\ Distance(consTail, prodTail) \in Nat
      /\ Distance(consTail, consHead) \in Nat
  BY DistanceType DEF Inv, TypeOK
<1>4. prodHead' = Plus(prodHead, count[p]) /\ prodHead' \in Index
  <2>1. count[p] \in 0..Modulus
    BY <1>1, <1>2, <1>3, ModulusAssumption
  <2> QED
    BY <1>1, <2>1, PlusType DEF EnqueueClaim, Inv, TypeOK
<1>5. Distance(consTail, prodHead') = Distance(consTail, prodHead) + count[p]
  BY <1>1, <1>2, <1>3, <1>4, AdvanceHead, ModulusAssumption DEF Inv, TypeOK
<1>6. Distance(prodTail, prodHead') = count[p]
  <2>1. Distance(prodTail, prodHead) = 0
    BY <1>1 DEF Distance, Inv, TypeOK, Index
  <2>2. 0 + count[p] < Modulus
    BY <1>1, <1>2, <1>3, ModulusAssumption
  <2> QED
    BY <1>1, <1>4, <2>1, <2>2, AdvanceHead DEF Inv, TypeOK
<1>7. TypeOK'
  BY <1>4 DEF Inv, TypeOK, EnqueueClaim, Threads
<1>8. IndicesOrdered'
  <2>1. ProducerPosition(p)'
    BY <1>1, <1>6
       DEF Inv, TypeOK, IndicesOrdered, ProducerPosition, EnqueueClaim, Threads
  <2>2. \A c \in Consumers : ConsumerPosition(c)'
    BY <1>1, ThreadAssumption
       DEF Inv, TypeOK, IndicesOrdered, ConsumerPosition, EnqueueClaim, Threads,
           Distance
  <2>3. UNCHANGED <<Distance(consTail, consHead), Distance(consTail, prodTail)>>
    BY DEF EnqueueClaim, Distance
  <2>4. Distance(consTail, prodHead)' = Distance(consTail, prodHead')
    BY DEF EnqueueClaim, Distance
  <2> QED
    BY <1>1, <1>2, <1>3, <1>5, <2>1, <2>2, <2>3, <2>4
       DEF Inv, IndicesOrdered, OneThreadPerSide, Capacity
<1>9. PromiseKept'
  BY ThreadAssumption
     DEF Inv, TypeOK, PromiseKept, EnqueueClaim, Threads, ReadyEntries,
         OneThreadPerSide
<1> QED
  BY <1>7, <1>8, <1>9 DEF Inv

\* Writing a slot moves no index.
LEMMA EnqueueCopyInv ==
  ASSUME OneThreadPerSide, Inv, NEW p \in Producers, EnqueueCopy(p)
  PROVE  Inv'
<1>1. /\ copied[p] \in Nat /\ count[p] \in Nat /\ copied[p] < count[p]
      /\ count[p] <= Len(burst[p]) /\ burst[p] \in Seq(Content)
  BY DEF Inv, TypeOK, IndicesOrdered, ProducerPosition, EnqueueCopy, Threads
<1>2. burst[p][copied[p] + 1] \in Content
  BY <1>1
<1>3. TypeOK'
  <2>1. ring' \in [0..(Size - 1) -> Content]
    <3> DEFINE s == Slot(Plus(start[p], copied[p]))
               k == burst[p][copied[p] + 1]
    <3>1. ring' = [ring EXCEPT ![s] = k]
      BY DEF EnqueueCopy
    <3>2. k \in Content /\ ring \in [0..(Size - 1) -> Content]
      BY <1>2 DEF Inv, TypeOK
    <3> HIDE DEF s, k
    <3> QED
      BY <3>1, <3>2
  <2>2. copied' \in [Threads -> Nat]
    <3>1. copied' = [copied EXCEPT ![p] = copied[p] + 1]
      BY DEF EnqueueCopy
    <3>2. copied \in [Threads -> Nat] /\ copied[p] + 1 \in Nat
      BY <1>1 DEF Inv, TypeOK
    <3> QED
      BY <3>1, <3>2
  <2> QED
    BY <2>1, <2>2 DEF Inv, TypeOK, EnqueueCopy, indices
<1>4. IndicesOrdered'
  <2>1. ProducerPosition(p)'
    BY <1>1
       DEF Inv, TypeOK, IndicesOrdered, ProducerPosition, EnqueueCopy, Threads,
           indices, Distance, Capacity
  <2>2. \A c \in Consumers : ConsumerPosition(c)'
    BY ThreadAssumption
       DEF Inv, TypeOK, IndicesOrdered, ConsumerPosition, EnqueueCopy, Threads,
           indices, Distance
  <2>3. UNCHANGED <<Distance(consTail, prodHead), Distance(consTail, consHead),
                    Distance(consTail, prodTail)>>
    BY DEF EnqueueCopy, indices, Distance
  <2> QED
    BY <2>1, <2>2, <2>3 DEF Inv, IndicesOrdered, OneThreadPerSide, Capacity
<1>5. PromiseKept'
  BY DEF Inv, PromiseKept, EnqueueCopy, indices, FreeEntries, ReadyEntries
<1> QED
  BY <1>3, <1>4, <1>5 DEF Inv

\* The locals of a call that returns have their types.
LEMMA ReturnType ==
  ASSUME TypeOK, NEW t \in Threads, Return(t)
  PROVE  /\ stage' \in [Threads -> {"idle", "claim", "copy"}]
         /\ start' \in [Threads -> Index]
         /\ count' \in [Threads -> Nat]
         /\ copied' \in [Threads -> Nat]
         /\ burst' \in [Threads -> Seq(Content)]
<1>1. 0 \in Index
  BY SizeAssumption, ModulusAssumption DEF Index
<1>2. <<>> \in Seq(Content)
  OBVIOUS
<1> QED
  BY <1>1, <1>2 DEF TypeOK, Return

\* Storing the tail brings it up to the head.
LEMMA EnqueuePublishInv ==
  ASSUME OneThreadPerSide, Inv, NEW p \in Producers, EnqueuePublish(p)
  PROVE  Inv'
<1>1. /\ stage[p] = "copy" /\ start[p] = prodTail
      /\ count[p] = Distance(prodTail, prodHead)
      /\ count[p] \in Nat /\ count[p] <= Len(burst[p])
      /\ burst[p] \in Seq(Content) /\ promise[p] = 0
  BY DEF Inv, TypeOK, IndicesOrdered, ProducerPosition, EnqueuePublish, Threads
<1>2. prodTail' = prodHead /\ prodTail' \in Index
  BY <1>1, PlusDistance DEF EnqueuePublish, Inv, TypeOK
<1>3. {burst[p][i] : i \in 1..count[p]} \subseteq Content
  BY <1>1
<1>4. TypeOK'
  <2>1. owed' \in SUBSET Content
    BY <1>3 DEF Inv, TypeOK, EnqueuePublish
  <2>2. /\ stage' \in [Threads -> {"idle", "claim", "copy"}]
        /\ start' \in [Threads -> Index]
        /\ count' \in [Threads -> Nat]
        /\ copied' \in [Threads -> Nat]
        /\ burst' \in [Threads -> Seq(Content)]
    BY ReturnType DEF Inv, EnqueuePublish, Threads
  <2> QED
    BY <1>2, <2>1, <2>2 DEF Inv, TypeOK, EnqueuePublish
<1>5. /\ Distance(consTail, prodHead) \in Nat
      /\ Distance(consTail, prodTail) \in Nat
      /\ Distance(consTail, consHead) \in Nat
  BY DistanceType DEF Inv, TypeOK
<1>6. /\ UNCHANGED <<Distance(consTail, prodHead), Distance(consTail, consHead)>>
      /\ Distance(consTail, prodTail)' = Distance(consTail, prodHead)
  BY <1>2 DEF EnqueuePublish, Distance
<1>7. IndicesOrdered'
  <2>1. ProducerPosition(p)'
    BY <1>1, <1>2
       DEF Inv, TypeOK, ProducerPosition, EnqueuePublish, Return, Threads
  <2>2. \A c \in Consumers : ConsumerPosition(c)'
    <3> SUFFICES ASSUME NEW c \in Consumers PROVE ConsumerPosition(c)'
      OBVIOUS
    <3>1. c # p /\ c \in Threads /\ ConsumerPosition(c)
      BY ThreadAssumption DEF Threads, Inv, IndicesOrdered
    <3>2. UNCHANGED <<stage[c], burst[c], start[c], count[c], copied[c],
                      promise[c], consHead, consTail>>
      BY <3>1 DEF Inv, TypeOK, EnqueuePublish, Return
    <3>3. stage[c] = "claim" => count[c] <= Distance(consHead, prodTail')
      <4> SUFFICES ASSUME stage[c] = "claim" PROVE count[c] <= Distance(consHead, prodTail')
        OBVIOUS
      <4>1. consHead = consTail /\ count[c] <= Distance(consTail, prodTail)
        BY <3>1 DEF ConsumerPosition
      <4>2. count[c] \in Nat
        BY <3>1 DEF Inv, TypeOK
      <4> QED
        BY <4>1, <4>2, <1>2, <1>5 DEF Inv, IndicesOrdered
    <3> QED
      BY <3>1, <3>2, <3>3 DEF ConsumerPosition, Distance
  <2> QED
    BY <1>5, <1>6, <2>1, <2>2, SizeAssumption
       DEF Inv, IndicesOrdered, OneThreadPerSide, Capacity
<1>8. PromiseKept'
  <2>1. promise' = promise /\ UNCHANGED FreeEntries(prodHead)
    BY DEF EnqueuePublish, FreeEntries
  <2>2. promise'[p] <= FreeEntries(prodHead)
    BY <1>1, <2>1, Room, SizeAssumption DEF Capacity
  <2>3. ReadyEntries(consHead)' >= ReadyEntries(consHead)
    <3>1. ReadyEntries(consHead)'
            = Distance(consTail, prodHead) - Distance(consTail, consHead)
      BY <1>2, <1>5, DistanceSplit
         DEF Inv, TypeOK, IndicesOrdered, ReadyEntries, EnqueuePublish, Return
    <3> QED
      BY <3>1, <1>5, Room DEF Inv, IndicesOrdered
  <2>4. \A c \in Consumers : stage'[c] = stage[c] /\ promise[c] \in Nat
    BY ThreadAssumption DEF Inv, TypeOK, EnqueuePublish, Return, Threads
  <2>5. ReadyEntries(consHead)' \in Int /\ ReadyEntries(consHead) \in Int
    BY <1>2, <1>5, Room, DistanceType, SizeAssumption
       DEF Inv, TypeOK, ReadyEntries, EnqueuePublish, Return, Capacity
  <2> QED
    BY <2>1, <2>2, <2>3, <2>4, <2>5 DEF Inv, PromiseKept, OneThreadPerSide
<1> QED
  BY <1>4, <1>7, <1>8 DEF Inv

\* A dequeue sizes its burst by the packets it saw.
LEMMA DequeueReserveInv ==
  ASSUME OneThreadPerSide, Inv, NEW c \in Consumers, DequeueReserve(c)
  PROVE  Inv'
<1> DEFINE ready == ReadyEntries(consHead)
<1>1. PICK m \in 1..MaxBurst : Reserve(c, consHead, AtMost(m, ready))
  BY DEF DequeueReserve
<1>2. ready \in Nat /\ ready > 0 /\ ready = Distance(consHead, prodTail)
  BY Room, SizeAssumption DEF DequeueReserve, Capacity, ReadyEntries
<1>3. /\ AtMost(m, ready) \in Nat
      /\ AtMost(m, ready) > 0
      /\ AtMost(m, ready) <= ready
  BY <1>2, BurstAssumption DEF AtMost
<1> HIDE DEF ready
<1>4. TypeOK'
  BY <1>1, <1>3 DEF Inv, TypeOK, DequeueReserve, Reserve, indices, Threads
<1>5. IndicesOrdered'
  <2>1. ConsumerPosition(c)'
    BY <1>1, <1>2, <1>3
       DEF Inv, TypeOK, IndicesOrdered, ConsumerPosition, DequeueReserve,
           Reserve, indices, Threads, Distance
  <2>2. \A p \in Producers : ProducerPosition(p)'
    BY <1>1, ThreadAssumption
       DEF Inv, TypeOK, IndicesOrdered, ProducerPosition, DequeueReserve,
           Reserve, indices, Threads, Distance, Capacity
  <2>3. UNCHANGED <<Distance(consTail, prodHead), Distance(consTail, consHead),
                    Distance(consTail, prodTail)>>
    BY DEF DequeueReserve, indices, Distance
  <2> QED
    BY <2>1, <2>2, <2>3 DEF Inv, IndicesOrdered, OneThreadPerSide, Capacity
<1>6. PromiseKept'
  BY <1>1, ThreadAssumption
     DEF Inv, TypeOK, PromiseKept, DequeueReserve, Reserve, indices, Threads,
         FreeEntries, ReadyEntries, OneThreadPerSide
<1> QED
  BY <1>4, <1>5, <1>6 DEF Inv

\* Moving the consumer's head stays behind the published packets.
LEMMA DequeueClaimInv ==
  ASSUME OneThreadPerSide, Inv, NEW c \in Consumers, DequeueClaim(c)
  PROVE  Inv'
<1>1. /\ stage[c] = "claim" /\ start[c] = consTail /\ consHead = consTail
      /\ count[c] \in Nat /\ count[c] > 0
      /\ count[c] <= Distance(consTail, prodTail)
  BY DEF Inv, TypeOK, IndicesOrdered, ConsumerPosition, DequeueClaim, Threads
<1>2. /\ Distance(consTail, prodHead) \in Nat
      /\ Distance(consTail, prodTail) \in 0..(Modulus - 1)
      /\ Distance(consTail, consHead) = 0
  BY <1>1, DistanceType DEF Inv, TypeOK, Distance, Index
<1>3. consHead' = Plus(consHead, count[c]) /\ consHead' \in Index
  <2>1. count[c] \in 0..Modulus
    BY <1>1, <1>2, ModulusAssumption
  <2> QED
    BY <1>1, <2>1, PlusType DEF DequeueClaim, Inv, TypeOK
<1>4. Distance(consTail, consHead') = count[c]
  <2>1. 0 + count[c] < Modulus
    BY <1>1, <1>2, ModulusAssumption
  <2> QED
    BY <1>1, <1>2, <1>3, <2>1, AdvanceHead DEF Inv, TypeOK
<1>5. TypeOK'
  BY <1>3 DEF Inv, TypeOK, DequeueClaim, Threads
<1>6. IndicesOrdered'
  <2>1. ConsumerPosition(c)'
    BY <1>1, <1>4
       DEF Inv, TypeOK, IndicesOrdered, ConsumerPosition, DequeueClaim, Threads
  <2>2. \A p \in Producers : ProducerPosition(p)'
    BY ThreadAssumption
       DEF Inv, TypeOK, IndicesOrdered, ProducerPosition, DequeueClaim, Threads,
           Distance, Capacity
  <2>3. UNCHANGED <<Distance(consTail, prodHead), Distance(consTail, prodTail)>>
    BY DEF DequeueClaim, Distance
  <2>4. Distance(consTail, consHead)' = Distance(consTail, consHead')
    BY DEF DequeueClaim, Distance
  <2> QED
    BY <1>1, <1>4, <2>1, <2>2, <2>3, <2>4
       DEF Inv, IndicesOrdered, OneThreadPerSide, Capacity
<1>7. PromiseKept'
  BY ThreadAssumption
     DEF Inv, TypeOK, PromiseKept, DequeueClaim, Threads, FreeEntries,
         OneThreadPerSide
<1> QED
  BY <1>5, <1>6, <1>7 DEF Inv

\* Reading a slot moves no index.
LEMMA DequeueCopyInv ==
  ASSUME OneThreadPerSide, Inv, NEW c \in Consumers, DequeueCopy(c)
  PROVE  Inv'
<1> DEFINE k == ring[Slot(Plus(start[c], copied[c]))]
<1>1. /\ copied[c] \in Nat /\ count[c] \in Nat /\ copied[c] < count[c]
      /\ Len(burst[c]) = copied[c] /\ burst[c] \in Seq(Content)
      /\ start[c] \in Index /\ count[c] = Distance(consTail, consHead)
      /\ stage[c] = "copy"
  BY DEF Inv, TypeOK, IndicesOrdered, ConsumerPosition, DequeueCopy, Threads
<1>2. Plus(start[c], copied[c]) \in Int
  BY <1>1, ModulusAssumption DEF Plus, Index
<1>3. k \in Content
  BY <1>2, DivMod DEF Slot, Inv, TypeOK
<1>4. /\ burst' = [burst EXCEPT ![c] = Append(burst[c], k)]
      /\ copied' = [copied EXCEPT ![c] = copied[c] + 1]
      /\ UNCHANGED <<created, indices, ring, stage, start, count, promise, owed,
                      delivered>>
  BY DEF DequeueCopy
<1> HIDE DEF k
<1>5. Append(burst[c], k) \in Seq(Content) /\ Len(Append(burst[c], k)) = copied[c] + 1
  BY <1>1, <1>3
<1>6. TypeOK'
  <2>1. burst' \in [Threads -> Seq(Content)]
    <3>1. burst \in [Threads -> Seq(Content)]
      BY DEF Inv, TypeOK
    <3> QED
      BY <3>1, <1>4, <1>5
  <2>2. copied' \in [Threads -> Nat]
    <3>1. copied \in [Threads -> Nat] /\ copied[c] + 1 \in Nat
      BY <1>1 DEF Inv, TypeOK
    <3> QED
      BY <3>1, <1>4
  <2> QED
    BY <1>4, <2>1, <2>2 DEF Inv, TypeOK, indices
<1>7. IndicesOrdered'
  <2>1. ConsumerPosition(c)'
    BY <1>1, <1>4, <1>5
       DEF Inv, TypeOK, IndicesOrdered, ConsumerPosition, Threads, indices,
           Distance
  <2>2. \A p \in Producers : ProducerPosition(p)'
    BY <1>4, ThreadAssumption
       DEF Inv, TypeOK, IndicesOrdered, ProducerPosition, Threads, indices,
           Distance, Capacity
  <2>3. UNCHANGED <<Distance(consTail, prodHead), Distance(consTail, consHead),
                    Distance(consTail, prodTail)>>
    BY <1>4 DEF indices, Distance
  <2> QED
    BY <2>1, <2>2, <2>3 DEF Inv, IndicesOrdered, OneThreadPerSide, Capacity
<1>8. PromiseKept'
  BY <1>4 DEF Inv, PromiseKept, indices, FreeEntries, ReadyEntries
<1> QED
  BY <1>6, <1>7, <1>8 DEF Inv

\* Storing the consumer's tail frees the slots it has read.
LEMMA DequeuePublishInv ==
  ASSUME OneThreadPerSide, Inv, NEW c \in Consumers, DequeuePublish(c)
  PROVE  Inv'
<1>1. /\ stage[c] = "copy" /\ start[c] = consTail
      /\ count[c] = Distance(consTail, consHead)
      /\ burst[c] \in Seq(Content) /\ promise[c] = 0
  BY DEF Inv, TypeOK, IndicesOrdered, ConsumerPosition, DequeuePublish, Threads
<1>2. consTail' = consHead /\ consTail' \in Index
  BY <1>1, PlusDistance DEF DequeuePublish, Inv, TypeOK
<1>3. TypeOK'
  <2>1. owed' \in SUBSET Content /\ delivered' \in Seq(Content)
    BY <1>1 DEF Inv, TypeOK, DequeuePublish
  <2>2. /\ stage' \in [Threads -> {"idle", "claim", "copy"}]
        /\ start' \in [Threads -> Index]
        /\ count' \in [Threads -> Nat]
        /\ copied' \in [Threads -> Nat]
        /\ burst' \in [Threads -> Seq(Content)]
    BY ReturnType DEF Inv, DequeuePublish, Threads
  <2> QED
    BY <1>2, <2>1, <2>2 DEF Inv, TypeOK, DequeuePublish
<1>4. /\ Distance(consTail, prodHead) \in Nat
      /\ Distance(consTail, prodTail) \in Nat
      /\ Distance(consTail, consHead) \in Nat
  BY DistanceType DEF Inv, TypeOK
<1>5. /\ Distance(consTail, prodHead)'
           = Distance(consTail, prodHead) - Distance(consTail, consHead)
      /\ Distance(consTail, prodTail)'
           = Distance(consTail, prodTail) - Distance(consTail, consHead)
      /\ Distance(consTail, consHead)' = 0
  <2>1. /\ Distance(consTail, prodHead)' = Distance(consHead, prodHead)
        /\ Distance(consTail, prodTail)' = Distance(consHead, prodTail)
        /\ Distance(consTail, consHead)' = Distance(consHead, consHead)
    BY <1>2 DEF DequeuePublish, Distance
  <2>2. Distance(consHead, consHead) = 0
    BY DEF Distance, Inv, TypeOK, Index
  <2>3. Distance(consTail, consHead) <= Distance(consTail, prodHead)
    BY <1>4 DEF Inv, IndicesOrdered
  <2> QED
    BY <2>1, <2>2, <2>3, DistanceSplit DEF Inv, TypeOK, IndicesOrdered
<1>6. IndicesOrdered'
  <2>1. ConsumerPosition(c)'
    BY <1>1, <1>2
       DEF Inv, TypeOK, ConsumerPosition, DequeuePublish, Return, Threads
  <2>2. \A p \in Producers : ProducerPosition(p)'
    <3> SUFFICES ASSUME NEW p \in Producers PROVE ProducerPosition(p)'
      OBVIOUS
    <3>1. c # p /\ p \in Threads /\ ProducerPosition(p)
      BY ThreadAssumption DEF Threads, Inv, IndicesOrdered
    <3>2. UNCHANGED <<stage[p], burst[p], start[p], count[p], copied[p],
                      promise[p], prodHead, prodTail>>
      BY <3>1 DEF Inv, TypeOK, DequeuePublish, Return
    <3>3. stage[p] = "claim" => count[p] <= Capacity - Distance(consTail, prodHead)'
      BY <1>4, <1>5, <3>1, SizeAssumption
         DEF ProducerPosition, Inv, TypeOK, Capacity
    <3> QED
      BY <3>1, <3>2, <3>3 DEF ProducerPosition, Distance, Capacity
  <2> QED
    BY <1>4, <1>5, <2>1, <2>2, SizeAssumption
       DEF Inv, IndicesOrdered, OneThreadPerSide, Capacity
<1>7. PromiseKept'
  <2>1. promise' = promise
    BY DEF DequeuePublish
  <2>2. FreeEntries(prodHead)' = Capacity - Distance(consTail, prodHead)'
    <3>1. Distance(consHead, prodHead) <= Capacity
      BY <1>2, <1>4, <1>5, SizeAssumption
         DEF Inv, IndicesOrdered, DequeuePublish, Distance, Capacity
    <3>2. FreeEntries(prodHead)' = Distance(prodHead, Plus(consHead, Capacity))
      BY <1>2 DEF DequeuePublish, FreeEntries, Distance, Plus, Capacity
    <3>3. Distance(consTail, prodHead)' = Distance(consHead, prodHead)
      BY <1>2 DEF DequeuePublish, Distance
    <3> QED
      BY <3>1, <3>2, <3>3, RoomLeft DEF Inv, TypeOK
  <2>3. ReadyEntries(consHead)' = ReadyEntries(consHead)
    BY DEF DequeuePublish, ReadyEntries, Distance
  <2>4. \A p \in Producers : stage'[p] = stage[p] /\ promise[p] \in Nat
    BY ThreadAssumption DEF Inv, TypeOK, DequeuePublish, Return, Threads
  <2>5. promise'[c] <= ReadyEntries(consHead)
    BY <1>1, <2>1, Room, SizeAssumption DEF Capacity
  <2> QED
    BY <1>4, <1>5, <2>1, <2>2, <2>3, <2>4, <2>5, Room, SizeAssumption
       DEF Inv, PromiseKept, OneThreadPerSide, Capacity
<1> QED
  BY <1>3, <1>6, <1>7 DEF Inv

\* Every step keeps the invariant.
LEMMA NextInv ==
  ASSUME OneThreadPerSide, Inv, [Next]_vars
  PROVE  Inv'
<1>1. CASE UNCHANGED vars
  BY <1>1
     DEF vars, indices, Inv, TypeOK, IndicesOrdered, PromiseKept,
         ProducerPosition, ConsumerPosition, FreeEntries, ReadyEntries
<1>2. ASSUME NEW p \in Producers,
             ObserveRoom(p) \/ EnqueueReserve(p) \/ EnqueueStep(p)
      PROVE  Inv'
  BY <1>2, ObserveRoomInv, EnqueueReserveInv, EnqueueClaimInv, EnqueueCopyInv,
     EnqueuePublishInv DEF EnqueueStep
<1>3. ASSUME NEW c \in Consumers, ObserveEmpty(c) \/ DequeueStep(c)
      PROVE  Inv'
  BY <1>3, ObserveEmptyInv, DequeueReserveInv, DequeueClaimInv, DequeueCopyInv,
     DequeuePublishInv DEF DequeueStep
<1> QED
  BY <1>1, <1>2, <1>3 DEF Next

\* With one thread on each side, every reachable state satisfies the invariant.
THEOREM Invariance == OneThreadPerSide /\ Spec => []Inv
<1> SUFFICES ASSUME OneThreadPerSide PROVE Spec => []Inv
  OBVIOUS
<1>1. Init => Inv
  BY InitInv
<1>2. Inv /\ [Next]_vars => Inv'
  BY NextInv
<1> QED
  BY <1>1, <1>2, PTL DEF Spec

-----------------------------------------------------------------------------
(* What follows from it *)

\* Indices stay within their width, slots hold packets, and the locals of
\* enqueue_burst and dequeue_burst are of their types.
THEOREM TypeCorrect == OneThreadPerSide /\ Spec => []TypeOK
BY Invariance, PTL DEF Inv

\* The four indices keep their cyclic order at most Capacity apart.
THEOREM IndicesOrderedAlways == OneThreadPerSide /\ Spec => []IndicesOrdered
BY Invariance, PTL DEF Inv

\* What available_count() and empty() answered is still true when used.
THEOREM PromiseKeptAlways == OneThreadPerSide /\ Spec => []PromiseKept
BY Invariance, PTL DEF Inv

\* A slot to be written lies beyond the published packets and a slot to be
\* read within them, less than a ring apart.
LEMMA RaceFreeStep == Inv => CopiesNeverRace
<1> SUFFICES ASSUME Inv, NEW p \in Producers, NEW c \in Consumers,
                    stage[p] = "copy", stage[c] = "copy",
                    NEW i \in copied[p]..(count[p] - 1),
                    NEW j \in copied[c]..(count[c] - 1)
             PROVE  Slot(Plus(start[p], i)) # Slot(Plus(start[c], j))
  BY DEF CopiesNeverRace, Writes, Reads
<1> DEFINE q == Distance(consTail, prodTail)
<1>1. /\ start[p] = prodTail /\ count[p] = Distance(prodTail, prodHead)
      /\ start[c] = consTail /\ count[c] = Distance(consTail, consHead)
      /\ copied[p] \in Nat /\ copied[c] \in Nat
      /\ count[p] \in Nat /\ count[c] \in Nat
  BY DEF Inv, TypeOK, IndicesOrdered, ProducerPosition, ConsumerPosition, Threads
<1>2. i \in Nat /\ i < count[p] /\ j \in Nat /\ j < count[c]
  BY <1>1
<1>3. /\ q \in Nat
      /\ Distance(consTail, prodHead) \in Nat
      /\ Distance(consTail, prodHead) <= Capacity
      /\ count[p] = Distance(consTail, prodHead) - q
      /\ count[c] <= q
  BY <1>1, DistanceType, DistanceSplit DEF Inv, TypeOK, IndicesOrdered
<1>4. Plus(consTail, q) = prodTail
  BY PlusDistance DEF Inv, TypeOK
<1> HIDE DEF q
<1>5. j < q + i /\ q + i < Size /\ q + i < Modulus
  BY <1>1, <1>2, <1>3, SizeAssumption, ModulusAssumption DEF Capacity
<1>6. Plus(start[p], i) = Plus(consTail, q + i)
  BY <1>1, <1>2, <1>3, <1>4, <1>5, PlusPlus DEF Inv, TypeOK
<1>7. Slot(Plus(consTail, j)) # Slot(Plus(consTail, q + i))
  BY <1>2, <1>3, <1>5, SlotsDistinct DEF Inv, TypeOK
<1> QED
  BY <1>1, <1>6, <1>7

\* The two sides of the ring never touch the same slot: enqueue_burst never
\* overwrites a pointer that dequeue_burst has yet to read.
THEOREM RaceFree == OneThreadPerSide /\ Spec => []CopiesNeverRace
BY Invariance, RaceFreeStep, PTL

-----------------------------------------------------------------------------
(* The refinement *)

Slots == 0..(Size - 1)

Window(r, a, b) == [i \in 1..Distance(a, b) |-> r[Slot(Plus(a, i - 1))]]

\* Every position has a slot.
LEMMA SlotType ==
  ASSUME NEW a \in Index, NEW n \in Nat
  PROVE  Slot(Plus(a, n)) \in Slots
  <1>1. Plus(a, n) \in Int
    BY ModulusAssumption DEF Plus, Index
  <1> QED BY <1>1, DivMod DEF Slot, Slots

\* A window is the sequence of what its slots hold.
LEMMA WindowIs ==
  ASSUME NEW r \in [Slots -> Content], NEW a \in Index, NEW b \in Index
  PROVE  /\ Window(r, a, b) \in Seq(Content)
         /\ Len(Window(r, a, b)) = Distance(a, b)
         /\ Distance(a, b) \in Nat
         /\ \A i \in 1..Distance(a, b) :
              Window(r, a, b)[i] = r[Slot(Plus(a, i - 1))]
  <1>1. Distance(a, b) \in Nat
    BY DistanceType, ModulusAssumption
  <1>2. ASSUME NEW i \in 1..Distance(a, b)
        PROVE  r[Slot(Plus(a, i - 1))] \in Content
    <2>1. i - 1 \in Nat
      BY <1>1
    <2>2. Slot(Plus(a, i - 1)) \in Slots
      BY <2>1, SlotType
    <2> QED BY <2>2
  <1>3. Window(r, a, b) \in [1..Distance(a, b) -> Content]
    BY <1>2 DEF Window
  <1> HIDE DEF Window
  <1>4. Window(r, a, b) \in Seq(Content) /\ Len(Window(r, a, b)) = Distance(a, b)
    BY <1>1, <1>3
  <1> QED BY <1>1, <1>4 DEF Window

\* Moving the leading end on appends what the slots behind it hold.
LEMMA Extended ==
  ASSUME NEW r \in [Slots -> Content], NEW a \in Index, NEW b \in Index,
         NEW n \in Nat, Distance(a, b) + n < Modulus
  PROVE  /\ Distance(a, Plus(b, n)) = Distance(a, b) + n
         /\ \A i \in 1..Distance(a, b) :
              Window(r, a, Plus(b, n))[i] = Window(r, a, b)[i]
         /\ \A i \in 1..n :
              Window(r, a, Plus(b, n))[Distance(a, b) + i] =
                r[Slot(Plus(b, i - 1))]
  <1> DEFINE d == Distance(a, b)
  <1>1. d \in Nat /\ Modulus \in Nat
    BY DistanceType, ModulusAssumption
  <1>2. Plus(b, n) \in Index
    BY <1>1, PlusType
  <1>3. Distance(a, Plus(b, n)) = d + n
    BY AdvanceHead
  <1>4. \A i \in 1..(d + n) :
          Window(r, a, Plus(b, n))[i] = r[Slot(Plus(a, i - 1))]
    <2> DEFINE e == Plus(b, n)
    <2>1. e \in Index /\ Distance(a, e) = d + n
      BY <1>2, <1>3
    <2> HIDE DEF e, d
    <2>2. \A i \in 1..Distance(a, e) : Window(r, a, e)[i] = r[Slot(Plus(a, i - 1))]
      BY <2>1, WindowIs
    <2> QED BY <2>1, <2>2 DEF e
  <1>5. \A i \in 1..d : Window(r, a, b)[i] = r[Slot(Plus(a, i - 1))]
    BY WindowIs
  <1>6. ASSUME NEW i \in 1..n
        PROVE  Plus(a, (d + i) - 1) = Plus(b, i - 1)
    <2>1. i - 1 \in Nat /\ d + (i - 1) < Modulus /\ d + (i - 1) = (d + i) - 1
      BY <1>1
    <2>2. Plus(Plus(a, d), i - 1) = Plus(a, d + (i - 1))
      BY <1>1, <2>1, PlusPlus
    <2>3. Plus(a, d) = b
      BY PlusDistance
    <2> QED BY <2>1, <2>2, <2>3
  <1> HIDE DEF d
  <1>7. \A i \in 1..n : d + i \in 1..(d + n)
    BY <1>1
  <1>8. ASSUME NEW i \in 1..n
        PROVE  Window(r, a, Plus(b, n))[d + i] = r[Slot(Plus(b, i - 1))]
    <2>1. Window(r, a, Plus(b, n))[d + i] = r[Slot(Plus(a, (d + i) - 1))]
      BY <1>4, <1>7, Zenon
    <2> QED BY <2>1, <1>6
  <1>9. \A i \in 1..d : Window(r, a, Plus(b, n))[i] = Window(r, a, b)[i]
    BY <1>1, <1>4, <1>5
  <1> QED BY <1>3, <1>8, <1>9 DEF d

\* Moving the trailing end on removes the first packets.
LEMMA Shortened ==
  ASSUME NEW r \in [Slots -> Content], NEW a \in Index, NEW b \in Index,
         NEW n \in Nat, n <= Distance(a, b)
  PROVE  /\ Distance(Plus(a, n), b) = Distance(a, b) - n
         /\ \A i \in 1..(Distance(a, b) - n) :
              Window(r, Plus(a, n), b)[i] = Window(r, a, b)[n + i]
  <1> DEFINE d == Distance(a, b)
  <1>1. d \in Nat /\ d < Modulus /\ Modulus \in Nat
    BY DistanceType, ModulusAssumption
  <1>2. Plus(a, n) \in Index
    BY <1>1, PlusType
  <1>3. Distance(Plus(a, n), b) = d - n
    BY AdvanceTail
  <1>4. \A i \in 1..(d - n) :
          Window(r, Plus(a, n), b)[i] = r[Slot(Plus(Plus(a, n), i - 1))]
    <2> DEFINE e == Plus(a, n)
    <2>1. e \in Index /\ Distance(e, b) = d - n
      BY <1>2, <1>3
    <2> HIDE DEF e, d
    <2>2. \A i \in 1..Distance(e, b) : Window(r, e, b)[i] = r[Slot(Plus(e, i - 1))]
      BY <2>1, WindowIs
    <2> QED BY <2>1, <2>2 DEF e
  <1>5. \A i \in 1..d : Window(r, a, b)[i] = r[Slot(Plus(a, i - 1))]
    BY WindowIs
  <1>6. ASSUME NEW i \in 1..(d - n)
        PROVE  Plus(Plus(a, n), i - 1) = Plus(a, (n + i) - 1)
    <2>1. i - 1 \in Nat /\ n + (i - 1) < Modulus /\ n + (i - 1) = (n + i) - 1
      BY <1>1
    <2> QED BY <2>1, PlusPlus
  <1> HIDE DEF d
  <1>7. \A i \in 1..(d - n) : n + i \in 1..d
    BY <1>1
  <1>8. \A i \in 1..(d - n) : Window(r, Plus(a, n), b)[i] = Window(r, a, b)[n + i]
    BY <1>4, <1>5, <1>6, <1>7
  <1> QED BY <1>3, <1>8 DEF d

\* Writing a slot beyond a window, less than a ring from its start, leaves it.
LEMMA Untouched ==
  ASSUME NEW r, NEW q, NEW a \in Index, NEW b \in Index,
         NEW k \in Nat, Distance(a, b) <= k, k < Size,
         \A s \in Slots \ {Slot(Plus(a, k))} : q[s] = r[s]
  PROVE  Window(q, a, b) = Window(r, a, b)
  <1>1. Distance(a, b) \in Nat
    BY DistanceType, ModulusAssumption
  <1> SUFFICES ASSUME NEW i \in 1..Distance(a, b)
               PROVE  q[Slot(Plus(a, i - 1))] = r[Slot(Plus(a, i - 1))]
    BY DEF Window
  <1>2. i - 1 \in Nat /\ i - 1 < k
    BY <1>1
  <1>3. Slot(Plus(a, i - 1)) # Slot(Plus(a, k))
    BY <1>2, SlotsDistinct
  <1>4. Slot(Plus(a, i - 1)) \in Slots
    BY <1>2, SlotType
  <1> QED BY <1>3, <1>4

-----------------------------------------------------------------------------
(* Sequences *)

\* A sequence that is longer and agrees is a strict extension.
LEMMA Grown ==
  ASSUME NEW S, NEW s \in Seq(S), NEW t \in Seq(S), Len(s) < Len(t),
         \A i \in 1..Len(s) : t[i] = s[i]
  PROVE  IsStrictPrefix(s, t)
  <1> DEFINE u == SubSeq(t, 1, Len(s))
  <1>1. /\ u \in Seq(S) /\ Len(u) = Len(s)
        /\ \A i \in 1..Len(s) : u[i] = t[i]
    OBVIOUS
  <1> HIDE DEF u
  <1>2. u = s
    BY <1>1, SeqEqual
  <1>3. SubSeq(s, 1, Len(s)) = s
    BY SubSeqFull
  <1> QED BY <1>2, <1>3 DEF u, IsStrictPrefix, IsPrefix

\* A sequence that agrees with the start of another is a part of it,
LEMMA FirstPart ==
  ASSUME NEW S, NEW s \in Seq(S), NEW t \in Seq(S), Len(t) <= Len(s),
         \A i \in 1..Len(t) : t[i] = s[i]
  PROVE  t = SubSeq(s, 1, Len(t))
  <1> DEFINE u == SubSeq(s, 1, Len(t))
  <1>1. /\ u \in Seq(S) /\ Len(u) = Len(t)
        /\ \A i \in 1..Len(t) : u[i] = s[i]
    OBVIOUS
  <1> HIDE DEF u
  <1>2. u = t
    BY <1>1, SeqEqual
  <1> QED BY <1>2 DEF u

\* and so is one that agrees with the end.
LEMMA LastPart ==
  ASSUME NEW S, NEW s \in Seq(S), NEW t \in Seq(S), NEW n \in 0..Len(s),
         Len(t) = Len(s) - n, \A i \in 1..Len(t) : t[i] = s[n + i]
  PROVE  t = SubSeq(s, n + 1, Len(s))
  <1> DEFINE u == SubSeq(s, n + 1, Len(s))
  <1>1. /\ u \in Seq(S) /\ Len(u) = Len(s) - n
        /\ \A i \in 1..(Len(s) - n) : u[i] = s[n + i]
    OBVIOUS
  <1> HIDE DEF u
  <1>2. u = t
    BY <1>1, SeqEqual
  <1> QED BY <1>2 DEF u

\* Packets that are new, appended, leave every packet once.
LEMMA Appended ==
  ASSUME NEW S, NEW s \in Seq(S), NEW t \in Seq(S), NEW b \in Seq(S),
         NEW n \in 1..Len(b), Len(t) = Len(s) + n,
         \A i \in 1..Len(s) : t[i] = s[i],
         \A i \in 1..n : t[Len(s) + i] = b[i],
         IsInjective(s), IsInjective(b), ToSet(b) \cap ToSet(s) = {}
  PROVE  /\ IsInjective(t)
         /\ \A x : x \in ToSet(t) <=>
                   x \in ToSet(s) \/ \E i \in 1..n : x = b[i]
  <1> DEFINE d == Len(s)
  <1>1. /\ d \in Nat /\ n \in Nat /\ Len(b) \in Nat /\ n <= Len(b)
        /\ DOMAIN s = 1..d /\ DOMAIN t = 1..(d + n) /\ DOMAIN b = 1..Len(b)
    OBVIOUS
  <1>2. ToSet(s) = {s[i] : i \in 1..d} /\ ToSet(t) = {t[i] : i \in 1..(d + n)}
        /\ ToSet(b) = {b[i] : i \in 1..Len(b)}
    BY <1>1 DEF ToSet
  <1>3. /\ \A i \in 1..d : t[i] = s[i]
        /\ \A i \in 1..n : t[d + i] = b[i] /\ b[i] \in ToSet(b)
        /\ \A i \in 1..d : s[i] \in ToSet(s)
    BY <1>1, <1>2
  <1>4. \A i, j \in 1..d : s[i] = s[j] => i = j
    BY <1>1 DEF IsInjective
  <1>5. \A i, j \in 1..n : b[i] = b[j] => i = j
    <2>1. \A i \in 1..n : i \in DOMAIN b
      BY <1>1
    <2> QED BY <2>1 DEF IsInjective
  <1> HIDE DEF d
  <1>6. \A i \in 1..(d + n) : i \in 1..d \/ \E j \in 1..n : i = d + j
    <2> SUFFICES ASSUME NEW i \in 1..(d + n), i \notin 1..d
                 PROVE  \E j \in 1..n : i = d + j
      OBVIOUS
    <2>1. i - d \in 1..n /\ i = d + (i - d)
      BY <1>1
    <2> QED BY <2>1
  <1>7. IsInjective(t)
    <2> SUFFICES ASSUME NEW i \in 1..(d + n), NEW j \in 1..(d + n), t[i] = t[j]
                 PROVE  i = j
      BY <1>1 DEF IsInjective
    <2>1. CASE i \in 1..d /\ j \in 1..d
      BY <1>3, <1>4, <2>1
    <2>2. CASE i \in 1..d /\ j \notin 1..d
      <3>1. PICK m \in 1..n : j = d + m
        BY <1>6, <2>2
      <3> QED BY <1>3, <2>2, <3>1
    <2>3. CASE i \notin 1..d /\ j \in 1..d
      <3>1. PICK m \in 1..n : i = d + m
        BY <1>6, <2>3
      <3> QED BY <1>3, <2>3, <3>1
    <2>4. CASE i \notin 1..d /\ j \notin 1..d
      <3>1. PICK m \in 1..n : i = d + m
        BY <1>6, <2>4
      <3>2. PICK k \in 1..n : j = d + k
        BY <1>6, <2>4
      <3> QED BY <1>3, <1>5, <3>1, <3>2
    <2> QED BY <2>1, <2>2, <2>3, <2>4
  <1>8. ToSet(t) \subseteq ToSet(s) \cup {b[i] : i \in 1..n}
    <2> SUFFICES ASSUME NEW i \in 1..(d + n)
                 PROVE  t[i] \in ToSet(s) \/ \E j \in 1..n : t[i] = b[j]
      BY <1>2
    <2> QED BY <1>3, <1>6
  <1>9. ToSet(s) \cup {b[i] : i \in 1..n} \subseteq ToSet(t)
    <2>1. \A i \in 1..d : i \in 1..(d + n)
      BY <1>1
    <2>2. \A i \in 1..n : d + i \in 1..(d + n)
      BY <1>1
    <2>3. ToSet(s) \subseteq ToSet(t)
      BY <1>2, <1>3, <2>1
    <2>4. {b[i] : i \in 1..n} \subseteq ToSet(t)
      <3> SUFFICES ASSUME NEW i \in 1..n PROVE b[i] \in ToSet(t)
        OBVIOUS
      <3>1. d + i \in 1..(d + n) /\ t[d + i] = b[i]
        BY <1>3, <2>2
      <3> QED BY <1>2, <3>1
    <2> QED BY <2>3, <2>4
  <1> QED BY <1>7, <1>8, <1>9

\* Without its first packets, a queue holds each of the others once.
LEMMA Removed ==
  ASSUME NEW S, NEW s \in Seq(S), NEW t \in Seq(S), NEW n \in 0..Len(s),
         Len(t) = Len(s) - n, \A i \in 1..Len(t) : t[i] = s[n + i],
         IsInjective(s)
  PROVE  /\ IsInjective(t)
         /\ ToSet(t) = ToSet(s) \ {s[i] : i \in 1..n}
  <1> DEFINE d == Len(s)
  <1>1. /\ d \in Nat /\ n \in Nat /\ n <= d /\ Len(t) = d - n
        /\ DOMAIN s = 1..d /\ DOMAIN t = 1..(d - n)
    OBVIOUS
  <1>2. ToSet(s) = {s[i] : i \in 1..d} /\ ToSet(t) = {t[i] : i \in 1..(d - n)}
    BY <1>1 DEF ToSet
  <1>3. \A i \in 1..(d - n) : t[i] = s[n + i]
    BY <1>1
  <1>4. \A i, j \in 1..d : s[i] = s[j] => i = j
    BY <1>1 DEF IsInjective
  <1> HIDE DEF d
  <1>5. /\ \A i \in 1..(d - n) : n + i \in 1..d /\ n + i \notin 1..n
        /\ \A i \in 1..n : i \in 1..d
        /\ \A i \in 1..d : i \notin 1..n => i - n \in 1..(d - n) /\ n + (i - n) = i
    BY <1>1
  <1>6. IsInjective(t)
    <2> SUFFICES ASSUME NEW i \in 1..(d - n), NEW j \in 1..(d - n), t[i] = t[j]
                 PROVE  i = j
      BY <1>1 DEF IsInjective
    <2>1. n + i = n + j
      BY <1>3, <1>4, <1>5
    <2> QED BY <1>1, <2>1
  <1>7. ToSet(t) \subseteq ToSet(s) \ {s[i] : i \in 1..n}
    <2> SUFFICES ASSUME NEW i \in 1..(d - n)
                 PROVE  t[i] \in ToSet(s) /\ \A j \in 1..n : t[i] # s[j]
      BY <1>2
    <2> QED BY <1>2, <1>3, <1>4, <1>5
  <1>8. ToSet(s) \ {s[i] : i \in 1..n} \subseteq ToSet(t)
    <2> SUFFICES ASSUME NEW i \in 1..d, i \notin 1..n
                 PROVE  s[i] \in ToSet(t)
      BY <1>2
    <2>1. i - n \in 1..(d - n) /\ t[i - n] = s[i]
      BY <1>3, <1>5
    <2> QED BY <1>2, <2>1
  <1> QED BY <1>6, <1>7, <1>8

-----------------------------------------------------------------------------
(* What the slots hold *)

\* The packets accepted and not handed out are those between the tails, each
\* once; a producer holds others and has its first ones in the slots behind
\* its tail; a consumer has copied the first ones of the queue.
Held ==
  /\ ToSet(Contents) = owed /\ IsInjective(Contents)
  /\ \A p \in Producers : stage[p] # "idle" =>
       IsInjective(burst[p]) /\ ToSet(burst[p]) \cap owed = {}
  /\ \A p \in Producers : stage[p] = "copy" =>
       \A i \in 1..copied[p] : ring[Slot(Plus(prodTail, i - 1))] = burst[p][i]
  /\ \A c \in Consumers : stage[c] = "copy" =>
       \A i \in 1..copied[c] : burst[c][i] = Contents[i]

\* The queue is the window between the tails.
LEMMA ContentsIs ==
  ASSUME Inv
  PROVE  /\ Contents = Window(ring, consTail, prodTail)
         /\ Contents \in Seq(Content)
         /\ Len(Contents) = Distance(consTail, prodTail)
         /\ Distance(consTail, prodTail) \in Nat
         /\ Distance(consTail, prodTail) <= Capacity
         /\ \A i \in 1..Distance(consTail, prodTail) :
              Contents[i] = ring[Slot(Plus(consTail, i - 1))]
  <1>1. ring \in [Slots -> Content] /\ consTail \in Index /\ prodTail \in Index
    BY DEF Inv, TypeOK, Slots
  <1>2. Contents = Window(ring, consTail, prodTail)
    BY DEF Contents, Window
  <1>3. /\ Distance(consTail, prodTail) <= Distance(consTail, prodHead)
        /\ Distance(consTail, prodHead) <= Capacity
        /\ Distance(consTail, prodHead) \in Nat /\ Capacity \in Nat
    BY DistanceType, SizeAssumption, ModulusAssumption
       DEF Inv, TypeOK, IndicesOrdered, Capacity
  <1>4. Distance(consTail, prodTail) \in Nat
    BY <1>1, DistanceType, ModulusAssumption
  <1> QED BY <1>1, <1>2, <1>3, <1>4, WindowIs

\* After a step too.
LEMMA ContentsNext == Contents' = Window(ring', consTail', prodTail')
  BY DEF Contents, Window, Distance, Plus, Slot

\* Of a queue whose slots and tails stay, nothing changes.
LEMMA SameContents ==
  ASSUME Inv, UNCHANGED <<ring, consTail, prodTail>>
  PROVE  Contents' = Contents
  BY ContentsIs, ContentsNext

-----------------------------------------------------------------------------
(* Every step is one of the queue's, or leaves it *)

Stutters == UNCHANGED <<Contents, delivered>>

\* Until a copy, a call leaves the queue and what the slots hold.
LEMMA QuietStep ==
  ASSUME OneThreadPerSide, Inv, Held,
         \/ \E p \in Producers :
              ObserveRoom(p) \/ EnqueueReserve(p) \/ EnqueueClaim(p)
         \/ \E c \in Consumers :
              ObserveEmpty(c) \/ DequeueReserve(c) \/ DequeueClaim(c)
  PROVE  Held' /\ Stutters
  <1>1. UNCHANGED <<ring, consTail, prodTail, owed, delivered>>
    BY DEF ObserveRoom, EnqueueReserve, EnqueueClaim, ObserveEmpty,
           DequeueReserve, DequeueClaim, indices
  <1>2. Contents' = Contents
    BY <1>1, SameContents
  <1>3. ASSUME NEW p \in Producers
        PROVE  /\ stage'[p] # "idle" =>
                    IsInjective(burst'[p]) /\ ToSet(burst'[p]) \cap owed = {}
               /\ stage'[p] = "copy" =>
                    \/ stage[p] = "copy" /\ UNCHANGED <<copied[p], burst[p]>>
                    \/ copied'[p] = 0
    <2>1. p \in Threads
      BY DEF Threads
    <2>2. CASE EnqueueReserve(p)
      <3>1. PICK b \in Bursts :
              ToSet(b) \subseteq Free /\ burst' = [burst EXCEPT ![p] = b]
        BY <2>2 DEF EnqueueReserve
      <3>2. burst'[p] = b
        BY <2>1, <3>1 DEF Inv, TypeOK
      <3>3. IsInjective(b) /\ ToSet(b) \cap owed = {}
        BY <3>1 DEF Bursts, Free
      <3>4. stage'[p] = "claim"
        BY <2>1, <2>2 DEF EnqueueReserve, Reserve, Inv, TypeOK
      <3> QED BY <3>2, <3>3, <3>4
    <2>3. CASE EnqueueClaim(p)
      <3>1. stage[p] = "claim" /\ UNCHANGED <<burst, copied>>
        BY <2>3 DEF EnqueueClaim
      <3>2. copied[p] = 0
        BY <3>1 DEF Inv, IndicesOrdered, ProducerPosition
      <3> QED BY <3>1, <3>2 DEF Held
    <2>4. CASE ~EnqueueReserve(p) /\ ~EnqueueClaim(p)
      <3>1. \/ UNCHANGED <<stage, burst, copied>>
            \/ \E c \in Consumers : DequeueReserve(c) \/ DequeueClaim(c)
        BY <2>4 DEF OneThreadPerSide, ObserveRoom, ObserveEmpty
      <3>2. ASSUME NEW c \in Consumers, DequeueReserve(c) \/ DequeueClaim(c)
            PROVE  UNCHANGED <<stage[p], burst[p], copied[p]>>
        BY <2>1, <3>2, ThreadAssumption
           DEF DequeueReserve, DequeueClaim, Reserve, Inv, TypeOK, Threads
      <3>3. UNCHANGED <<stage[p], burst[p], copied[p]>>
        BY <3>1, <3>2
      <3> QED BY <3>3 DEF Held
    <2> QED BY <2>2, <2>3, <2>4
  <1>4. ASSUME NEW c \in Consumers
        PROVE  stage'[c] = "copy" =>
                 \/ stage[c] = "copy" /\ UNCHANGED <<copied[c], burst[c]>>
                 \/ copied'[c] = 0
    <2>1. c \in Threads
      BY DEF Threads
    <2>2. CASE DequeueReserve(c)
      BY <2>1, <2>2 DEF DequeueReserve, Reserve, Inv, TypeOK
    <2>3. CASE DequeueClaim(c)
      BY <2>3 DEF DequeueClaim, Inv, IndicesOrdered, ConsumerPosition
    <2>4. CASE ~DequeueReserve(c) /\ ~DequeueClaim(c)
      <3>1. \/ UNCHANGED <<stage, burst, copied>>
            \/ \E p \in Producers : EnqueueReserve(p) \/ EnqueueClaim(p)
        BY <2>4 DEF OneThreadPerSide, ObserveRoom, ObserveEmpty
      <3>2. ASSUME NEW p \in Producers, EnqueueReserve(p) \/ EnqueueClaim(p)
            PROVE  UNCHANGED <<stage[c], burst[c], copied[c]>>
        BY <2>1, <3>2, ThreadAssumption
           DEF EnqueueReserve, EnqueueClaim, Reserve, Inv, TypeOK, Threads
      <3>3. UNCHANGED <<stage[c], burst[c], copied[c]>>
        BY <3>1, <3>2
      <3> QED BY <3>3
    <2> QED BY <2>2, <2>3, <2>4
  <1>5. Held'
    <2>1. ToSet(Contents') = owed' /\ IsInjective(Contents')
      BY <1>1, <1>2 DEF Held
    <2>2. \A p \in Producers : stage'[p] # "idle" =>
            IsInjective(burst'[p]) /\ ToSet(burst'[p]) \cap owed' = {}
      BY <1>1, <1>3
    <2>3. \A p \in Producers : stage'[p] = "copy" =>
            \A i \in 1..copied'[p] : ring[Slot(Plus(prodTail, i - 1))] = burst'[p][i]
      <3> SUFFICES ASSUME NEW p \in Producers, stage'[p] = "copy",
                          NEW i \in 1..copied'[p]
                   PROVE  ring[Slot(Plus(prodTail, i - 1))] = burst'[p][i]
        OBVIOUS
      <3>1. stage[p] = "copy" /\ UNCHANGED <<copied[p], burst[p]>>
        BY <1>3
      <3> QED BY <3>1 DEF Held
    <2>4. \A c \in Consumers : stage'[c] = "copy" =>
            \A i \in 1..copied'[c] : burst'[c][i] = Contents[i]
      <3> SUFFICES ASSUME NEW c \in Consumers, stage'[c] = "copy",
                          NEW i \in 1..copied'[c]
                   PROVE  burst'[c][i] = Contents[i]
        OBVIOUS
      <3>1. stage[c] = "copy" /\ UNCHANGED <<copied[c], burst[c]>>
        BY <1>4
      <3> QED BY <3>1 DEF Held
    <2>5. UNCHANGED <<ring, prodTail>>
      BY <1>1
    <2> QED BY <1>2, <2>1, <2>2, <2>3, <2>4, <2>5 DEF Held, Plus, Slot
  <1> QED BY <1>1, <1>2, <1>5 DEF Stutters

\* A producer writes behind the queue: the queue stays.
LEMMA EnqueueCopyStep ==
  ASSUME OneThreadPerSide, Inv, Held, NEW p \in Producers, EnqueueCopy(p)
  PROVE  Held' /\ Stutters
  <1> DEFINE k == copied[p]
             d == Distance(consTail, prodTail)
             x == burst[p][k + 1]
  <1>1. /\ stage[p] = "copy" /\ k < count[p] /\ start[p] = prodTail
        /\ count[p] = Distance(prodTail, prodHead) /\ k \in Nat
        /\ consTail \in Index /\ prodTail \in Index /\ prodHead \in Index
        /\ ring \in [Slots -> Content] /\ copied \in [Threads -> Nat]
        /\ p \in Threads
    BY DEF EnqueueCopy, Inv, TypeOK, IndicesOrdered, ProducerPosition, Slots, Threads
  <1>2. /\ ring' = [ring EXCEPT ![Slot(Plus(prodTail, k))] = x]
        /\ copied' = [copied EXCEPT ![p] = k + 1]
        /\ UNCHANGED <<consTail, prodTail, stage, burst, owed, delivered>>
    BY <1>1 DEF EnqueueCopy, indices
  <1>3. d \in Nat /\ d + k < Capacity /\ Capacity < Size /\ Size < Modulus
    <2>1. Distance(prodTail, prodHead) = Distance(consTail, prodHead) - d
      BY <1>1, DistanceSplit DEF Inv, IndicesOrdered
    <2>2. /\ Distance(consTail, prodHead) <= Capacity
          /\ Distance(consTail, prodHead) \in Nat /\ d \in Nat
      BY <1>1, DistanceType, ModulusAssumption DEF Inv, IndicesOrdered
    <2>3. /\ Capacity \in Nat /\ Capacity < Size /\ Size < Modulus
          /\ Size \in Nat /\ Modulus \in Nat
      BY SizeAssumption, ModulusAssumption DEF Capacity
    <2>4. k \in Nat /\ k < Distance(prodTail, prodHead)
      BY <1>1
    <2> HIDE DEF k, d
    <2> QED BY ONLY <2>1, <2>2, <2>3, <2>4
  <1>4. Contents' = Contents
    <2>1. Plus(Plus(consTail, d), k) = Plus(consTail, d + k)
      BY <1>1, <1>3, PlusPlus, SizeAssumption, ModulusAssumption DEF Capacity
    <2>2. Plus(consTail, d) = prodTail
      BY <1>1, PlusDistance
    <2> DEFINE j == d + k
    <2>3. ring' = [ring EXCEPT ![Slot(Plus(consTail, j))] = x]
      BY <1>2, <2>1, <2>2
    <2>4. j \in Nat /\ Distance(consTail, prodTail) <= j /\ j < Size
      BY <1>1, <1>3, SizeAssumption DEF Capacity
    <2> HIDE DEF j, x, d, k
    <2>5. \A s \in Slots \ {Slot(Plus(consTail, j))} : ring'[s] = ring[s]
      BY <1>1, <2>3
    <2>6. Window(ring', consTail, prodTail) = Window(ring, consTail, prodTail)
      BY <1>1, <2>4, <2>5, Untouched
    <2> QED BY <1>2, <2>6, ContentsIs, ContentsNext
  <1>5. ASSUME NEW i \in 1..(k + 1)
        PROVE  ring'[Slot(Plus(prodTail, i - 1))] = burst[p][i]
    <2>1. i - 1 \in Nat /\ k < Size /\ Slot(Plus(prodTail, i - 1)) \in Slots
      BY <1>1, <1>3, SlotType, SizeAssumption DEF Capacity
    <2>2. CASE i = k + 1
      BY <1>1, <1>2, <2>1, <2>2
    <2>3. CASE i # k + 1
      <3>1. i \in 1..k /\ i - 1 < k
        BY <1>1, <2>3
      <3>2. Slot(Plus(prodTail, i - 1)) # Slot(Plus(prodTail, k))
        BY <1>1, <2>1, <3>1, SlotsDistinct
      <3>3. ring[Slot(Plus(prodTail, i - 1))] = burst[p][i]
        BY <1>1, <3>1 DEF Held
      <3> QED BY <1>1, <1>2, <2>1, <3>2, <3>3
    <2> QED BY <2>2, <2>3
  <1>6. Held'
    <2>1. copied'[p] = k + 1
      BY <1>1, <1>2
    <2>2. \A q \in Producers : q = p
      BY DEF OneThreadPerSide
    <2>3. \A c \in Consumers : copied'[c] = copied[c]
      BY <1>1, <1>2, ThreadAssumption DEF Threads
    <2> HIDE DEF k, d, x
    <2>4. \A q \in Producers : stage'[q] = "copy" =>
            \A i \in 1..copied'[q] : ring'[Slot(Plus(prodTail, i - 1))] = burst'[q][i]
      BY <1>2, <1>5, <2>1, <2>2
    <2>5. \A c \in Consumers : stage'[c] = "copy" =>
            \A i \in 1..copied'[c] : burst'[c][i] = Contents'[i]
      BY <1>2, <1>4, <2>3 DEF Held
    <2>6. /\ ToSet(Contents') = owed' /\ IsInjective(Contents')
          /\ \A q \in Producers : stage'[q] # "idle" =>
               IsInjective(burst'[q]) /\ ToSet(burst'[q]) \cap owed' = {}
      BY <1>2, <1>4 DEF Held
    <2>7. prodTail' = prodTail
      BY <1>2
    <2> QED BY <2>4, <2>5, <2>6, <2>7 DEF Held, Plus, Slot
  <1> QED BY <1>2, <1>4, <1>6 DEF Stutters

\* A consumer copies the next packet of the queue.
LEMMA DequeueCopyStep ==
  ASSUME OneThreadPerSide, Inv, Held, NEW c \in Consumers, DequeueCopy(c)
  PROVE  Held' /\ Stutters
  <1> DEFINE k == copied[c]
             x == ring[Slot(Plus(consTail, k))]
  <1>1. /\ stage[c] = "copy" /\ k < count[c] /\ start[c] = consTail
        /\ count[c] = Distance(consTail, consHead) /\ k \in Nat
        /\ Len(burst[c]) = k /\ burst[c] \in Seq(Content)
        /\ consTail \in Index /\ prodTail \in Index /\ consHead \in Index
        /\ copied \in [Threads -> Nat] /\ burst \in [Threads -> Seq(Content)]
        /\ c \in Threads
    BY DEF DequeueCopy, Inv, TypeOK, IndicesOrdered, ConsumerPosition, Threads
  <1>2. /\ burst' = [burst EXCEPT ![c] = Append(burst[c], x)]
        /\ copied' = [copied EXCEPT ![c] = k + 1]
        /\ UNCHANGED <<ring, consTail, prodTail, stage, owed, delivered>>
    BY <1>1 DEF DequeueCopy, indices
  <1>3. x = Contents[k + 1]
    <2>1. k + 1 \in 1..Distance(consTail, prodTail) /\ (k + 1) - 1 = k
      <3>1. /\ Distance(consTail, consHead) <= Distance(consTail, prodTail)
            /\ Distance(consTail, consHead) \in Nat
            /\ Distance(consTail, prodTail) \in Nat
        BY <1>1, DistanceType, ModulusAssumption DEF Inv, IndicesOrdered
      <3> QED BY <1>1, <3>1
    <2> QED BY <2>1, ContentsIs
  <1>4. Contents' = Contents
    BY <1>2, SameContents
  <1>5. ASSUME NEW i \in 1..(k + 1) PROVE burst'[c][i] = Contents[i]
    <2>1. burst'[c] = Append(burst[c], x)
      BY <1>1, <1>2
    <2>2. CASE i = k + 1
      <3> HIDE DEF x
      <3>1. Append(burst[c], x)[k + 1] = x
        BY <1>1
      <3> QED BY <1>3, <2>1, <2>2, <3>1
    <2>3. CASE i # k + 1
      <3>1. i \in 1..k
        BY <1>1, <2>3
      <3>2. burst[c][i] = Contents[i]
        BY <1>1, <3>1 DEF Held
      <3> HIDE DEF x
      <3>3. Append(burst[c], x)[i] = burst[c][i]
        BY <1>1, <3>1
      <3> QED BY <2>1, <3>2, <3>3
    <2> QED BY <2>2, <2>3
  <1>6. Held'
    <2>1. copied'[c] = k + 1
      BY <1>1, <1>2
    <2>2. \A b \in Consumers : b = c
      BY DEF OneThreadPerSide
    <2>3. \A p \in Producers : copied'[p] = copied[p] /\ burst'[p] = burst[p]
      BY <1>1, <1>2, ThreadAssumption DEF Threads
    <2> HIDE DEF k, x
    <2>4. \A b \in Consumers : stage'[b] = "copy" =>
            \A i \in 1..copied'[b] : burst'[b][i] = Contents'[i]
      BY <1>4, <1>5, <2>1, <2>2
    <2>5. \A p \in Producers : stage'[p] = "copy" =>
            \A i \in 1..copied'[p] : ring[Slot(Plus(prodTail, i - 1))] = burst'[p][i]
      <3> SUFFICES ASSUME NEW p \in Producers, stage'[p] = "copy",
                          NEW i \in 1..copied'[p]
                   PROVE  ring[Slot(Plus(prodTail, i - 1))] = burst'[p][i]
        OBVIOUS
      <3>1. stage[p] = "copy" /\ copied'[p] = copied[p] /\ burst'[p] = burst[p]
        BY <1>2, <2>3
      <3> QED BY <3>1 DEF Held
    <2>6. /\ ToSet(Contents') = owed' /\ IsInjective(Contents')
          /\ \A p \in Producers : stage'[p] # "idle" =>
               IsInjective(burst'[p]) /\ ToSet(burst'[p]) \cap owed' = {}
      BY <1>2, <1>4, <2>3 DEF Held
    <2>7. prodTail' = prodTail /\ ring' = ring
      BY <1>2
    <2> QED BY <2>4, <2>5, <2>6, <2>7 DEF Held, Plus, Slot
  <1> QED BY <1>2, <1>4, <1>6 DEF Stutters

\* The tail of the producer takes the whole of the queue's new packets with it.
LEMMA EnqueuePublishStep ==
  ASSUME OneThreadPerSide, Inv, Held, NEW p \in Producers, EnqueuePublish(p)
  PROVE  Held' /\ Fifo!Put
  <1> DEFINE n == count[p]
             d == Distance(consTail, prodTail)
             b == burst[p]
             new == {b[i] : i \in 1..n}
  <1>1. /\ stage[p] = "copy" /\ copied[p] = n /\ start[p] = prodTail
        /\ n = Distance(prodTail, prodHead) /\ n \in Nat /\ n > 0
        /\ n <= Len(b) /\ b \in Seq(Content) /\ p \in Threads
        /\ consTail \in Index /\ prodTail \in Index /\ prodHead \in Index
        /\ ring \in [Slots -> Content]
    BY DEF EnqueuePublish, Inv, TypeOK, IndicesOrdered, ProducerPosition, Slots, Threads
  <1>2. /\ prodTail' = Plus(prodTail, n) /\ owed' = owed \cup new
        /\ stage' = [stage EXCEPT ![p] = "idle"]
        /\ UNCHANGED <<ring, consTail, delivered>>
    BY <1>1 DEF EnqueuePublish, Return
  <1>3. d \in Nat /\ d + n <= Capacity /\ d + n < Modulus /\ Capacity \in Nat
    <2>1. n = Distance(consTail, prodHead) - d
      BY <1>1, DistanceSplit DEF Inv, IndicesOrdered
    <2>2. /\ Distance(consTail, prodHead) <= Capacity
          /\ Distance(consTail, prodHead) \in Nat /\ d \in Nat
      BY <1>1, DistanceType, ModulusAssumption DEF Inv, IndicesOrdered
    <2>3. Capacity \in Nat /\ Capacity < Modulus /\ Modulus \in Nat
      BY SizeAssumption, ModulusAssumption DEF Capacity
    <2>4. n \in Nat
      BY <1>1
    <2> HIDE DEF n, d
    <2> QED BY ONLY <2>1, <2>2, <2>3, <2>4
  <1>4. Contents \in Seq(Content) /\ Len(Contents) = d
    BY ContentsIs
  <1>5. /\ Contents' \in Seq(Content) /\ Len(Contents') = d + n
        /\ \A i \in 1..d : Contents'[i] = Contents[i]
        /\ \A i \in 1..n : Contents'[d + i] = b[i]
    <2> DEFINE e == Plus(prodTail, n)
    <2>1. e \in Index
      <3>1. n \in 0..Modulus
        BY <1>1, <1>3, ModulusAssumption
      <3> HIDE DEF n
      <3> QED BY <1>1, <3>1, PlusType
    <2>2. Contents' = Window(ring, consTail, e)
      BY <1>2, ContentsNext
    <2>3. Contents = Window(ring, consTail, prodTail)
      BY ContentsIs
    <2>4. /\ Distance(consTail, e) = d + n
          /\ \A i \in 1..d :
               Window(ring, consTail, e)[i] = Window(ring, consTail, prodTail)[i]
          /\ \A i \in 1..n :
               Window(ring, consTail, e)[d + i] = ring[Slot(Plus(prodTail, i - 1))]
      BY <1>1, <1>3, Extended
    <2>5. \A i \in 1..n : ring[Slot(Plus(prodTail, i - 1))] = b[i]
      BY <1>1 DEF Held
    <2> HIDE DEF e, d, n, b
    <2>6. Window(ring, consTail, e) \in Seq(Content)
          /\ Len(Window(ring, consTail, e)) = Distance(consTail, e)
      BY <1>1, <2>1, WindowIs
    <2> QED BY <2>2, <2>3, <2>4, <2>5, <2>6
  <1>6. IsInjective(Contents') /\ ToSet(Contents') = owed'
    <2>1. /\ IsInjective(Contents) /\ ToSet(Contents) = owed
          /\ IsInjective(b) /\ ToSet(b) \cap owed = {}
      BY <1>1 DEF Held
    <2>2. n \in 1..Len(b) /\ b \in Seq(Content)
      BY <1>1
    <2> DEFINE t == Contents'
               s == Contents
    <2> HIDE DEF d, n, b, s, t
    <2>3. /\ s \in Seq(Content) /\ t \in Seq(Content) /\ Len(t) = Len(s) + n
          /\ \A i \in 1..Len(s) : t[i] = s[i]
          /\ \A i \in 1..n : t[Len(s) + i] = b[i]
          /\ IsInjective(s) /\ IsInjective(b) /\ ToSet(b) \cap ToSet(s) = {}
      BY <1>4, <1>5, <2>1 DEF s, t
    <2>4. /\ IsInjective(t)
          /\ \A x : x \in ToSet(t) <=> x \in ToSet(s) \/ \E i \in 1..n : x = b[i]
      BY ONLY <2>2, <2>3, Appended
    <2>5. ToSet(t) = ToSet(s) \cup new
      BY <2>4
    <2> QED BY <1>2, <2>1, <2>4, <2>5 DEF s, t
  <1>7. IsStrictPrefix(Contents, Contents') /\ Len(Contents') <= Capacity
    <2> HIDE DEF d, n
    <2>1. Len(Contents) < Len(Contents')
      BY <1>1, <1>3, <1>4, <1>5
    <2> QED BY <1>3, <1>4, <1>5, <2>1, Grown
  <1>8. Held'
    <2>1. \A q \in Producers : q = p
      BY DEF OneThreadPerSide
    <2>2. stage'[p] = "idle"
      BY <1>1, <1>2 DEF Inv, TypeOK
    <2>3. ASSUME NEW c \in Consumers, stage'[c] = "copy"
          PROVE  \A i \in 1..copied'[c] : burst'[c][i] = Contents'[i]
      <3>1. c # p /\ c \in Threads
        BY <1>1, ThreadAssumption DEF Threads
      <3>2. UNCHANGED <<stage[c], burst[c], copied[c]>>
        BY <3>1 DEF Inv, TypeOK, EnqueuePublish, Return
      <3>3. /\ copied[c] \in Nat /\ copied[c] <= d
        <4>1. /\ copied[c] <= count[c] /\ copied[c] \in Nat /\ count[c] \in Nat
              /\ count[c] = Distance(consTail, consHead)
          BY <2>3, <3>1, <3>2 DEF Inv, TypeOK, IndicesOrdered, ConsumerPosition
        <4>2. Distance(consTail, consHead) <= d
          BY DEF Inv, IndicesOrdered
        <4> QED BY <1>3, <4>1, <4>2
      <3>4. \A i \in 1..copied[c] : burst[c][i] = Contents[i] /\ i \in 1..d
        BY <1>3, <2>3, <3>2, <3>3 DEF Held
      <3> QED BY <1>5, <3>2, <3>4
    <2> QED BY <1>6, <2>1, <2>2, <2>3 DEF Held
  <1>9. Fifo!Put
    BY <1>2, <1>6, <1>7
       DEF Fifo!Put, Fifo!IsStrictPrefix, Fifo!IsPrefix, Fifo!IsInjective,
           IsStrictPrefix, IsPrefix, IsInjective
  <1> QED BY <1>8, <1>9

\* The tail of the consumer leaves the packets handed out behind.
LEMMA DequeuePublishStep ==
  ASSUME OneThreadPerSide, Inv, Held, NEW c \in Consumers, DequeuePublish(c)
  PROVE  Held' /\ Fifo!Take
  <1> DEFINE n == count[c]
             d == Distance(consTail, prodTail)
             b == burst[c]
  <1>1. /\ stage[c] = "copy" /\ copied[c] = n /\ start[c] = consTail
        /\ n = Distance(consTail, consHead) /\ n \in Nat /\ n > 0
        /\ Len(b) = n /\ b \in Seq(Content) /\ c \in Threads
        /\ consTail \in Index /\ prodTail \in Index /\ consHead \in Index
        /\ ring \in [Slots -> Content]
    BY DEF DequeuePublish, Inv, TypeOK, IndicesOrdered, ConsumerPosition, Slots, Threads
  <1>2. /\ consTail' = Plus(consTail, n) /\ owed' = owed \ ToSet(b)
        /\ stage' = [stage EXCEPT ![c] = "idle"] /\ delivered' = b
        /\ UNCHANGED <<ring, prodTail>>
    BY <1>1 DEF DequeuePublish, Return
  <1>3. d \in Nat /\ n <= d /\ n < Modulus /\ Modulus \in Nat
    <2>1. n <= d
      BY <1>1 DEF Inv, IndicesOrdered
    <2>2. d \in Nat /\ d < Modulus /\ Modulus \in Nat
      BY <1>1, DistanceType, ModulusAssumption
    <2> QED BY <1>1, <2>1, <2>2
  <1>4. Contents \in Seq(Content) /\ Len(Contents) = d
    BY ContentsIs
  <1>5. /\ Contents' \in Seq(Content) /\ Len(Contents') = d - n
        /\ \A i \in 1..(d - n) : Contents'[i] = Contents[n + i]
    <2> DEFINE e == Plus(consTail, n)
    <2>1. e \in Index
      BY <1>1, <1>3, PlusType
    <2>2. Contents' = Window(ring, e, prodTail)
      BY <1>2, ContentsNext
    <2>3. Contents = Window(ring, consTail, prodTail)
      BY ContentsIs
    <2>4. /\ Distance(e, prodTail) = d - n
          /\ \A i \in 1..(d - n) :
               Window(ring, e, prodTail)[i] = Window(ring, consTail, prodTail)[n + i]
      BY <1>1, <1>3, Shortened
    <2> HIDE DEF e, d, n
    <2>5. Window(ring, e, prodTail) \in Seq(Content)
          /\ Len(Window(ring, e, prodTail)) = Distance(e, prodTail)
      BY <1>1, <2>1, WindowIs
    <2> QED BY <2>2, <2>3, <2>4, <2>5
  <1>6. b = SubSeq(Contents, 1, n) /\ Contents' = SubSeq(Contents, n + 1, Len(Contents))
    <2>1. \A i \in 1..n : b[i] = Contents[i]
      BY <1>1 DEF Held
    <2> HIDE DEF d, n, b
    <2>2. b = SubSeq(Contents, 1, n)
      BY <1>1, <1>3, <1>4, <2>1, FirstPart
    <2>3. n \in 0..Len(Contents)
      BY <1>1, <1>3, <1>4
    <2>4. Contents' = SubSeq(Contents, n + 1, Len(Contents))
      BY <1>1, <1>3, <1>4, <1>5, <2>3, LastPart
    <2> QED BY <2>2, <2>4
  <1>7. IsInjective(Contents') /\ ToSet(Contents') = owed'
    <2>1. IsInjective(Contents) /\ ToSet(Contents) = owed
      BY DEF Held
    <2>2. \A i \in 1..n : b[i] = Contents[i]
      BY <1>1 DEF Held
    <2>3. n \in 0..Len(Contents)
      BY <1>1, <1>3, <1>4
    <2> HIDE DEF d, n, b
    <2>4. ToSet(b) = {Contents[i] : i \in 1..n}
      <3>1. DOMAIN b = 1..n
        BY <1>1
      <3>2. ToSet(b) = {b[i] : i \in 1..n}
        BY <3>1 DEF ToSet
      <3> QED BY <2>2, <3>2
    <2>5. IsInjective(Contents')
      BY <1>4, <1>5, <2>1, <2>3, Removed
    <2>6. ToSet(Contents') = ToSet(Contents) \ {Contents[i] : i \in 1..n}
      BY <1>4, <1>5, <2>1, <2>3, Removed
    <2> QED BY <1>2, <2>1, <2>4, <2>5, <2>6
  <1>8. Held'
    <2>1. \A a \in Consumers : a = c
      BY DEF OneThreadPerSide
    <2>2. stage'[c] = "idle"
      BY <1>1, <1>2 DEF Inv, TypeOK
    <2>3. ASSUME NEW p \in Producers
          PROVE  /\ stage'[p] # "idle" =>
                      IsInjective(burst'[p]) /\ ToSet(burst'[p]) \cap owed' = {}
                 /\ stage'[p] = "copy" =>
                      \A i \in 1..copied'[p] :
                        ring[Slot(Plus(prodTail, i - 1))] = burst'[p][i]
      <3>1. c # p /\ p \in Threads
        BY <1>1, ThreadAssumption DEF Threads
      <3>2. UNCHANGED <<stage[p], burst[p], copied[p]>>
        BY <3>1 DEF Inv, TypeOK, DequeuePublish, Return
      <3>3. owed' \subseteq owed
        BY <1>2
      <3>4. stage[p] # "idle" => IsInjective(burst[p]) /\ ToSet(burst[p]) \cap owed = {}
        BY DEF Held
      <3>5. stage[p] = "copy" =>
              \A i \in 1..copied[p] : ring[Slot(Plus(prodTail, i - 1))] = burst[p][i]
        BY DEF Held
      <3> QED BY <3>2, <3>3, <3>4, <3>5
    <2>4. UNCHANGED <<ring, prodTail>>
      BY <1>2
    <2> QED BY <1>7, <2>1, <2>2, <2>3, <2>4 DEF Held, Plus, Slot
  <1>9. n \in 1..Len(Contents)
    BY <1>1, <1>3, <1>4
  <1> QED BY <1>2, <1>6, <1>8, <1>9 DEF Fifo!Take

-----------------------------------------------------------------------------
(* The refinement *)

\* An empty ring is an empty queue.
LEMMA InitHeld == Init => Held /\ Fifo!Init
  <1> SUFFICES ASSUME Init PROVE Held /\ Fifo!Init
    OBVIOUS
  <1>1. Distance(consTail, prodTail) = 0
    BY DEF Init, Distance
  <1>2. Contents = <<>>
    <2>1. 1..0 = {}
      OBVIOUS
    <2> QED BY <1>1, <2>1 DEF Contents
  <1>3. ToSet(<<>>) = {} /\ IsInjective(<<>>)
    BY DEF ToSet, IsInjective
  <1>4. \A t \in Threads : stage[t] = "idle"
    BY DEF Init
  <1>5. Held
    BY <1>2, <1>3, <1>4 DEF Held, Init, Threads
  <1> QED BY <1>2, <1>5 DEF Fifo!Init, Init

\* Every step of the ring keeps what the slots hold, and is a step of the
\* queue or leaves it alone.
LEMMA NextHeld ==
  ASSUME OneThreadPerSide, Inv, Held, [Next]_vars
  PROVE  Held' /\ [Fifo!Next]_(Fifo!vars)
  <1>1. CASE UNCHANGED vars
    <2>1. Contents' = Contents
      BY <1>1 DEF vars, indices, Contents
    <2>2. Held'
      BY <1>1, <2>1 DEF vars, indices, Held
    <2> QED BY <1>1, <2>1, <2>2 DEF vars, Fifo!vars
  <1>2. CASE Held' /\ Stutters
    BY <1>2 DEF Stutters, Fifo!vars
  <1>3. ASSUME NEW p \in Producers,
               ObserveRoom(p) \/ EnqueueReserve(p) \/ EnqueueStep(p)
        PROVE  Held' /\ [Fifo!Next]_(Fifo!vars)
    BY <1>2, <1>3, QuietStep, EnqueueCopyStep, EnqueuePublishStep
       DEF EnqueueStep, Fifo!Next
  <1>4. ASSUME NEW c \in Consumers, ObserveEmpty(c) \/ DequeueStep(c)
        PROVE  Held' /\ [Fifo!Next]_(Fifo!vars)
    BY <1>2, <1>4, QuietStep, DequeueCopyStep, DequeuePublishStep
       DEF DequeueStep, Fifo!Next
  <1> QED BY <1>1, <1>3, <1>4 DEF Next

\* What the slots hold is right in every reachable state.
THEOREM HeldAlways == OneThreadPerSide /\ Spec => []Held
  <1> SUFFICES ASSUME OneThreadPerSide PROVE Spec => []Held
    OBVIOUS
  <1>1. Init => Held
    BY InitHeld
  <1>2. Inv /\ Held /\ [Next]_vars => Held'
    BY NextHeld
  <1>3. Spec => []Inv
    BY Invariance
  <1> QED BY <1>1, <1>2, <1>3, PTL DEF Spec

\* RingQueue is a bounded first-in first-out queue: whatever enqueue_burst
\* and dequeue_burst do between their loads and stores, a caller sees blocks
\* of new packets appended within the capacity, and the oldest handed out.
THEOREM Refinement == OneThreadPerSide /\ Spec => RefinesFifo
  <1> SUFFICES ASSUME OneThreadPerSide PROVE Spec => RefinesFifo
    OBVIOUS
  <1>1. Init => Fifo!Init
    BY InitHeld
  <1>2. Inv /\ Held /\ [Next]_vars => [Fifo!Next]_(Fifo!vars)
    BY NextHeld
  <1>3. Spec => []Inv /\ []Held
    BY Invariance, HeldAlways
  <1> QED BY <1>1, <1>2, <1>3, PTL DEF Spec, RefinesFifo, Fifo!Spec

\* A sequence without repetitions has as many elements as it is long.
LEMMA InjectiveLength ==
  ASSUME NEW S, NEW s \in Seq(S), IsInjective(s)
  PROVE  Cardinality(ToSet(s)) = Len(s)
  <1> DEFINE n == Len(s)
             T == ToSet(s)
  <1>1. n \in Nat /\ DOMAIN s = 1..n
    OBVIOUS
  <1>2. s \in [1..n -> T] /\ T = {s[i] : i \in 1..n}
    BY <1>1 DEF ToSet
  <1>3. ExistsBijection(1..n, T)
    <2>1. s \in Bijection(1..n, T)
      BY <1>1, <1>2 DEF Bijection, Injection, Surjection, IsInjective
    <2> QED BY <2>1 DEF ExistsBijection
  <1> HIDE DEF n, T
  <1>4. IsFiniteSet(1..n) /\ Cardinality(1..n) = n
    BY <1>1, FS_Interval
  <1>5. Cardinality(T) = n
    BY <1>3, <1>4, FS_Bijection
  <1> QED BY <1>5 DEF n, T

\* No packet is lost and none is handed out twice: those between the tails
\* are those that enqueue_burst accepted and dequeue_burst still owes.
THEOREM NothingLostOrDoubled == OneThreadPerSide /\ Spec => []NoLossNoDuplicate
  <1>1. Inv /\ Held => NoLossNoDuplicate
    BY ContentsIs, InjectiveLength DEF Held, NoLossNoDuplicate
  <1> QED BY <1>1, Invariance, HeldAlways, PTL
=============================================================================
