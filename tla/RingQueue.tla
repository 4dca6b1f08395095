----------------------------- MODULE RingQueue -----------------------------
(***************************************************************************)
(* vsg::dpdk::RingQueue, the lock-free queue between workers.  The class   *)
(* forwards to rte_ring, which is outside the repository: a power-of-two   *)
(* array of slots and four free-running indices.  The code always calls    *)
(* the single-producer and single-consumer operations, whatever flags the  *)
(* ring was created with; each is several loads and stores:                *)
(*                                                                         *)
(*   reserve   read the own head and the other side's tail, size the burst *)
(*   claim     store the own head                                          *)
(*   copy      move one pointer to or from its slot                        *)
(*   publish   store the own tail, and return the number of packets moved  *)
(*                                                                         *)
(* Threads interleave between any two of these.  enqueue() and dequeue()   *)
(* are bursts of one.                                                      *)
(***************************************************************************)
EXTENDS Integers, FiniteSets, SequencesExt

CONSTANTS
  Producers, Consumers,   \* the threads that call each side
  Packets,                \* mbuf pointers
  Size,                   \* slots of the ring, as rte_ring_create is asked
  Modulus,                \* values an index takes (2^32 in rte_ring)
  MaxBurst,               \* longest burst a caller passes
  NoPacket                \* contents of a slot never written

ASSUME SizeAssumption == Size \in Nat /\ Size > 1
ASSUME ModulusAssumption ==
  Modulus \in Nat /\ Modulus >= 2 * Size /\ Modulus % Size = 0
ASSUME BurstAssumption == MaxBurst \in Nat \ {0}
ASSUME ThreadAssumption == Producers \cap Consumers = {}
ASSUME PacketAssumption == NoPacket \notin Packets

Threads == Producers \cup Consumers

\* A ring of Size slots stores one packet less than that.
Capacity == Size - 1

Index == 0..(Modulus - 1)

Bursts ==
  {b \in UNION {[1..k -> Packets] : k \in 1..MaxBurst} : IsInjective(b)}

VARIABLES
  created,                \* ring_ is not null
  prodHead, prodTail, consHead, consTail,
  ring,                   \* slot -> packet
  stage,                  \* thread -> where it stands in its operation
  burst,                  \* thread -> packets still owned by its call
  start,                  \* thread -> head index it read
  count,                  \* thread -> packets it decided to move
  copied,                 \* thread -> packets it has moved so far
  promise,                \* thread -> what available_count() or empty()
                          \* told it before the operation it has in mind
  owed,                   \* packets accepted and not handed out yet
  delivered               \* burst the last dequeue returned

indices == <<prodHead, prodTail, consHead, consTail>>
vars == <<created, indices, ring, stage, burst, start, count, copied,
          promise, owed, delivered>>

-----------------------------------------------------------------------------
(* Arithmetic on the free-running indices *)

\* Mutant of Plus: the index does not wrap.
PlusUnwrapped(a, n) == a + n

Plus(a, n) == IF a + n < Modulus THEN a + n ELSE a + n - Modulus

Distance(a, b) == IF a <= b THEN b - a ELSE b + Modulus - a

\* index & mask
Slot(i) == i % Size

AtMost(n, m) == IF n <= m THEN n ELSE m

\* Mutant of FreeEntries: hands out the slot that tells full from empty.
FreeEntriesWithLastSlot(head) == Distance(head, Plus(consTail, Size))

\* Mutant of FreeEntries: counts slots the consumer has claimed, not emptied.
FreeEntriesClaimed(head) == Distance(head, Plus(consHead, Capacity))

\* Room a producer at head sees.
FreeEntries(head) == Distance(head, Plus(consTail, Capacity))

\* Packets a consumer at head sees.
ReadyEntries(head) == Distance(head, prodTail)

\* Mutant of FreeCount: trusts the consumer's head.
FreeCountClaimed == Capacity - AtMost(Distance(consHead, prodTail), Capacity)

\* rte_ring_free_count
FreeCount == Capacity - AtMost(Distance(consTail, prodTail), Capacity)

-----------------------------------------------------------------------------
Init ==
  /\ created \in BOOLEAN
  /\ prodHead = 0 /\ prodTail = 0 /\ consHead = 0 /\ consTail = 0
  /\ ring = [s \in 0..(Size - 1) |-> NoPacket]
  /\ stage = [t \in Threads |-> "idle"]
  /\ burst = [t \in Threads |-> <<>>]
  /\ start = [t \in Threads |-> 0]
  /\ count = [t \in Threads |-> 0]
  /\ copied = [t \in Threads |-> 0]
  /\ promise = [t \in Threads |-> 0]
  /\ owed = {}
  /\ delivered = <<>>

\* Packets no call and no queue holds: a caller may enqueue them.
Free == Packets \ (owed \cup UNION {ToSet(burst[t]) : t \in Threads})

Reserve(t, head, n) ==
  /\ start' = [start EXCEPT ![t] = head]
  /\ count' = [count EXCEPT ![t] = n]
  /\ copied' = [copied EXCEPT ![t] = 0]
  /\ stage' = [stage EXCEPT ![t] = "claim"]
  /\ promise' = [promise EXCEPT ![t] = 0]

\* The call returns and its locals go.
Return(t) ==
  /\ stage' = [stage EXCEPT ![t] = "idle"]
  /\ burst' = [burst EXCEPT ![t] = <<>>]
  /\ start' = [start EXCEPT ![t] = 0]
  /\ count' = [count EXCEPT ![t] = 0]
  /\ copied' = [copied EXCEPT ![t] = 0]

\* available_count() by a producer about to enqueue.
ObserveRoom(p) ==
  /\ stage[p] = "idle"
  /\ promise' = [promise EXCEPT ![p] = IF created THEN FreeCount ELSE 0]
  /\ UNCHANGED <<created, indices, ring, stage, burst, start, count, copied,
                 owed, delivered>>

\* empty() by a consumer about to dequeue.
ObserveEmpty(c) ==
  /\ stage[c] = "idle"
  /\ promise' = [promise EXCEPT ![c] =
       IF created /\ prodTail # consTail THEN 1 ELSE 0]
  /\ UNCHANGED <<created, indices, ring, stage, burst, start, count, copied,
                 owed, delivered>>

\* The producer's view of the free room sizes the burst; with no room the
\* call returns 0 and the caller keeps its packets.
EnqueueReserve(p) ==
  /\ created
  /\ stage[p] = "idle"
  /\ FreeEntries(prodHead) > 0
  /\ \E b \in Bursts :
       /\ ToSet(b) \subseteq Free
       /\ Reserve(p, prodHead, AtMost(Len(b), FreeEntries(prodHead)))
       /\ burst' = [burst EXCEPT ![p] = b]
  /\ UNCHANGED <<created, indices, ring, owed, delivered>>

EnqueueClaim(p) ==
  /\ stage[p] = "claim"
  /\ prodHead' = Plus(start[p], count[p])
  /\ stage' = [stage EXCEPT ![p] = "copy"]
  /\ UNCHANGED <<created, prodTail, consHead, consTail, ring, burst, start,
                 count, copied, promise, owed, delivered>>

EnqueueCopy(p) ==
  /\ stage[p] = "copy"
  /\ copied[p] < count[p]
  /\ ring' = [ring EXCEPT ![Slot(Plus(start[p], copied[p]))] =
                burst[p][copied[p] + 1]]
  /\ copied' = [copied EXCEPT ![p] = copied[p] + 1]
  /\ UNCHANGED <<created, indices, stage, burst, start, count, promise, owed,
                 delivered>>

\* Mutant of EnqueuePublish: the tail is stored before the last copy.
EnqueuePublishEarly(p) ==
  /\ stage[p] = "copy"
  /\ copied[p] + 1 = count[p]
  /\ prodTail' = Plus(start[p], count[p])
  /\ owed' = owed \cup {burst[p][i] : i \in 1..count[p]}
  /\ Return(p)
  /\ UNCHANGED <<created, prodHead, consHead, consTail, ring, promise,
                 delivered>>

\* The packets beyond the returned count stay with the caller.
EnqueuePublish(p) ==
  /\ stage[p] = "copy"
  /\ copied[p] = count[p]
  /\ prodTail' = Plus(start[p], count[p])
  /\ owed' = owed \cup {burst[p][i] : i \in 1..count[p]}
  /\ Return(p)
  /\ UNCHANGED <<created, prodHead, consHead, consTail, ring, promise,
                 delivered>>

\* Mutant of DequeueReserve: waits for a full burst, as a bulk dequeue does.
DequeueReserveBulk(c) ==
  /\ created
  /\ stage[c] = "idle"
  /\ ReadyEntries(consHead) >= MaxBurst
  /\ Reserve(c, consHead, MaxBurst)
  /\ UNCHANGED <<created, indices, ring, burst, owed, delivered>>

\* A consumer asks for up to m packets; with none ready the call returns 0.
DequeueReserve(c) ==
  /\ created
  /\ stage[c] = "idle"
  /\ ReadyEntries(consHead) > 0
  /\ \E m \in 1..MaxBurst :
       Reserve(c, consHead, AtMost(m, ReadyEntries(consHead)))
  /\ UNCHANGED <<created, indices, ring, burst, owed, delivered>>

DequeueClaim(c) ==
  /\ stage[c] = "claim"
  /\ consHead' = Plus(start[c], count[c])
  /\ stage' = [stage EXCEPT ![c] = "copy"]
  /\ UNCHANGED <<created, prodHead, prodTail, consTail, ring, burst, start,
                 count, copied, promise, owed, delivered>>

DequeueCopy(c) ==
  /\ stage[c] = "copy"
  /\ copied[c] < count[c]
  /\ burst' = [burst EXCEPT ![c] =
                 Append(burst[c], ring[Slot(Plus(start[c], copied[c]))])]
  /\ copied' = [copied EXCEPT ![c] = copied[c] + 1]
  /\ UNCHANGED <<created, indices, ring, stage, start, count, promise, owed,
                 delivered>>

DequeuePublish(c) ==
  /\ stage[c] = "copy"
  /\ copied[c] = count[c]
  /\ consTail' = Plus(start[c], count[c])
  /\ delivered' = burst[c]
  /\ owed' = owed \ ToSet(burst[c])
  /\ Return(c)
  /\ UNCHANGED <<created, prodHead, prodTail, consHead, ring, promise>>

EnqueueStep(p) == EnqueueClaim(p) \/ EnqueueCopy(p) \/ EnqueuePublish(p)

DequeueStep(c) ==
  DequeueReserve(c) \/ DequeueClaim(c) \/ DequeueCopy(c) \/ DequeuePublish(c)

Next ==
  \/ \E p \in Producers : ObserveRoom(p) \/ EnqueueReserve(p) \/ EnqueueStep(p)
  \/ \E c \in Consumers : ObserveEmpty(c) \/ DequeueStep(c)

Spec == Init /\ [][Next]_vars

\* A call once begun runs to its end, and consumers poll for ever.
Fairness ==
  /\ \A p \in Producers : WF_vars(EnqueueStep(p))
  /\ \A c \in Consumers : WF_vars(DequeueStep(c))

FairSpec == Spec /\ Fairness

-----------------------------------------------------------------------------
(* Properties *)

\* The use the class documents: one thread on each side.
OneThreadPerSide ==
  /\ \A p, q \in Producers : p = q
  /\ \A c, d \in Consumers : c = d

Content == Packets \cup {NoPacket}

TypeOK ==
  /\ created \in BOOLEAN
  /\ prodHead \in Index /\ prodTail \in Index
  /\ consHead \in Index /\ consTail \in Index
  /\ ring \in [0..(Size - 1) -> Content]
  /\ stage \in [Threads -> {"idle", "claim", "copy"}]
  /\ start \in [Threads -> Index]
  /\ count \in [Threads -> Nat]
  /\ copied \in [Threads -> Nat]
  /\ promise \in [Threads -> Nat]
  /\ burst \in [Threads -> Seq(Content)]
  /\ owed \in SUBSET Content
  /\ delivered \in Seq(Content)

\* Where a producer stands between its two indices.
ProducerPosition(p) ==
  /\ stage[p] = "idle" => prodHead = prodTail /\ burst[p] = <<>>
  /\ stage[p] # "idle" =>
       /\ promise[p] = 0
       /\ start[p] = prodTail
       /\ count[p] > 0 /\ copied[p] <= count[p] /\ count[p] <= Len(burst[p])
  /\ stage[p] = "claim" =>
       /\ prodHead = prodTail
       /\ copied[p] = 0
       /\ count[p] <= Capacity - Distance(consTail, prodHead)
  /\ stage[p] = "copy" => count[p] = Distance(prodTail, prodHead)

\* Where a consumer stands between its two indices.
ConsumerPosition(c) ==
  /\ stage[c] = "idle" => consHead = consTail /\ burst[c] = <<>>
  /\ stage[c] # "idle" =>
       /\ promise[c] = 0
       /\ start[c] = consTail
       /\ count[c] > 0 /\ copied[c] <= count[c] /\ Len(burst[c]) = copied[c]
  /\ stage[c] = "claim" =>
       /\ consHead = consTail
       /\ copied[c] = 0
       /\ count[c] <= Distance(consHead, prodTail)
  /\ stage[c] = "copy" => count[c] = Distance(consTail, consHead)

\* The four indices of the ring keep their cyclic order, at most Capacity
\* apart, and every call stands between the indices it moves: what makes the
\* unsigned subtractions behind enqueue_burst and dequeue_burst mean
\* something after a wrap.
IndicesOrdered ==
  /\ Distance(consTail, prodHead) <= Capacity
  /\ Distance(consTail, consHead) <= Distance(consTail, prodTail)
  /\ Distance(consTail, prodTail) <= Distance(consTail, prodHead)
  /\ \A p \in Producers : ProducerPosition(p)
  /\ \A c \in Consumers : ConsumerPosition(c)

Writes(p) ==
  IF stage[p] = "copy"
  THEN {Slot(Plus(start[p], i)) : i \in copied[p]..(count[p] - 1)} ELSE {}

Reads(c) ==
  IF stage[c] = "copy"
  THEN {Slot(Plus(start[c], i)) : i \in copied[c]..(count[c] - 1)} ELSE {}

\* No slot the producer has yet to write in enqueue_burst is one the
\* consumer has yet to read in dequeue_burst: the plain copies never race,
\* across the wrap of the indices too.
CopiesNeverRace ==
  \A p \in Producers, c \in Consumers : Writes(p) \cap Reads(c) = {}

\* What available_count() told the producer still holds when it enqueues,
\* and a consumer that saw empty() return false finds a packet: the answers
\* stay true while the other side runs.
PromiseKept ==
  /\ \A p \in Producers : stage[p] = "idle" => promise[p] <= FreeEntries(prodHead)
  /\ \A c \in Consumers : stage[c] = "idle" => promise[c] <= ReadyEntries(consHead)

Contents ==
  [i \in 1..Distance(consTail, prodTail) |-> ring[Slot(Plus(consTail, i - 1))]]

\* Nothing is lost and nothing is duplicated: when no dequeue is in progress
\* the packets between the tails are those accepted and not handed out.
NoLossNoDuplicate ==
  (\A c \in Consumers : stage[c] = "idle")
    => ToSet(Contents) = owed /\ Cardinality(owed) = Len(Contents)

\* The callers of enqueue_burst and dequeue_burst see a bounded first-in
\* first-out queue, however the copies of the two sides interleave.
Fifo == INSTANCE BoundedFifo WITH queue <- Contents

RefinesFifo == Fifo!Spec

\* Every packet accepted by enqueue_burst is handed out in the end: the ring is
\* empty again and again, or the consumer moves on again and again, past
\* whatever waits in the bounded queue that RefinesFifo says the ring is.
EveryPacketDelivered ==
  []<>(consTail = prodTail) \/ []<><<consTail' # consTail>>_vars
=============================================================================
