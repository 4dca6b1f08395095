------------------------- MODULE MinimalDpdkProofs -------------------------
(***************************************************************************)
(* Proofs about MinimalDpdk for every set of buffers, ring capacity, burst *)
(* size, number of descriptors and frames, and for all ports and masks.    *)
(*                                                                         *)
(* The packets on their way are in four sequences, one after the other:    *)
(* the TX lcore's array, the ring, the RX lcore's array and the NIC.  Their*)
(* order is a property of each and of the pairs; a step moves the front of *)
(* one to the end of the next, drops some, or appends a frame.             *)
(***************************************************************************)
EXTENDS MinimalDpdk, FiniteSetTheorems, FunctionTheorems, SequenceTheorems, TLAPS

-----------------------------------------------------------------------------
(* Sequences of buffers in the order of their stamps *)

Rising(f, s) == \A i, j \in 1..Len(s) : i < j => f[s[i]] < f[s[j]]

Below(f, A, B) == \A x \in A, y \in B : f[x] < f[y]

\* What a sequence holds is what its positions hold.
LEMMA SetOf ==
  ASSUME NEW S, NEW s \in Seq(S)
  PROVE  /\ Len(s) \in Nat /\ ToSet(s) \subseteq S
         /\ \A i \in 1..Len(s) : s[i] \in ToSet(s)
         /\ \A x \in ToSet(s) : \E i \in 1..Len(s) : x = s[i]
  BY DEF ToSet

\* The empty sequence, and a sequence of one.
LEMMA ShortSequences ==
  ASSUME NEW S, NEW x \in S, NEW f
  PROVE  /\ <<>> \in Seq(S) /\ Len(<<>>) = 0 /\ ToSet(<<>>) = {} /\ Rising(f, <<>>)
         /\ <<x>> \in Seq(S) /\ Len(<<x>>) = 1 /\ ToSet(<<x>>) = {x}
         /\ Rising(f, <<x>>)
  <1>1. <<>> \in Seq(S) /\ Len(<<>>) = 0 /\ ToSet(<<>>) = {} /\ Rising(f, <<>>)
    BY DEF ToSet, Rising
  <1> DEFINE s == <<x>>
  <1>2. s \in Seq(S) /\ Len(s) = 1 /\ s[1] = x
    OBVIOUS
  <1> HIDE DEF s
  <1>3. ToSet(s) = {x}
    <2>1. \A i \in 1..1 : i = 1
      OBVIOUS
    <2> QED BY <1>2, <2>1, SetOf
  <1>4. Rising(f, s)
    BY <1>2 DEF Rising
  <1> QED BY <1>1, <1>2, <1>3, <1>4 DEF s

\* A sequence in two parts: what is in it, and its order.
LEMMA Joined ==
  ASSUME NEW S, NEW s \in Seq(S), NEW t \in Seq(S), NEW f
  PROVE  /\ s \o t \in Seq(S) /\ Len(s \o t) = Len(s) + Len(t)
         /\ ToSet(s \o t) = ToSet(s) \cup ToSet(t)
         /\ Rising(f, s \o t) <=>
              Rising(f, s) /\ Rising(f, t) /\ Below(f, ToSet(s), ToSet(t))
  <1> DEFINE u == s \o t
             n == Len(s)
             k == Len(t)
  <1>1. /\ u \in Seq(S) /\ Len(u) = n + k /\ n \in Nat /\ k \in Nat
        /\ \A i \in 1..n : u[i] = s[i]
        /\ \A i \in 1..k : u[n + i] = t[i]
    OBVIOUS
  <1>2. /\ \A i \in 1..n : s[i] \in ToSet(s)
        /\ \A i \in 1..k : t[i] \in ToSet(t)
        /\ \A i \in 1..(n + k) : u[i] \in ToSet(u)
        /\ \A x \in ToSet(s) : \E i \in 1..n : x = s[i]
        /\ \A x \in ToSet(t) : \E i \in 1..k : x = t[i]
        /\ \A x \in ToSet(u) : \E i \in 1..(n + k) : x = u[i]
    <2>1. /\ \A i \in 1..n : s[i] \in ToSet(s)
          /\ \A x \in ToSet(s) : \E i \in 1..n : x = s[i]
      BY SetOf
    <2>2. /\ \A i \in 1..k : t[i] \in ToSet(t)
          /\ \A x \in ToSet(t) : \E i \in 1..k : x = t[i]
      BY SetOf
    <2> HIDE DEF u
    <2>3. /\ \A i \in 1..Len(u) : u[i] \in ToSet(u)
          /\ \A x \in ToSet(u) : \E i \in 1..Len(u) : x = u[i]
      BY <1>1, SetOf
    <2> QED BY <1>1, <2>1, <2>2, <2>3
  <1> HIDE DEF u, n, k
  <1>3. \A i \in 1..(n + k) : i \in 1..n \/ \E j \in 1..k : i = n + j
    <2> SUFFICES ASSUME NEW i \in 1..(n + k), i \notin 1..n
                 PROVE  \E j \in 1..k : i = n + j
      OBVIOUS
    <2>1. i - n \in 1..k /\ i = n + (i - n)
      BY <1>1
    <2> QED BY <2>1
  <1>4. /\ \A i \in 1..n : i \in 1..(n + k)
        /\ \A i \in 1..k : n + i \in 1..(n + k)
    BY <1>1
  <1>5. ToSet(u) = ToSet(s) \cup ToSet(t)
    <2>1. ASSUME NEW x \in ToSet(u) PROVE x \in ToSet(s) \cup ToSet(t)
      <3>1. PICK i \in 1..(n + k) : x = u[i]
        BY <1>2
      <3>2. CASE i \in 1..n
        BY <1>1, <1>2, <3>1, <3>2
      <3>3. CASE i \notin 1..n
        <4>1. PICK j \in 1..k : i = n + j
          BY <1>3, <3>3
        <4> QED BY <1>1, <1>2, <3>1, <4>1
      <3> QED BY <3>2, <3>3
    <2>2. ASSUME NEW x \in ToSet(s) PROVE x \in ToSet(u)
      BY <1>1, <1>2, <1>4
    <2>3. ASSUME NEW x \in ToSet(t) PROVE x \in ToSet(u)
      <3>1. PICK i \in 1..k : x = t[i]
        BY <1>2
      <3> QED BY <1>1, <1>2, <1>4, <3>1
    <2> QED BY <2>1, <2>2, <2>3
  <1>6. ASSUME Rising(f, u)
        PROVE  Rising(f, s) /\ Rising(f, t) /\ Below(f, ToSet(s), ToSet(t))
    <2>1. \A i, j \in 1..(n + k) : i < j => f[u[i]] < f[u[j]]
      BY <1>1, <1>6 DEF Rising
    <2>2. Rising(f, s)
      <3> SUFFICES ASSUME NEW i \in 1..n, NEW j \in 1..n, i < j
                   PROVE  f[s[i]] < f[s[j]]
        BY DEF Rising, n
      <3> QED BY <1>1, <1>4, <2>1
    <2>3. Rising(f, t)
      <3> SUFFICES ASSUME NEW i \in 1..k, NEW j \in 1..k, i < j
                   PROVE  f[t[i]] < f[t[j]]
        BY DEF Rising, k
      <3>1. n + i < n + j /\ n + i \in 1..(n + k) /\ n + j \in 1..(n + k)
        BY <1>1
      <3> QED BY <1>1, <2>1, <3>1
    <2>4. Below(f, ToSet(s), ToSet(t))
      <3> SUFFICES ASSUME NEW i \in 1..n, NEW j \in 1..k
                   PROVE  f[s[i]] < f[t[j]]
        BY <1>2 DEF Below
      <3>1. i < n + j /\ i \in 1..(n + k) /\ n + j \in 1..(n + k)
        BY <1>1
      <3> QED BY <1>1, <2>1, <3>1
    <2> QED BY <2>2, <2>3, <2>4
  <1>7. ASSUME Rising(f, s), Rising(f, t), Below(f, ToSet(s), ToSet(t))
        PROVE  Rising(f, u)
    <2>1. \A i, j \in 1..n : i < j => f[s[i]] < f[s[j]]
      BY <1>7 DEF Rising, n
    <2>2. \A i, j \in 1..k : i < j => f[t[i]] < f[t[j]]
      BY <1>7 DEF Rising, k
    <2>3. \A i \in 1..n, j \in 1..k : f[s[i]] < f[t[j]]
      BY <1>2, <1>7 DEF Below
    <2> SUFFICES ASSUME NEW i \in 1..(n + k), NEW j \in 1..(n + k), i < j
                 PROVE  f[u[i]] < f[u[j]]
      BY <1>1 DEF Rising
    <2>4. CASE i \in 1..n /\ j \in 1..n
      BY <1>1, <2>1, <2>4
    <2>5. CASE i \in 1..n /\ j \notin 1..n
      <3>1. PICK b \in 1..k : j = n + b
        BY <1>3, <2>5
      <3> QED BY <1>1, <2>3, <2>5, <3>1
    <2>6. CASE i \notin 1..n
      <3>1. PICK a \in 1..k : i = n + a
        BY <1>3, <2>6
      <3>2. j \notin 1..n
        BY <1>1, <2>6
      <3>3. PICK b \in 1..k : j = n + b
        BY <1>3, <3>2
      <3>4. a < b
        BY <1>1, <3>1, <3>3
      <3> QED BY <1>1, <2>2, <3>1, <3>3, <3>4
    <2> QED BY <2>4, <2>5, <2>6
  <1> QED BY <1>1, <1>5, <1>6, <1>7 DEF u, n, k

\* The front of a sequence and the rest.
LEMMA Split ==
  ASSUME NEW S, NEW s \in Seq(S), NEW n \in 0..Len(s), NEW f
  PROVE  /\ SubSeq(s, 1, n) \in Seq(S) /\ Len(SubSeq(s, 1, n)) = n
         /\ SubSeq(s, n + 1, Len(s)) \in Seq(S)
         /\ Len(SubSeq(s, n + 1, Len(s))) = Len(s) - n
         /\ ToSet(s) = ToSet(SubSeq(s, 1, n)) \cup ToSet(SubSeq(s, n + 1, Len(s)))
         /\ Rising(f, s) =>
              /\ Rising(f, SubSeq(s, 1, n)) /\ Rising(f, SubSeq(s, n + 1, Len(s)))
              /\ Below(f, ToSet(SubSeq(s, 1, n)), ToSet(SubSeq(s, n + 1, Len(s))))
  <1> DEFINE a == SubSeq(s, 1, n)
             b == SubSeq(s, n + 1, Len(s))
  <1>1. /\ a \in Seq(S) /\ Len(a) = n /\ b \in Seq(S) /\ Len(b) = Len(s) - n
    OBVIOUS
  <1>2. a \o b = s
    <2>1. /\ \A i \in 1..n : a[i] = s[i]
          /\ \A i \in 1..(Len(s) - n) : b[i] = s[n + i]
      OBVIOUS
    <2> HIDE DEF a, b
    <2>2. /\ a \o b \in Seq(S) /\ Len(a \o b) = Len(s)
          /\ \A i \in 1..Len(s) : (a \o b)[i] = IF i <= n THEN a[i] ELSE b[i - n]
      BY <1>1, ConcatProperties
    <2>3. \A i \in 1..Len(s) : (a \o b)[i] = s[i]
      <3> SUFFICES ASSUME NEW i \in 1..Len(s) PROVE (a \o b)[i] = s[i]
        OBVIOUS
      <3>1. CASE i <= n
        BY <2>1, <2>2, <3>1
      <3>2. CASE ~(i <= n)
        <4>1. i - n \in 1..(Len(s) - n) /\ n + (i - n) = i
          BY <3>2
        <4> QED BY <2>1, <2>2, <3>2, <4>1
      <3> QED BY <3>1, <3>2
    <2> QED BY <2>2, <2>3, SeqEqual
  <1> HIDE DEF a, b
  <1>3. /\ ToSet(a \o b) = ToSet(a) \cup ToSet(b)
        /\ Rising(f, a \o b) => Rising(f, a) /\ Rising(f, b) /\ Below(f, ToSet(a), ToSet(b))
    BY <1>1, Joined
  <1> QED BY <1>1, <1>2, <1>3 DEF a, b

\* Order depends on the stamps of what is in the sequence only.
LEMMA SameStamps ==
  ASSUME NEW S, NEW s \in Seq(S), NEW f, NEW g, \A x \in ToSet(s) : f[x] = g[x],
         Rising(f, s)
  PROVE  Rising(g, s)
  BY SetOf DEF Rising

\* A sequence in order has no repetitions.
LEMMA NoRepetition ==
  ASSUME NEW S, NEW s \in Seq(S), NEW f \in [S -> Nat], Rising(f, s)
  PROVE  IsFiniteSet(ToSet(s)) /\ Cardinality(ToSet(s)) = Len(s)
  <1> DEFINE n == Len(s)
             T == ToSet(s)
  <1>1. n \in Nat /\ s \in [1..n -> T] /\ \A x \in T : \E i \in 1..n : x = s[i]
    BY SetOf
  <1>2. ASSUME NEW i \in 1..n, NEW j \in 1..n, s[i] = s[j] PROVE i = j
    <2>1. \A a, b \in 1..n : a < b => f[s[a]] < f[s[b]]
      BY DEF Rising
    <2>2. \A a \in 1..n : f[s[a]] \in Nat
      OBVIOUS
    <2> QED BY <1>1, <1>2, <2>1, <2>2
  <1> HIDE DEF n, T
  <1>3. ExistsBijection(1..n, T)
    <2>1. s \in Bijection(1..n, T)
      BY <1>1, <1>2 DEF Bijection, Injection, Surjection, IsInjective
    <2> QED BY <2>1 DEF ExistsBijection
  <1>4. IsFiniteSet(1..n) /\ Cardinality(1..n) = n
    BY <1>1, FS_Interval
  <1>5. IsFiniteSet(T) /\ Cardinality(T) = n
    BY <1>3, <1>4, FS_Bijection
  <1> QED BY <1>5 DEF n, T


\* The packets on their way: each part in order, each part before the next.
LEMMA FourParts ==
  ASSUME NEW S, NEW f,
         NEW a \in Seq(S), NEW b \in Seq(S), NEW c \in Seq(S), NEW d \in Seq(S)
  PROVE  /\ a \o b \o c \o d \in Seq(S)
         /\ Len(a \o b \o c \o d) = Len(a) + Len(b) + Len(c) + Len(d)
         /\ ToSet(a \o b \o c \o d) = ToSet(a) \cup ToSet(b) \cup ToSet(c) \cup ToSet(d)
         /\ Rising(f, a \o b \o c \o d) <=>
              /\ Rising(f, a) /\ Rising(f, b) /\ Rising(f, c) /\ Rising(f, d)
              /\ Below(f, ToSet(a), ToSet(b)) /\ Below(f, ToSet(a), ToSet(c))
              /\ Below(f, ToSet(a), ToSet(d)) /\ Below(f, ToSet(b), ToSet(c))
              /\ Below(f, ToSet(b), ToSet(d)) /\ Below(f, ToSet(c), ToSet(d))
  <1> DEFINE ab == a \o b
             abc == ab \o c
             abcd == abc \o d
  <1>1. /\ ab \in Seq(S) /\ Len(ab) = Len(a) + Len(b)
        /\ ToSet(ab) = ToSet(a) \cup ToSet(b)
        /\ Rising(f, ab) <=>
             Rising(f, a) /\ Rising(f, b) /\ Below(f, ToSet(a), ToSet(b))
    BY Joined
  <1> HIDE DEF ab
  <1>2. /\ abc \in Seq(S) /\ Len(abc) = Len(ab) + Len(c)
        /\ ToSet(abc) = ToSet(ab) \cup ToSet(c)
        /\ Rising(f, abc) <=>
             Rising(f, ab) /\ Rising(f, c) /\ Below(f, ToSet(ab), ToSet(c))
    BY <1>1, Joined
  <1> HIDE DEF abc
  <1>3. /\ abcd \in Seq(S) /\ Len(abcd) = Len(abc) + Len(d)
        /\ ToSet(abcd) = ToSet(abc) \cup ToSet(d)
        /\ Rising(f, abcd) <=>
             Rising(f, abc) /\ Rising(f, d) /\ Below(f, ToSet(abc), ToSet(d))
    BY <1>2, Joined
  <1> HIDE DEF abcd
  <1>4. Below(f, ToSet(ab), ToSet(c)) <=>
          Below(f, ToSet(a), ToSet(c)) /\ Below(f, ToSet(b), ToSet(c))
    BY <1>1 DEF Below
  <1>5. Below(f, ToSet(abc), ToSet(d)) <=>
          /\ Below(f, ToSet(a), ToSet(d)) /\ Below(f, ToSet(b), ToSet(d))
          /\ Below(f, ToSet(c), ToSet(d))
    BY <1>1, <1>2 DEF Below
  <1>6. /\ abcd \in Seq(S) /\ Len(abcd) = Len(a) + Len(b) + Len(c) + Len(d)
        /\ ToSet(abcd) = ToSet(a) \cup ToSet(b) \cup ToSet(c) \cup ToSet(d)
    BY <1>1, <1>2, <1>3
  <1> QED BY <1>1, <1>2, <1>3, <1>4, <1>5, <1>6 DEF abcd, abc, ab

-----------------------------------------------------------------------------
(* The inductive invariant *)

Travelling ==
  ToSet(txBufs) \cup ToSet(ring) \cup ToSet(rxBufs) \cup ToSet(nicRx)

\* Every array is in the order of arrival and before the one behind it.
Ordered ==
  /\ Rising(stamp, txBufs) /\ Rising(stamp, ring)
  /\ Rising(stamp, rxBufs) /\ Rising(stamp, nicRx)
  /\ Below(stamp, ToSet(txBufs), ToSet(ring)) /\ Below(stamp, ToSet(txBufs), ToSet(rxBufs))
  /\ Below(stamp, ToSet(txBufs), ToSet(nicRx)) /\ Below(stamp, ToSet(ring), ToSet(rxBufs))
  /\ Below(stamp, ToSet(ring), ToSet(nicRx)) /\ Below(stamp, ToSet(rxBufs), ToSet(nicRx))
  /\ \A m \in Mbufs : stamp[m] <= frames

BeforePool == {"eal", "args", "mempool"}

\* The pool, the NIC's sending side and the packets on their way share no
\* buffer, and from the creation of the pool on they have them all.
Owned ==
  /\ pool \cap nicTx = {} /\ pool \cap Travelling = {} /\ nicTx \cap Travelling = {}
  /\ main \in BeforePool =>
       pool = {} /\ nicTx = {} /\ txBufs = <<>> /\ ring = <<>> /\ rxBufs = <<>> /\ nicRx = <<>>
  /\ main \notin BeforePool \cup {"exited"} => Mbufs \subseteq pool \cup nicTx \cup Travelling

\* The lcores run between launch and the end of the wait; an lcore that is
\* between two bursts, or has stopped, has nothing in hand.
Lifetimes ==
  /\ main \in BeforePool \cup {"ring", "ports", "launch", "exited"} =>
       rx = "off" /\ tx = "off" /\ stats = "off"
  /\ main \in {"final", "cleanup", "done"} => Stopped(rx) /\ Stopped(tx) /\ Stopped(stats)
  /\ rx \in {"off", "poll", "exited"} => rxBufs = <<>>
  /\ tx \in {"off", "poll", "dequeue", "count", "exited"} => txBufs = <<>>

\* A burst that was sized fits: the other lcore can only have made room, or
\* put in more.
Sized ==
  /\ Len(ring) <= RingCapacity
  /\ rx = "enqueue" => rxCount <= Len(rxBufs) /\ rxCount + Len(ring) <= RingCapacity
  /\ tx = "dequeue" => txCount <= Len(ring)

\* Which buffers carry swapped addresses.
Swapped ==
  /\ nicTx \subseteq swapped
  /\ tx = "swap" => ToSet(txBufs) \cap swapped = {}
  /\ tx = "send" => ToSet(txBufs) \subseteq swapped
  /\ (ToSet(ring) \cup ToSet(rxBufs) \cup ToSet(nicRx)) \cap swapped = {}

Inv ==
  /\ TypeOK /\ Ordered /\ Owned /\ Lifetimes /\ Sized /\ Swapped
  /\ SentWasReceived /\ FinalStatsFinal


-----------------------------------------------------------------------------
(* The parts of Inv a step leaves alone *)

\* Order is about the packets on their way and the frames counted.
LEMMA OrderUntouched ==
  ASSUME Ordered, UNCHANGED <<stamp, frames, txBufs, ring, rxBufs, nicRx>>
  PROVE  Ordered'
  BY DEF Ordered

\* Ownership is about where buffers are and whether main has made the pool.
LEMMA OwnersUntouched ==
  ASSUME Owned, UNCHANGED <<pool, nicTx, txBufs, ring, rxBufs, nicRx>>,
         main' = main \/ (main \notin BeforePool /\ main' \notin BeforePool)
           \/ (main \in BeforePool /\ main' \in BeforePool \cup {"exited"}),
         main' # "exited" => main # "exited"
  PROVE  Owned'
  BY DEF Owned, Travelling, BeforePool

\* A burst that was sized still fits when neither the ring nor an array has
\* changed, and neither lcore has moved.
LEMMA SizesUntouched ==
  ASSUME Sized, UNCHANGED <<ring, rx, rxBufs, rxCount, tx, txCount>>
  PROVE  Sized'
  BY DEF Sized

\* Addresses are swapped by the TX lcore.
LEMMA SwapsUntouched ==
  ASSUME Swapped, UNCHANGED <<nicTx, swapped, tx, txBufs, ring, rxBufs, nicRx>>
  PROVE  Swapped'
  BY DEF Swapped

\* The account of what was received is kept by the two lcores.
LEMMA AccountUntouched ==
  ASSUME SentWasReceived,
         UNCHANGED <<tx, txBufs, txCount, txPackets, ring, rx, rxBufs, rxPackets>>
  PROVE  SentWasReceived'
  BY DEF SentWasReceived, TxUncounted, RxCountedInHand

\* What the final statistics say stays true while nobody moves.
LEMMA FinalUntouched ==
  ASSUME FinalStatsFinal, UNCHANGED <<txBufs, ring, rxBufs, rxPackets, txPackets, shown>>,
         main' \in {"cleanup", "done"} => main \in {"cleanup", "done"}
  PROVE  FinalStatsFinal'
  BY DEF FinalStatsFinal

-----------------------------------------------------------------------------
(* main *)

\* Setting up the EAL, the arguments, the pool and the ring.
LEMMA MainSetupPreserves ==
  ASSUME Inv, MainSetup,
         UNCHANGED <<setup, forceQuit, nic, swapped, ring, rxVars, txVars, stats, shown>>
  PROVE  Inv'
  <1> USE DEF Inv
  <1>1. UNCHANGED <<lcores, port, forceQuit, frames, stamp, nicRx, nicTx, swapped, ring,
                    rx, rxBufs, rxCount, rxPackets, tx, txBufs, txCount, txPackets,
                    stats, shown>>
    BY DEF setup, nic, rxVars, txVars
  <1>2. /\ main \in {"eal", "args", "mempool", "ring"}
        /\ main' \in {"args", "mempool", "ring", "ports", "exited"}
        /\ main = "ring" => main' \in {"ports", "exited"}
        /\ main' = "ring" => main = "mempool"
        /\ main' = "ports" => main = "ring"
        /\ pool' = pool \/ (main = "mempool" /\ main' = "ring" /\ pool' = Mbufs)
        /\ main' = "ring" => pool' = Mbufs
    BY DEF MainSetup, Exit
  <1>3. TypeOK'
    BY <1>1, <1>2 DEF TypeOK
  <1>4. Owned'
    <2>1. CASE main' = "ring"
      <3>1. nicTx = {} /\ txBufs = <<>> /\ ring = <<>> /\ rxBufs = <<>> /\ nicRx = <<>>
        BY <1>2, <2>1 DEF Owned, BeforePool
      <3>2. Travelling' = {}
        BY <1>1, <3>1, ShortSequences DEF Travelling
      <3> QED BY <1>1, <1>2, <2>1, <3>1, <3>2 DEF Owned, BeforePool
    <2>2. CASE main' # "ring"
      BY <1>1, <1>2, <2>2, OwnersUntouched DEF BeforePool
    <2> QED BY <2>1, <2>2
  <1>5. Lifetimes'
    BY <1>1, <1>2 DEF Lifetimes, BeforePool, Stopped
  <1>6. FinalStatsFinal'
    BY <1>1, <1>2, FinalUntouched
  <1>7. Ordered' /\ Sized' /\ Swapped' /\ SentWasReceived'
    BY <1>1, OrderUntouched, SizesUntouched, SwapsUntouched, AccountUntouched
  <1> QED BY <1>3, <1>4, <1>5, <1>6, <1>7

\* Ports, the launch of the lcores, the wait for them, and the end.
LEMMA MainLaterPreserves ==
  ASSUME Inv, Main, ~MainSetup
  PROVE  Inv'
  <1> USE DEF Inv
  <1>1. UNCHANGED <<lcores, forceQuit, pool, frames, stamp, nicRx, nicTx, swapped, ring,
                    rxBufs, rxCount, rxPackets, txBufs, txCount, txPackets>>
    BY DEF Main, InitPort, PortsDone, Cleanup, Launch, WaitLcores, FinalStats,
           setup, nic, rxVars, txVars
  <1>2. CASE InitPort /\ UNCHANGED <<forceQuit, pool, nic, swapped, ring, rxVars, txVars,
                                    stats, shown>>
    <2>1. /\ main = "ports" /\ main' \in {"ports", "exited"}
          /\ UNCHANGED <<rx, tx, stats, shown>>
          /\ port' \in [Ports -> {"down", "started", "closed"}]
      BY <1>2 DEF InitPort, Exit, TypeOK, rxVars, txVars
    <2>2. TypeOK'
      BY <1>1, <2>1 DEF TypeOK
    <2>3. Owned'
      BY <1>1, <2>1, OwnersUntouched DEF BeforePool
    <2>4. Lifetimes'
      BY <1>1, <2>1 DEF Lifetimes, BeforePool, Stopped
    <2>5. Ordered' /\ Sized' /\ Swapped' /\ SentWasReceived' /\ FinalStatsFinal'
      BY <1>1, <2>1, OrderUntouched, SizesUntouched, SwapsUntouched, AccountUntouched,
         FinalUntouched
    <2> QED BY <2>2, <2>3, <2>4, <2>5
  <1>3. CASE PortsDone /\ UNCHANGED <<forceQuit, pool, nic, swapped, ring, rxVars, txVars,
                                     stats, shown>>
    <2>1. /\ main = "ports" /\ main' \in {"launch", "exited"}
          /\ UNCHANGED <<rx, tx, stats, shown, port>>
      BY <1>3 DEF PortsDone, Exit, setup, rxVars, txVars
    <2>2. TypeOK'
      BY <1>1, <2>1 DEF TypeOK
    <2>3. Owned'
      BY <1>1, <2>1, OwnersUntouched DEF BeforePool
    <2>4. Lifetimes'
      BY <1>1, <2>1 DEF Lifetimes, BeforePool, Stopped
    <2>5. Ordered' /\ Sized' /\ Swapped' /\ SentWasReceived' /\ FinalStatsFinal'
      BY <1>1, <2>1, OrderUntouched, SizesUntouched, SwapsUntouched, AccountUntouched,
         FinalUntouched
    <2> QED BY <2>2, <2>3, <2>4, <2>5
  <1>4. CASE Launch /\ UNCHANGED shown
    <2>1. /\ main = "launch" /\ main' = "wait" /\ rx' = "poll" /\ tx' = "poll"
          /\ stats' \in {"loop", "off"} /\ UNCHANGED <<shown, port>>
          /\ rx = "off" /\ tx = "off"
      BY <1>4 DEF Launch, Lifetimes, BeforePool
    <2>2. TypeOK'
      BY <1>1, <2>1 DEF TypeOK
    <2>3. Owned'
      BY <1>1, <2>1, OwnersUntouched DEF BeforePool
    <2>4. Lifetimes'
      BY <1>1, <2>1 DEF Lifetimes, BeforePool, Stopped
    <2>5. Sized' /\ Swapped'
      BY <1>1, <2>1 DEF Sized, Swapped
    <2>6. SentWasReceived'
      BY <1>1, <2>1 DEF SentWasReceived, TxUncounted, RxCountedInHand
    <2>7. Ordered' /\ FinalStatsFinal'
      BY <1>1, <2>1, OrderUntouched, FinalUntouched
    <2> QED BY <2>2, <2>3, <2>4, <2>5, <2>6, <2>7
  <1>5. CASE WaitLcores /\ UNCHANGED <<setup, rxVars, txVars, stats, shown>>
    <2>1. /\ main = "wait" /\ main' = "final" /\ Stopped(rx) /\ Stopped(tx) /\ Stopped(stats)
          /\ UNCHANGED <<rx, tx, stats, shown, port>>
      BY <1>5 DEF WaitLcores, setup, rxVars, txVars
    <2>2. TypeOK'
      BY <1>1, <2>1 DEF TypeOK
    <2>3. Owned'
      BY <1>1, <2>1, OwnersUntouched DEF BeforePool
    <2>4. Lifetimes'
      BY <1>1, <2>1 DEF Lifetimes, BeforePool, Stopped
    <2>5. Ordered' /\ Sized' /\ Swapped' /\ SentWasReceived' /\ FinalStatsFinal'
      BY <1>1, <2>1, OrderUntouched, SizesUntouched, SwapsUntouched, AccountUntouched,
         FinalUntouched
    <2> QED BY <2>2, <2>3, <2>4, <2>5
  <1>6. CASE FinalStats /\ UNCHANGED <<setup, rxVars, txVars, stats>>
    <2>1. /\ main = "final" /\ main' = "cleanup" /\ UNCHANGED <<rx, tx, stats, port>>
          /\ shown' = [rx |-> rxPackets, tx |-> txPackets, ring |-> Len(ring),
                       available |-> Cardinality(pool)]
      BY <1>6 DEF FinalStats, setup, rxVars, txVars
    <2>2. IsFiniteSet(pool) /\ Cardinality(pool) \in Nat
      BY BufferAssumption, FS_Subset, FS_CardinalityType DEF TypeOK
    <2>3. Len(ring) \in Nat
      BY DEF TypeOK
    <2>4. TypeOK'
      BY <1>1, <2>1, <2>2, <2>3 DEF TypeOK
    <2>5. Owned'
      BY <1>1, <2>1, OwnersUntouched DEF BeforePool
    <2>6. Lifetimes'
      BY <1>1, <2>1 DEF Lifetimes, BeforePool, Stopped
    <2>7. Ordered' /\ Sized' /\ Swapped' /\ SentWasReceived'
      BY <1>1, <2>1, OrderUntouched, SizesUntouched, SwapsUntouched, AccountUntouched
    <2>8. FinalStatsFinal'
      <3>1. /\ rx \in {"off", "exited"} /\ tx \in {"off", "exited"}
            /\ rxBufs = <<>> /\ txBufs = <<>>
        BY <2>1 DEF Lifetimes, Stopped
      <3>2. TxUncounted = 0 /\ RxCountedInHand = 0
        BY <3>1 DEF TxUncounted, RxCountedInHand
      <3>3. txPackets + Len(ring) <= rxPackets
        BY <2>3, <3>2 DEF SentWasReceived, TypeOK
      <3> QED BY <1>1, <2>1, <3>1, <3>3 DEF FinalStatsFinal
    <2> QED BY <2>4, <2>5, <2>6, <2>7, <2>8
  <1>7. CASE Cleanup /\ UNCHANGED <<forceQuit, pool, nic, swapped, ring, rxVars, txVars,
                                   stats, shown>>
    <2>1. /\ main = "cleanup" /\ main' = "done" /\ UNCHANGED <<rx, tx, stats, shown>>
      BY <1>7 DEF Cleanup, rxVars, txVars
    <2>2. port' \in [Ports -> {"down", "started", "closed"}]
      BY <1>7 DEF Cleanup, TypeOK
    <2>3. TypeOK'
      BY <1>1, <2>1, <2>2 DEF TypeOK
    <2>4. Owned'
      BY <1>1, <2>1, OwnersUntouched DEF BeforePool
    <2>5. Lifetimes'
      BY <1>1, <2>1 DEF Lifetimes, BeforePool, Stopped
    <2>6. Ordered' /\ Sized' /\ Swapped' /\ SentWasReceived' /\ FinalStatsFinal'
      BY <1>1, <2>1, OrderUntouched, SizesUntouched, SwapsUntouched, AccountUntouched,
         FinalUntouched
    <2> QED BY <2>3, <2>4, <2>5, <2>6
  <1> QED BY <1>2, <1>3, <1>4, <1>5, <1>6, <1>7 DEF Main

\* The signal handler and the stats lcore change nothing of the above but
\* the latter's own step.
LEMMA SignalPreserves ==
  ASSUME Inv, SignalHandler
  PROVE  Inv'
  <1> USE DEF Inv
  <1>1. UNCHANGED <<main, lcores, port, pool, frames, stamp, nicRx, nicTx, swapped, ring,
                    rx, rxBufs, rxCount, rxPackets, tx, txBufs, txCount, txPackets,
                    stats, shown>>
        /\ forceQuit' = TRUE
    BY DEF SignalHandler, setup, nic, rxVars, txVars
  <1>2. TypeOK' /\ Lifetimes'
    BY <1>1 DEF TypeOK, Lifetimes, BeforePool, Stopped
  <1> QED
    BY <1>1, <1>2, OrderUntouched, OwnersUntouched, SizesUntouched, SwapsUntouched,
       AccountUntouched, FinalUntouched

\* The stats lcore is gone when main is past its wait.
LEMMA StatsPreserves ==
  ASSUME Inv, StatsStep
  PROVE  Inv'
  <1> USE DEF Inv
  <1>1. UNCHANGED <<main, lcores, port, forceQuit, pool, frames, stamp, nicRx, nicTx,
                    swapped, ring, rx, rxBufs, rxCount, rxPackets, tx, txBufs, txCount,
                    txPackets, shown>>
        /\ stats \in {"loop", "print"} /\ stats' \in {"loop", "print", "exited"}
    BY DEF StatsStep, StatsRest, setup, nic, rxVars, txVars
  <1>2. TypeOK' /\ Lifetimes'
    BY <1>1 DEF TypeOK, Lifetimes, BeforePool, Stopped
  <1> QED
    BY <1>1, <1>2, OrderUntouched, OwnersUntouched, SizesUntouched, SwapsUntouched,
       AccountUntouched, FinalUntouched


-----------------------------------------------------------------------------
(* The RX lcore *)

\* The lcores step between launch and the end of the wait only.
LEMMA OnlyWhileWaiting ==
  ASSUME Inv, rx \notin {"off", "exited"} \/ tx \notin {"off", "exited"}
  PROVE  main = "wait"
  BY DEF Inv, TypeOK, Lifetimes, BeforePool, Stopped

\* rx_burst moves the front of what the NIC holds to the empty array.
LEMMA RxPollPreserves ==
  ASSUME Inv, RxPoll
  PROVE  Inv'
  <1> USE DEF Inv
  <1>1. /\ UNCHANGED <<main, lcores, port, forceQuit, pool, frames, stamp, nicTx, swapped,
                       ring, rxCount, rxPackets, tx, txBufs, txCount, txPackets, stats, shown>>
        /\ rx = "poll" /\ rxBufs = <<>>
    BY DEF RxPoll, RxSame, setup, txVars, Lifetimes
  <1>2. main = "wait"
    BY <1>1, OnlyWhileWaiting
  <1>3. CASE rx' = "exited" /\ UNCHANGED <<rxBufs, nicRx>>
    <2>1. TypeOK' /\ Lifetimes'
      BY <1>1, <1>2, <1>3 DEF TypeOK, Lifetimes, BeforePool, Stopped
    <2>2. Sized' /\ SentWasReceived'
      BY <1>1, <1>3 DEF Sized, SentWasReceived, TxUncounted, RxCountedInHand
    <2> QED BY <1>1, <1>3, <2>1, <2>2, OrderUntouched, OwnersUntouched, SwapsUntouched,
               FinalUntouched
  <1>4. ASSUME NEW n \in 1..AtMost(BurstSize, Len(nicRx)), rx' = "count",
               rxBufs' = SubSeq(nicRx, 1, n), nicRx' = SubSeq(nicRx, n + 1, Len(nicRx))
        PROVE  Inv'
    <2>1. n \in 0..Len(nicRx) /\ nicRx \in Seq(Mbufs)
      BY SizeAssumption DEF TypeOK, AtMost
    <2>2. /\ rxBufs' \in Seq(Mbufs) /\ nicRx' \in Seq(Mbufs)
          /\ ToSet(nicRx) = ToSet(rxBufs') \cup ToSet(nicRx')
          /\ Rising(stamp, nicRx) =>
               /\ Rising(stamp, rxBufs') /\ Rising(stamp, nicRx')
               /\ Below(stamp, ToSet(rxBufs'), ToSet(nicRx'))
      BY <1>4, <2>1, Split
    <2>3. ToSet(rxBufs) = {} /\ ToSet(<<>>) = {}
      BY <1>1, ShortSequences
    <2>4. TypeOK'
      BY <1>1, <1>4, <2>2 DEF TypeOK
    <2>5. Ordered'
      <3>1. /\ Rising(stamp, rxBufs') /\ Rising(stamp, nicRx')
            /\ Below(stamp, ToSet(rxBufs'), ToSet(nicRx'))
        BY <2>2 DEF Ordered
      <3>2. /\ Below(stamp, ToSet(txBufs), ToSet(rxBufs')) /\ Below(stamp, ToSet(txBufs), ToSet(nicRx'))
            /\ Below(stamp, ToSet(ring), ToSet(rxBufs')) /\ Below(stamp, ToSet(ring), ToSet(nicRx'))
        BY <2>2 DEF Ordered, Below
      <3> QED BY <1>1, <3>1, <3>2 DEF Ordered
    <2>6. Owned'
      <3>1. Travelling' = Travelling
        BY <1>1, <2>2, <2>3 DEF Travelling
      <3> QED BY <1>1, <1>2, <3>1 DEF Owned, BeforePool
    <2>7. Lifetimes' /\ FinalStatsFinal'
      BY <1>1, <1>2, <1>4 DEF Lifetimes, BeforePool, Stopped, FinalStatsFinal
    <2>8. Sized' /\ SentWasReceived'
      BY <1>1, <1>4 DEF Sized, SentWasReceived, TxUncounted, RxCountedInHand
    <2>9. Swapped'
      BY <1>1, <2>2 DEF Swapped
    <2> QED BY <2>4, <2>5, <2>6, <2>7, <2>8, <2>9
  <1> QED BY <1>3, <1>4 DEF RxPoll

\* The burst is counted.
LEMMA RxCountedPreserves ==
  ASSUME Inv, RxCounted
  PROVE  Inv'
  <1> USE DEF Inv
  <1>1. /\ UNCHANGED <<main, lcores, port, forceQuit, pool, frames, stamp, nicRx, nicTx, swapped,
                       ring, rxBufs, rxCount, tx, txBufs, txCount, txPackets, stats, shown>>
        /\ rx = "count" /\ rx' = "reserve" /\ rxPackets' = rxPackets + Len(rxBufs)
    BY DEF RxCounted, RxSame, setup, nic, txVars
  <1>2. main = "wait"
    BY <1>1, OnlyWhileWaiting
  <1>3. Len(rxBufs) \in Nat /\ Len(ring) \in Nat
    BY DEF TypeOK
  <1>4. TypeOK' /\ Lifetimes' /\ Sized' /\ FinalStatsFinal'
    BY <1>1, <1>2, <1>3 DEF TypeOK, Lifetimes, BeforePool, Stopped, Sized, FinalStatsFinal
  <1>5. SentWasReceived'
    <2>1. TxUncounted' = TxUncounted /\ RxCountedInHand = 0 /\ RxCountedInHand' = Len(rxBufs)
      BY <1>1 DEF TxUncounted, RxCountedInHand
    <2>2. TxUncounted \in Nat
      BY DEF TypeOK, TxUncounted
    <2> QED BY <1>1, <1>3, <2>1, <2>2 DEF SentWasReceived, TypeOK
  <1> QED BY <1>1, <1>4, <1>5, OrderUntouched, OwnersUntouched, SwapsUntouched

\* The enqueue decides how many fit.
LEMMA RxReservePreserves ==
  ASSUME Inv, RxReserve
  PROVE  Inv'
  <1> USE DEF Inv
  <1>1. /\ UNCHANGED <<main, lcores, port, forceQuit, pool, frames, stamp, nicRx, nicTx, swapped,
                       ring, rxBufs, rxPackets, tx, txBufs, txCount, txPackets, stats, shown>>
        /\ rx = "reserve" /\ rx' = "enqueue"
        /\ rxCount' = AtMost(Len(rxBufs), RingCapacity - Len(ring))
    BY DEF RxReserve, RxSame, setup, nic, txVars
  <1>2. main = "wait"
    BY <1>1, OnlyWhileWaiting
  <1>3. Len(rxBufs) \in Nat /\ Len(ring) \in Nat /\ Len(ring) <= RingCapacity
    BY DEF TypeOK, Sized
  <1>4. /\ rxCount' \in Nat /\ rxCount' <= Len(rxBufs)
        /\ rxCount' + Len(ring) <= RingCapacity
    BY <1>1, <1>3, SizeAssumption DEF AtMost
  <1>5. TypeOK' /\ Lifetimes' /\ Sized' /\ FinalStatsFinal'
    BY <1>1, <1>2, <1>4 DEF TypeOK, Lifetimes, BeforePool, Stopped, Sized, FinalStatsFinal
  <1>6. SentWasReceived'
    BY <1>1 DEF SentWasReceived, TxUncounted, RxCountedInHand
  <1> QED BY <1>1, <1>5, <1>6, OrderUntouched, OwnersUntouched, SwapsUntouched

\* The enqueue moves the front of the burst to the end of the ring.
LEMMA RxEnqueuePreserves ==
  ASSUME Inv, RxEnqueue
  PROVE  Inv'
  <1> USE DEF Inv
  <1>1. /\ UNCHANGED <<main, lcores, port, forceQuit, pool, frames, stamp, nicRx, nicTx, swapped,
                       rxCount, rxPackets, tx, txBufs, txCount, txPackets, stats, shown>>
        /\ rx = "enqueue" /\ rx' = "free"
        /\ ring' = ring \o SubSeq(rxBufs, 1, rxCount)
        /\ rxBufs' = SubSeq(rxBufs, rxCount + 1, Len(rxBufs))
    BY DEF RxEnqueue, RxSame, setup, nic, txVars
  <1>2. main = "wait"
    BY <1>1, OnlyWhileWaiting
  <1>3. /\ rxCount \in 0..Len(rxBufs) /\ rxBufs \in Seq(Mbufs) /\ ring \in Seq(Mbufs)
        /\ Len(ring) \in Nat /\ Len(rxBufs) \in Nat /\ rxCount + Len(ring) <= RingCapacity
    BY <1>1 DEF TypeOK, Sized
  <1> DEFINE front == SubSeq(rxBufs, 1, rxCount)
  <1>4. /\ front \in Seq(Mbufs) /\ Len(front) = rxCount
        /\ rxBufs' \in Seq(Mbufs) /\ Len(rxBufs') = Len(rxBufs) - rxCount
        /\ ToSet(rxBufs) = ToSet(front) \cup ToSet(rxBufs')
        /\ Rising(stamp, rxBufs) =>
             /\ Rising(stamp, front) /\ Rising(stamp, rxBufs')
             /\ Below(stamp, ToSet(front), ToSet(rxBufs'))
    BY <1>1, <1>3, Split
  <1>5. ring' = ring \o front
    BY <1>1
  <1> HIDE DEF front
  <1>6. /\ ring' \in Seq(Mbufs) /\ Len(ring') = Len(ring) + rxCount
        /\ ToSet(ring') = ToSet(ring) \cup ToSet(front)
        /\ Rising(stamp, ring') <=>
             Rising(stamp, ring) /\ Rising(stamp, front)
               /\ Below(stamp, ToSet(ring), ToSet(front))
    <2>1. /\ ring \o front \in Seq(Mbufs) /\ Len(ring \o front) = Len(ring) + Len(front)
          /\ ToSet(ring \o front) = ToSet(ring) \cup ToSet(front)
          /\ Rising(stamp, ring \o front) <=>
               Rising(stamp, ring) /\ Rising(stamp, front)
                 /\ Below(stamp, ToSet(ring), ToSet(front))
      BY ONLY <1>3, <1>4, Joined
    <2> QED BY <1>4, <1>5, <2>1
  <1>7. TypeOK'
    BY <1>1, <1>4, <1>6 DEF TypeOK
  <1>8. Ordered'
    <2>1. /\ Rising(stamp, front) /\ Rising(stamp, rxBufs')
          /\ Below(stamp, ToSet(front), ToSet(rxBufs'))
      BY <1>4 DEF Ordered
    <2>2. Below(stamp, ToSet(ring), ToSet(front)) /\ Rising(stamp, ring')
      BY <1>4, <1>6, <2>1 DEF Ordered, Below
    <2>3. /\ Below(stamp, ToSet(txBufs), ToSet(ring')) /\ Below(stamp, ToSet(txBufs), ToSet(rxBufs'))
          /\ Below(stamp, ToSet(ring'), ToSet(rxBufs')) /\ Below(stamp, ToSet(ring'), ToSet(nicRx))
          /\ Below(stamp, ToSet(rxBufs'), ToSet(nicRx))
      BY <1>4, <1>6, <2>1 DEF Ordered, Below
    <2> QED BY <1>1, <2>1, <2>2, <2>3 DEF Ordered
  <1>9. Owned'
    <2>1. Travelling' = Travelling
      BY <1>1, <1>4, <1>6 DEF Travelling
    <2> QED BY <1>1, <1>2, <2>1 DEF Owned, BeforePool
  <1>10. Lifetimes' /\ FinalStatsFinal'
    BY <1>1, <1>2 DEF Lifetimes, BeforePool, Stopped, FinalStatsFinal
  <1>11. Sized'
    <2>1. tx = "dequeue" => txCount <= Len(ring) + rxCount
      BY <1>3 DEF Sized, TypeOK
    <2> QED BY <1>1, <1>3, <1>6, <2>1 DEF Sized
  <1>12. Swapped'
    BY <1>1, <1>4, <1>6 DEF Swapped
  <1>13. SentWasReceived'
    <2>1. /\ TxUncounted' = TxUncounted
          /\ RxCountedInHand = Len(rxBufs) /\ RxCountedInHand' = Len(rxBufs')
      BY <1>1 DEF TxUncounted, RxCountedInHand
    <2>2. TxUncounted \in Nat /\ txPackets \in Nat /\ rxPackets \in Nat /\ rxCount \in Nat
      BY DEF TypeOK, TxUncounted
    <2>3. Len(ring') + Len(rxBufs') = Len(ring) + Len(rxBufs)
      BY <1>3, <1>4, <1>6
    <2>4. txPackets + TxUncounted + Len(ring) + Len(rxBufs) <= rxPackets
      BY <2>1 DEF SentWasReceived
    <2>5. Len(ring') \in Nat /\ Len(rxBufs') \in Nat
      BY <1>4, <1>6
    <2>6. txPackets + TxUncounted + Len(ring') + Len(rxBufs') <= rxPackets
      BY ONLY <1>3, <2>2, <2>3, <2>4, <2>5
    <2> QED BY <1>1, <2>1, <2>6 DEF SentWasReceived
  <1> QED BY <1>7, <1>8, <1>9, <1>10, <1>11, <1>12, <1>13

\* What did not fit goes back to the pool.
LEMMA RxFreePreserves ==
  ASSUME Inv, RxFree
  PROVE  Inv'
  <1> USE DEF Inv
  <1>1. /\ UNCHANGED <<main, lcores, port, forceQuit, frames, stamp, nicRx, nicTx, swapped,
                       ring, rxPackets, tx, txBufs, txCount, txPackets, stats, shown>>
        /\ rx = "free" /\ rx' = "poll" /\ rxBufs' = <<>> /\ rxCount' = 0
        /\ pool' = pool \cup ToSet(rxBufs)
    BY DEF RxFree, RxSame, setup, nic, txVars
  <1>2. main = "wait"
    BY <1>1, OnlyWhileWaiting
  <1>3. /\ ToSet(rxBufs) \subseteq Mbufs /\ Len(rxBufs) \in Nat /\ Len(ring) \in Nat
    BY SetOf DEF TypeOK
  <1>4. /\ rxBufs' \in Seq(Mbufs) /\ Len(rxBufs') = 0 /\ ToSet(rxBufs') = {}
        /\ Rising(stamp, rxBufs')
    BY <1>1 DEF ToSet, Rising
  <1>5. TypeOK'
    BY <1>1, <1>3, <1>4 DEF TypeOK
  <1>6. Ordered'
    BY <1>1, <1>4 DEF Ordered, Below
  <1>7. Owned'
    <2>1. /\ Travelling' \cup ToSet(rxBufs) = Travelling
          /\ Travelling' \cap ToSet(rxBufs) = {}
      <3>1. \A x \in ToSet(rxBufs) : ~(stamp[x] < stamp[x])
        BY <1>3 DEF TypeOK
      <3> QED BY <1>1, <1>4, <3>1 DEF Travelling, Ordered, Below
    <2> QED BY <1>1, <1>2, <2>1 DEF Owned, BeforePool
  <1>8. Lifetimes' /\ FinalStatsFinal' /\ Sized'
    BY <1>1, <1>2 DEF Lifetimes, BeforePool, Stopped, FinalStatsFinal, Sized
  <1>9. Swapped'
    BY <1>1, <1>4 DEF Swapped
  <1>10. SentWasReceived'
    <2>1. /\ TxUncounted' = TxUncounted
          /\ RxCountedInHand = Len(rxBufs) /\ RxCountedInHand' = 0
      BY <1>1 DEF TxUncounted, RxCountedInHand
    <2>2. TxUncounted \in Nat
      BY DEF TypeOK, TxUncounted
    <2> QED BY <1>1, <1>3, <2>1, <2>2 DEF SentWasReceived, TypeOK
  <1> QED BY <1>5, <1>6, <1>7, <1>8, <1>9, <1>10

-----------------------------------------------------------------------------
(* The TX lcore *)

\* The front of an array, as the NIC is handed it.
LEMMA FrontOf ==
  ASSUME NEW S, NEW s \in Seq(S), NEW n \in 0..Len(s)
  PROVE  {s[i] : i \in 1..n} = ToSet(SubSeq(s, 1, n))
  <1> DEFINE a == SubSeq(s, 1, n)
  <1>1. a \in Seq(S) /\ Len(a) = n /\ \A i \in 1..n : a[i] = s[i]
    OBVIOUS
  <1> HIDE DEF a
  <1>2. /\ \A i \in 1..n : a[i] \in ToSet(a)
        /\ \A x \in ToSet(a) : \E i \in 1..n : x = a[i]
    BY <1>1, SetOf
  <1>3. {s[i] : i \in 1..n} = ToSet(a)
    BY <1>1, <1>2
  <1> QED BY <1>3 DEF a

\* The TX lcore may stop, or size the burst it is going to dequeue.
LEMMA TxPollPreserves ==
  ASSUME Inv, TxPoll
  PROVE  Inv'
  <1> USE DEF Inv
  <1>1. /\ UNCHANGED <<main, lcores, port, forceQuit, pool, frames, stamp, nicRx, nicTx, swapped,
                       ring, rx, rxBufs, rxCount, rxPackets, txBufs, txPackets, stats, shown>>
        /\ tx = "poll" /\ tx' \in {"exited", "dequeue"}
        /\ tx' = "exited" => txCount' = txCount
        /\ tx' = "dequeue" => txCount' = AtMost(BurstSize, Len(ring))
    BY DEF TxPoll, TxSame, setup, nic, rxVars
  <1>2. main = "wait"
    BY <1>1, OnlyWhileWaiting
  <1>3. Len(ring) \in Nat
    BY DEF TypeOK
  <1>4. txCount' \in Nat /\ (tx' = "dequeue" => txCount' <= Len(ring))
    BY <1>1, <1>3, SizeAssumption DEF TypeOK, AtMost
  <1>5. TypeOK' /\ Lifetimes' /\ Sized' /\ FinalStatsFinal'
    BY <1>1, <1>2, <1>4 DEF TypeOK, Lifetimes, BeforePool, Stopped, Sized, FinalStatsFinal
  <1>6. SentWasReceived' /\ Swapped'
    BY <1>1 DEF SentWasReceived, TxUncounted, RxCountedInHand, Swapped
  <1> QED BY <1>1, <1>5, <1>6, OrderUntouched, OwnersUntouched

\* The dequeue moves the front of the ring to the empty array.
LEMMA TxDequeuePreserves ==
  ASSUME Inv, TxDequeue
  PROVE  Inv'
  <1> USE DEF Inv
  <1>1. /\ UNCHANGED <<main, lcores, port, forceQuit, pool, frames, stamp, nicRx, nicTx, swapped,
                       rx, rxBufs, rxCount, rxPackets, txCount, txPackets, stats, shown>>
        /\ tx = "dequeue" /\ tx' = "swap" /\ txBufs = <<>>
        /\ txBufs' = SubSeq(ring, 1, txCount)
        /\ ring' = SubSeq(ring, txCount + 1, Len(ring))
    BY DEF TxDequeue, TxSame, setup, nic, rxVars, Lifetimes
  <1>2. main = "wait"
    BY <1>1, OnlyWhileWaiting
  <1>3. txCount \in 0..Len(ring) /\ ring \in Seq(Mbufs) /\ Len(ring) \in Nat
    BY <1>1 DEF TypeOK, Sized
  <1>4. /\ txBufs' \in Seq(Mbufs) /\ Len(txBufs') = txCount
        /\ ring' \in Seq(Mbufs) /\ Len(ring') = Len(ring) - txCount
        /\ ToSet(ring) = ToSet(txBufs') \cup ToSet(ring')
        /\ Rising(stamp, ring) =>
             /\ Rising(stamp, txBufs') /\ Rising(stamp, ring')
             /\ Below(stamp, ToSet(txBufs'), ToSet(ring'))
    BY <1>1, <1>3, Split
  <1>5. ToSet(txBufs) = {}
    BY <1>1 DEF ToSet
  <1>6. TypeOK'
    BY <1>1, <1>4 DEF TypeOK
  <1>7. Ordered'
    <2>1. /\ Rising(stamp, txBufs') /\ Rising(stamp, ring')
          /\ Below(stamp, ToSet(txBufs'), ToSet(ring'))
      BY <1>4 DEF Ordered
    <2>2. /\ Below(stamp, ToSet(txBufs'), ToSet(rxBufs)) /\ Below(stamp, ToSet(txBufs'), ToSet(nicRx))
          /\ Below(stamp, ToSet(ring'), ToSet(rxBufs)) /\ Below(stamp, ToSet(ring'), ToSet(nicRx))
      BY <1>4 DEF Ordered, Below
    <2> QED BY <1>1, <2>1, <2>2 DEF Ordered
  <1>8. Owned'
    <2>1. Travelling' = Travelling
      BY <1>1, <1>4, <1>5 DEF Travelling
    <2> QED BY <1>1, <1>2, <2>1 DEF Owned, BeforePool
  <1>9. Lifetimes' /\ FinalStatsFinal'
    BY <1>1, <1>2 DEF Lifetimes, BeforePool, Stopped, FinalStatsFinal
  <1>10. Sized'
    <2>1. Len(ring') <= RingCapacity
      BY <1>3, <1>4, SizeAssumption DEF Sized
    <2>2. rx = "enqueue" => rxCount + Len(ring') <= RingCapacity
      BY <1>3, <1>4, SizeAssumption DEF Sized, TypeOK
    <2> QED BY <1>1, <2>1, <2>2 DEF Sized
  <1>11. Swapped'
    BY <1>1, <1>4 DEF Swapped
  <1>12. SentWasReceived'
    <2>1. /\ RxCountedInHand' = RxCountedInHand
          /\ TxUncounted = 0 /\ TxUncounted' = Len(txBufs')
      BY <1>1 DEF TxUncounted, RxCountedInHand
    <2>2. RxCountedInHand \in Nat /\ txPackets \in Nat /\ rxPackets \in Nat
      BY DEF TypeOK, RxCountedInHand
    <2>3. txPackets + 0 + Len(ring) + RxCountedInHand <= rxPackets
      BY <2>1 DEF SentWasReceived
    <2>4. txPackets + Len(txBufs') + Len(ring') + RxCountedInHand <= rxPackets
      BY ONLY <1>3, <1>4, <2>2, <2>3
    <2> QED BY <1>1, <2>1, <2>4 DEF SentWasReceived
  <1> QED BY <1>6, <1>7, <1>8, <1>9, <1>10, <1>11, <1>12

\* Two packets of different places are different, and none is in two arrays.
LEMMA Apart ==
  ASSUME TypeOK, Ordered
  PROVE  /\ ToSet(txBufs) \cap (ToSet(ring) \cup ToSet(rxBufs) \cup ToSet(nicRx)) = {}
         /\ ToSet(txBufs) \subseteq Mbufs /\ ToSet(ring) \subseteq Mbufs
         /\ ToSet(rxBufs) \subseteq Mbufs /\ ToSet(nicRx) \subseteq Mbufs
  <1>1. /\ ToSet(txBufs) \subseteq Mbufs /\ ToSet(ring) \subseteq Mbufs
        /\ ToSet(rxBufs) \subseteq Mbufs /\ ToSet(nicRx) \subseteq Mbufs
    BY SetOf DEF TypeOK
  <1>2. \A x \in Mbufs : ~(stamp[x] < stamp[x])
    BY DEF TypeOK
  <1> QED BY <1>1, <1>2 DEF Ordered, Below

\* The addresses of the whole burst trade places.
LEMMA TxSwapPreserves ==
  ASSUME Inv, TxSwap
  PROVE  Inv'
  <1> USE DEF Inv
  <1>1. /\ UNCHANGED <<main, lcores, port, forceQuit, pool, frames, stamp, nicRx, nicTx,
                       ring, rx, rxBufs, rxCount, rxPackets, txBufs, txCount, txPackets, stats,
                       shown>>
        /\ tx = "swap" /\ tx' = "send"
        /\ swapped' = (swapped \ ToSet(txBufs)) \cup (ToSet(txBufs) \ swapped)
    BY DEF TxSwap, TxSame, setup, nic, rxVars
  <1>2. main = "wait"
    BY <1>1, OnlyWhileWaiting
  <1>3. swapped' = swapped \cup ToSet(txBufs)
    BY <1>1 DEF Swapped
  <1>4. ToSet(txBufs) \subseteq Mbufs
    BY Apart
  <1>5. TypeOK' /\ Lifetimes' /\ Sized' /\ FinalStatsFinal'
    BY <1>1, <1>2, <1>3, <1>4 DEF TypeOK, Lifetimes, BeforePool, Stopped, Sized, FinalStatsFinal
  <1>6. Swapped'
    BY <1>1, <1>3, Apart DEF Swapped
  <1>7. SentWasReceived'
    BY <1>1 DEF SentWasReceived, TxUncounted, RxCountedInHand
  <1> QED BY <1>1, <1>5, <1>6, <1>7, OrderUntouched, OwnersUntouched

\* The NIC takes the front of the burst.
LEMMA TxSendPreserves ==
  ASSUME Inv, TxSend
  PROVE  Inv'
  <1> USE DEF Inv
  <1>1. /\ UNCHANGED <<main, lcores, port, forceQuit, pool, frames, stamp, nicRx, swapped,
                       ring, rx, rxBufs, rxCount, rxPackets, txPackets, stats, shown>>
        /\ tx = "send" /\ tx' = "free"
    BY DEF TxSend, TxSame, setup, rxVars
  <1>2. main = "wait"
    BY <1>1, OnlyWhileWaiting
  <1>3. PICK n \in 0..Len(txBufs) :
          /\ nicTx' = nicTx \cup {txBufs[i] : i \in 1..n}
          /\ txBufs' = SubSeq(txBufs, n + 1, Len(txBufs))
          /\ txCount' = n
    BY DEF TxSend
  <1>4. txBufs \in Seq(Mbufs) /\ Len(txBufs) \in Nat /\ Len(ring) \in Nat /\ n \in Nat
    BY DEF TypeOK
  <1> DEFINE front == ToSet(SubSeq(txBufs, 1, n))
  <1>5. /\ txBufs' \in Seq(Mbufs) /\ Len(txBufs') = Len(txBufs) - n
        /\ ToSet(txBufs) = front \cup ToSet(txBufs')
        /\ Rising(stamp, txBufs) =>
             Rising(stamp, txBufs') /\ Below(stamp, front, ToSet(txBufs'))
    BY <1>3, <1>4, Split
  <1>6. nicTx' = nicTx \cup front
    BY <1>3, <1>4, FrontOf
  <1> HIDE DEF front
  <1>7. front \subseteq Mbufs /\ ToSet(txBufs') \subseteq Mbufs
    BY <1>5, Apart
  <1>8. TypeOK'
    BY <1>1, <1>3, <1>4, <1>5, <1>6, <1>7 DEF TypeOK
  <1>9. Ordered'
    <2>1. /\ Rising(stamp, txBufs') /\ Below(stamp, ToSet(txBufs'), ToSet(ring))
          /\ Below(stamp, ToSet(txBufs'), ToSet(rxBufs)) /\ Below(stamp, ToSet(txBufs'), ToSet(nicRx))
      BY <1>5 DEF Ordered, Below
    <2> QED BY <1>1, <2>1 DEF Ordered
  <1>10. Owned'
    <2>1. front \cap ToSet(txBufs') = {}
      <3>1. \A x \in Mbufs : ~(stamp[x] < stamp[x])
        BY DEF TypeOK
      <3> QED BY <1>5, <1>7, <3>1 DEF Ordered, Below
    <2>2. Travelling' \cup front = Travelling /\ Travelling' \cap front = {}
      BY <1>1, <1>5, <2>1, Apart DEF Travelling
    <2> QED BY <1>1, <1>2, <1>6, <2>2 DEF Owned, BeforePool
  <1>11. Lifetimes' /\ FinalStatsFinal' /\ Sized'
    BY <1>1, <1>2 DEF Lifetimes, BeforePool, Stopped, FinalStatsFinal, Sized
  <1>12. Swapped'
    BY <1>1, <1>5, <1>6 DEF Swapped
  <1>13. SentWasReceived'
    <2>1. /\ RxCountedInHand' = RxCountedInHand
          /\ TxUncounted = Len(txBufs) /\ TxUncounted' = Len(txBufs') + n
      BY <1>1, <1>3 DEF TxUncounted, RxCountedInHand
    <2>2. TxUncounted' = TxUncounted
      BY <1>4, <1>5, <2>1
    <2> QED BY <1>1, <2>1, <2>2 DEF SentWasReceived
  <1> QED BY <1>8, <1>9, <1>10, <1>11, <1>12, <1>13

\* What the NIC did not take goes back to the pool.
LEMMA TxFreePreserves ==
  ASSUME Inv, TxFree
  PROVE  Inv'
  <1> USE DEF Inv
  <1>1. /\ UNCHANGED <<main, lcores, port, forceQuit, frames, stamp, nicRx, nicTx, swapped,
                       ring, rx, rxBufs, rxCount, rxPackets, txCount, txPackets, stats, shown>>
        /\ tx = "free" /\ tx' = "count" /\ txBufs' = <<>>
        /\ pool' = pool \cup ToSet(txBufs)
    BY DEF TxFree, TxSame, setup, nic, rxVars
  <1>2. main = "wait"
    BY <1>1, OnlyWhileWaiting
  <1>3. /\ ToSet(txBufs) \subseteq Mbufs /\ Len(txBufs) \in Nat /\ Len(ring) \in Nat
    BY SetOf DEF TypeOK
  <1>4. /\ txBufs' \in Seq(Mbufs) /\ Len(txBufs') = 0 /\ ToSet(txBufs') = {}
        /\ Rising(stamp, txBufs')
    BY <1>1 DEF ToSet, Rising
  <1>5. TypeOK'
    BY <1>1, <1>3, <1>4 DEF TypeOK
  <1>6. Ordered'
    BY <1>1, <1>4 DEF Ordered, Below
  <1>7. Owned'
    <2>1. Travelling' \cup ToSet(txBufs) = Travelling /\ Travelling' \cap ToSet(txBufs) = {}
      BY <1>1, <1>4, Apart DEF Travelling
    <2> QED BY <1>1, <1>2, <2>1 DEF Owned, BeforePool
  <1>8. Lifetimes' /\ FinalStatsFinal' /\ Sized'
    BY <1>1, <1>2 DEF Lifetimes, BeforePool, Stopped, FinalStatsFinal, Sized
  <1>9. Swapped'
    BY <1>1 DEF Swapped
  <1>10. SentWasReceived'
    <2>1. /\ RxCountedInHand' = RxCountedInHand
          /\ TxUncounted = Len(txBufs) + txCount /\ TxUncounted' = txCount
      BY <1>1 DEF TxUncounted, RxCountedInHand
    <2>2. RxCountedInHand \in Nat /\ txPackets \in Nat /\ rxPackets \in Nat /\ txCount \in Nat
      BY DEF TypeOK, RxCountedInHand
    <2>3. txPackets + (Len(txBufs) + txCount) + Len(ring) + RxCountedInHand <= rxPackets
      BY <2>1 DEF SentWasReceived
    <2>4. txPackets + txCount + Len(ring) + RxCountedInHand <= rxPackets
      BY ONLY <1>3, <2>2, <2>3
    <2> QED BY <1>1, <2>1, <2>4 DEF SentWasReceived
  <1> QED BY <1>5, <1>6, <1>7, <1>8, <1>9, <1>10

\* What the NIC took is counted.
LEMMA TxCountedPreserves ==
  ASSUME Inv, TxCounted
  PROVE  Inv'
  <1> USE DEF Inv
  <1>1. /\ UNCHANGED <<main, lcores, port, forceQuit, pool, frames, stamp, nicRx, nicTx, swapped,
                       ring, rx, rxBufs, rxCount, rxPackets, txBufs, stats, shown>>
        /\ tx = "count" /\ tx' = "poll" /\ txCount' = 0 /\ txPackets' = txPackets + txCount
    BY DEF TxCounted, TxSame, setup, nic, rxVars
  <1>2. main = "wait"
    BY <1>1, OnlyWhileWaiting
  <1>3. TypeOK' /\ Lifetimes' /\ Sized' /\ FinalStatsFinal' /\ Swapped'
    BY <1>1, <1>2 DEF TypeOK, Lifetimes, BeforePool, Stopped, Sized, FinalStatsFinal, Swapped
  <1>4. SentWasReceived'
    <2>1. /\ RxCountedInHand' = RxCountedInHand
          /\ TxUncounted = txCount /\ TxUncounted' = 0
      BY <1>1 DEF TxUncounted, RxCountedInHand
    <2>2. /\ RxCountedInHand \in Nat /\ txPackets \in Nat /\ rxPackets \in Nat /\ txCount \in Nat
          /\ Len(ring) \in Nat
      BY DEF TypeOK, RxCountedInHand
    <2>3. txPackets + txCount + Len(ring) + RxCountedInHand <= rxPackets
      BY <2>1 DEF SentWasReceived
    <2>4. (txPackets + txCount) + 0 + Len(ring) + RxCountedInHand <= rxPackets
      BY ONLY <2>2, <2>3
    <2> QED BY <1>1, <2>1, <2>4 DEF SentWasReceived
  <1> QED BY <1>1, <1>3, <1>4, OrderUntouched, OwnersUntouched

-----------------------------------------------------------------------------
(* The NIC *)

\* A frame that arrives is newer than all others, and its buffer was free.
LEMMA ArrivePreserves ==
  ASSUME Inv, Arrive
  PROVE  Inv'
  <1> USE DEF Inv
  <1>1. /\ UNCHANGED <<main, lcores, port, forceQuit, nicTx, ring, rx, rxBufs, rxCount,
                       rxPackets, tx, txBufs, txCount, txPackets, stats, shown>>
        /\ frames' = frames + 1 /\ main # "exited"
    BY DEF Arrive, Running, setup, rxVars, txVars
  <1>2. PICK m \in pool :
          /\ pool' = pool \ {m} /\ nicRx' = Append(nicRx, m)
          /\ stamp' = [stamp EXCEPT ![m] = frames + 1] /\ swapped' = swapped \ {m}
    BY DEF Arrive
  <1>3. /\ m \in Mbufs /\ m \notin Travelling /\ m \notin nicTx
        /\ main \notin BeforePool
    BY <1>2 DEF Owned, TypeOK
  <1>4. /\ nicRx' \in Seq(Mbufs) /\ ToSet(nicRx') = ToSet(nicRx) \cup {m}
        /\ Rising(stamp', nicRx') <=>
             Rising(stamp', nicRx) /\ Below(stamp', ToSet(nicRx), {m})
    <2>1. nicRx \in Seq(Mbufs)
      BY DEF TypeOK
    <2>2. nicRx' = nicRx \o <<m>>
      BY <1>2, <1>3, <2>1, AppendIsConcat
    <2>3. /\ <<m>> \in Seq(Mbufs) /\ ToSet(<<m>>) = {m} /\ Rising(stamp', <<m>>)
      BY <1>3, ShortSequences
    <2> DEFINE one == <<m>>
    <2> HIDE DEF one
    <2>4. /\ nicRx \o one \in Seq(Mbufs) /\ ToSet(nicRx \o one) = ToSet(nicRx) \cup ToSet(one)
          /\ Rising(stamp', nicRx \o one) <=>
               Rising(stamp', nicRx) /\ Rising(stamp', one)
                 /\ Below(stamp', ToSet(nicRx), ToSet(one))
      <3>1. one \in Seq(Mbufs)
        BY <2>3 DEF one
      <3> QED BY ONLY <2>1, <3>1, Joined
    <2> QED BY <2>2, <2>3, <2>4 DEF one
  <1>5. /\ stamp' \in [Mbufs -> Nat] /\ stamp'[m] = frames + 1
        /\ \A x \in Mbufs : x # m => stamp'[x] = stamp[x]
        /\ \A x \in Mbufs : stamp[x] <= frames /\ stamp[x] \in Nat
    BY <1>2, <1>3 DEF TypeOK, Ordered
  <1>6. TypeOK'
    BY <1>1, <1>2, <1>4, <1>5 DEF TypeOK
  <1>7. Ordered'
    <2>1. \A x \in Travelling : x \in Mbufs /\ stamp'[x] = stamp[x] /\ stamp'[x] < frames + 1
      <3>1. Travelling \subseteq Mbufs
        BY Apart DEF Travelling
      <3> QED BY <1>3, <1>5, <3>1 DEF TypeOK
    <2>2. /\ Rising(stamp', txBufs) /\ Rising(stamp', ring)
          /\ Rising(stamp', rxBufs) /\ Rising(stamp', nicRx)
      <3>1. /\ \A x \in ToSet(txBufs) : stamp[x] = stamp'[x]
            /\ \A x \in ToSet(ring) : stamp[x] = stamp'[x]
            /\ \A x \in ToSet(rxBufs) : stamp[x] = stamp'[x]
            /\ \A x \in ToSet(nicRx) : stamp[x] = stamp'[x]
        BY <2>1 DEF Travelling
      <3>2. /\ txBufs \in Seq(Mbufs) /\ ring \in Seq(Mbufs) /\ rxBufs \in Seq(Mbufs)
            /\ nicRx \in Seq(Mbufs)
            /\ Rising(stamp, txBufs) /\ Rising(stamp, ring) /\ Rising(stamp, rxBufs)
            /\ Rising(stamp, nicRx)
        BY DEF TypeOK, Ordered
      <3> QED BY ONLY <3>1, <3>2, SameStamps
    <2>3. /\ Below(stamp', ToSet(txBufs), ToSet(ring)) /\ Below(stamp', ToSet(txBufs), ToSet(rxBufs))
          /\ Below(stamp', ToSet(txBufs), ToSet(nicRx)) /\ Below(stamp', ToSet(ring), ToSet(rxBufs))
          /\ Below(stamp', ToSet(ring), ToSet(nicRx)) /\ Below(stamp', ToSet(rxBufs), ToSet(nicRx))
      BY <2>1 DEF Ordered, Below, Travelling
    <2>4. /\ Below(stamp', ToSet(txBufs), {m}) /\ Below(stamp', ToSet(ring), {m})
          /\ Below(stamp', ToSet(rxBufs), {m}) /\ Below(stamp', ToSet(nicRx), {m})
      BY <1>5, <2>1 DEF Below, Travelling
    <2>5. /\ Below(stamp', ToSet(txBufs), ToSet(nicRx')) /\ Below(stamp', ToSet(ring), ToSet(nicRx'))
          /\ Below(stamp', ToSet(rxBufs), ToSet(nicRx'))
      BY <1>4, <2>3, <2>4 DEF Below
    <2>6. \A x \in Mbufs : stamp'[x] <= frames'
      <3>1. frames \in Nat
        BY DEF TypeOK
      <3> SUFFICES ASSUME NEW x \in Mbufs PROVE stamp'[x] <= frames + 1
        BY <1>1
      <3>2. CASE x = m
        BY ONLY <1>5, <3>1, <3>2
      <3>3. CASE x # m
        <4>1. stamp'[x] = stamp[x] /\ stamp[x] <= frames /\ stamp[x] \in Nat
          BY <1>5, <3>3
        <4> QED BY ONLY <3>1, <4>1
      <3> QED BY <3>2, <3>3
    <2> QED BY <1>1, <1>4, <2>2, <2>3, <2>4, <2>5, <2>6 DEF Ordered
  <1>8. Owned'
    <2>1. Travelling' = Travelling \cup {m}
      BY <1>1, <1>4 DEF Travelling
    <2> QED BY <1>1, <1>2, <1>3, <2>1 DEF Owned
  <1>9. Lifetimes' /\ FinalStatsFinal' /\ Sized'
    BY <1>1 DEF Lifetimes, BeforePool, Stopped, FinalStatsFinal, Sized
  <1>10. Swapped'
    <2>1. m \notin ToSet(txBufs)
      BY <1>3 DEF Travelling
    <2> QED BY <1>1, <1>2, <1>3, <1>4, <2>1 DEF Swapped
  <1> QED BY <1>1, <1>6, <1>7, <1>8, <1>9, <1>10, AccountUntouched

\* A buffer whose frame is on the wire is free again.
LEMMA SentPreserves ==
  ASSUME Inv, Sent
  PROVE  Inv'
  <1> USE DEF Inv
  <1>1. /\ UNCHANGED <<main, lcores, port, forceQuit, frames, stamp, nicRx, swapped, ring,
                       rx, rxBufs, rxCount, rxPackets, tx, txBufs, txCount, txPackets,
                       stats, shown>>
        /\ \E m \in nicTx : nicTx' = nicTx \ {m} /\ pool' = pool \cup {m}
    BY DEF Sent, setup, rxVars, txVars
  <1>2. TypeOK'
    <2>1. PICK m \in nicTx : nicTx' = nicTx \ {m} /\ pool' = pool \cup {m}
      BY <1>1
    <2>2. pool \in SUBSET Mbufs /\ nicTx \in SUBSET Mbufs
      BY DEF TypeOK
    <2>3. pool' \in SUBSET Mbufs /\ nicTx' \in SUBSET Mbufs
      BY <2>1, <2>2
    <2> QED BY <1>1, <2>3 DEF TypeOK
  <1>3. Lifetimes' /\ Swapped'
    BY <1>1 DEF Lifetimes, BeforePool, Stopped, Swapped
  <1>4. Owned'
    <2>1. Travelling' = Travelling
      BY <1>1 DEF Travelling
    <2> QED BY <1>1, <2>1 DEF Owned
  <1> QED
    BY <1>1, <1>2, <1>3, <1>4, OrderUntouched, SizesUntouched, AccountUntouched, FinalUntouched

-----------------------------------------------------------------------------
(* Theorems *)

\* Before main does anything the invariant holds.
LEMMA InitInv == Init => Inv
  <1> SUFFICES ASSUME Init PROVE Inv
    OBVIOUS
  <1>1. TypeOK
    <2>1. /\ port \in [Ports -> {"down", "started", "closed"}]
          /\ shown \in [rx : Nat, tx : Nat, ring : Nat, available : Nat]
          /\ stamp \in [Mbufs -> Nat]
      BY DEF Init
    <2>2. /\ nicRx \in Seq(Mbufs) /\ ring \in Seq(Mbufs)
          /\ rxBufs \in Seq(Mbufs) /\ txBufs \in Seq(Mbufs)
      BY DEF Init
    <2> QED BY <2>1, <2>2 DEF Init, TypeOK
  <1>2. ToSet(<<>>) = {} /\ Rising(stamp, <<>>) /\ Below(stamp, {}, {})
    BY DEF ToSet, Rising, Below
  <1>3. Ordered
    <2>1. \A m \in Mbufs : stamp[m] <= frames
      BY DEF Init
    <2> QED BY <1>2, <2>1 DEF Init, Ordered
  <1>4. Owned
    BY <1>2 DEF Init, Owned, Travelling, BeforePool
  <1>5. Lifetimes /\ Sized /\ Swapped
    BY <1>2, SizeAssumption DEF Init, Lifetimes, BeforePool, Stopped, Sized, Swapped
  <1>6. SentWasReceived /\ FinalStatsFinal
    BY DEF Init, SentWasReceived, TxUncounted, RxCountedInHand, FinalStatsFinal
  <1> QED BY <1>1, <1>3, <1>4, <1>5, <1>6 DEF Inv

\* Every step of main, of the signal handler, of an lcore and of the NIC
\* keeps the invariant.
LEMMA NextPreserves == Inv /\ [Next]_vars => Inv'
  <1> SUFFICES ASSUME Inv, [Next]_vars PROVE Inv'
    OBVIOUS
  <1>1. CASE Main
    <2>1. CASE MainSetup
      <3>1. UNCHANGED <<setup, forceQuit, nic, swapped, ring, rxVars, txVars, stats, shown>>
        BY <1>1, <2>1 DEF Main, MainSetup, InitPort, PortsDone, Launch, WaitLcores,
           FinalStats, Cleanup
      <3> QED BY <2>1, <3>1, MainSetupPreserves
    <2>2. CASE ~MainSetup
      BY <1>1, <2>2, MainLaterPreserves
    <2> QED BY <2>1, <2>2
  <1>2. CASE SignalHandler
    BY <1>2, SignalPreserves
  <1>3. CASE RxStep
    BY <1>3, RxPollPreserves, RxCountedPreserves, RxReservePreserves,
       RxEnqueuePreserves, RxFreePreserves DEF RxStep
  <1>4. CASE TxStep
    BY <1>4, TxPollPreserves, TxDequeuePreserves, TxSwapPreserves, TxSendPreserves,
       TxFreePreserves, TxCountedPreserves DEF TxStep
  <1>5. CASE StatsStep
    BY <1>5, StatsPreserves
  <1>6. CASE Arrive
    BY <1>6, ArrivePreserves
  <1>7. CASE Sent
    BY <1>7, SentPreserves
  <1>8. CASE UNCHANGED vars
    <2>1. UNCHANGED <<main, lcores, port, forceQuit, pool, frames, stamp, nicRx, nicTx,
                      swapped, ring, rx, rxBufs, rxCount, rxPackets, tx, txBufs, txCount,
                      txPackets, stats, shown>>
      BY <1>8 DEF vars, setup, nic, rxVars, txVars
    <2>2. TypeOK' /\ Lifetimes'
      BY <2>1 DEF Inv, TypeOK, Lifetimes, BeforePool, Stopped
    <2> QED
      BY <2>1, <2>2, OrderUntouched, OwnersUntouched, SizesUntouched, SwapsUntouched,
         AccountUntouched, FinalUntouched DEF Inv
  <1> QED BY <1>1, <1>2, <1>3, <1>4, <1>5, <1>6, <1>7, <1>8 DEF Next

\* Wherever the lcores stand and whatever the ring and the NIC take or leave,
\* the buffers are owned, in order and accounted for as Inv says.
THEOREM Invariance == Spec => []Inv
  <1> QED BY InitInv, NextPreserves, PTL DEF Spec

\* The types, for all buffers, capacities, burst sizes and ports.
THEOREM TypeCorrect == Spec => []TypeOK
  <1>1. Inv => TypeOK
    BY DEF Inv
  <1> QED BY <1>1, Invariance, PTL

\* Packets never overtake each other between the NIC's two sides.
THEOREM OrderKept == Spec => []InOrder
  <1>1. Inv => InOrder
    <2> SUFFICES ASSUME Inv PROVE InOrder
      OBVIOUS
    <2>1. Rising(stamp, txBufs \o ring \o rxBufs \o nicRx)
      BY FourParts DEF Inv, TypeOK, Ordered
    <2> QED BY <2>1 DEF InOrder, Pipeline, Rising
  <1> QED BY <1>1, Invariance, PTL

\* From the creation of the pool to the end, no buffer of any path is leaked,
\* owned twice or freed twice.
THEOREM EveryBufferOwned == Spec => []OneOwner
  <1>1. Inv => OneOwner
    <2> SUFFICES ASSUME Inv, main \notin BeforePool \cup {"exited"} PROVE
          /\ pool \cup nicTx \cup ToSet(Pipeline) = Mbufs
          /\ Cardinality(pool) + Cardinality(nicTx) + Len(Pipeline) = Cardinality(Mbufs)
      BY DEF OneOwner, BeforePool
    <2> DEFINE p == txBufs \o ring \o rxBufs \o nicRx
    <2>1. p \in Seq(Mbufs) /\ ToSet(p) = Travelling /\ Rising(stamp, p)
      BY FourParts DEF Inv, TypeOK, Ordered, Travelling
    <2>2. stamp \in [Mbufs -> Nat]
      BY DEF Inv, TypeOK
    <2> HIDE DEF p
    <2>3. IsFiniteSet(ToSet(p)) /\ Cardinality(ToSet(p)) = Len(p) /\ Len(p) \in Nat
      BY <2>1, <2>2, NoRepetition
    <2>4. /\ IsFiniteSet(pool) /\ IsFiniteSet(nicTx)
          /\ Cardinality(pool) \in Nat /\ Cardinality(nicTx) \in Nat
      BY BufferAssumption, FS_Subset, FS_CardinalityType DEF Inv, TypeOK
    <2>5. pool \cup nicTx \cup Travelling = Mbufs
      BY Apart DEF Inv, TypeOK, Owned, Travelling
    <2>6. pool \cap nicTx = {} /\ (pool \cup nicTx) \cap Travelling = {}
      BY DEF Inv, Owned
    <2>7. /\ IsFiniteSet(pool \cup nicTx)
          /\ Cardinality(pool \cup nicTx) = Cardinality(pool) + Cardinality(nicTx)
      <3>1. Cardinality(pool \cap nicTx) = 0
        BY <2>6, FS_EmptySet
      <3>2. /\ IsFiniteSet(pool \cup nicTx)
            /\ Cardinality(pool \cup nicTx)
                 = Cardinality(pool) + Cardinality(nicTx) - Cardinality(pool \cap nicTx)
        BY ONLY <2>4, FS_Union
      <3> QED BY <2>4, <3>1, <3>2
    <2>8. Cardinality((pool \cup nicTx) \cup Travelling)
            = Cardinality(pool) + Cardinality(nicTx) + Len(p)
      <3>1. Cardinality((pool \cup nicTx) \cap Travelling) = 0
        BY <2>6, FS_EmptySet
      <3> DEFINE kept == pool \cup nicTx
      <3>2. IsFiniteSet(kept) /\ IsFiniteSet(Travelling) /\ Cardinality(kept \cap Travelling) = 0
        BY <2>1, <2>3, <2>7, <3>1
      <3>3. Cardinality(kept \cup Travelling)
              = Cardinality(kept) + Cardinality(Travelling) - Cardinality(kept \cap Travelling)
        BY ONLY <3>2, FS_Union
      <3> QED BY <2>1, <2>3, <2>4, <2>7, <3>2, <3>3
    <2> QED BY <2>1, <2>5, <2>8 DEF p, Pipeline
  <1> QED BY <1>1, Invariance, PTL

\* What is sent and on its way was received and counted first.
THEOREM CountersConsistent == Spec => []SentWasReceived
  <1>1. Inv => SentWasReceived
    BY DEF Inv
  <1> QED BY <1>1, Invariance, PTL

\* Nothing is sent whose addresses have not traded places exactly once.
THEOREM OnlySwappedSent == Spec => []SentSwapped
  <1>1. Inv => SentSwapped
    BY DEF Inv, Swapped, SentSwapped
  <1> QED BY <1>1, Invariance, PTL

\* The final statistics are printed when nothing moves any more.
THEOREM FinalIsFinal == Spec => []FinalStatsFinal
  <1>1. Inv => FinalStatsFinal
    BY DEF Inv
  <1> QED BY <1>1, Invariance, PTL
=============================================================================
