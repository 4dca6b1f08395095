------------------------ MODULE PacketPipelineProofs ------------------------
(***************************************************************************)
(* What example_complete_pipeline does to buffers, statistics and headers, *)
(* for all buffers, frames, burst sizes, quotas and word widths.  The      *)
(* first part counts the copies of a buffer in a burst and in its parts.   *)
(***************************************************************************)
EXTENDS PacketPipeline, FiniteSetTheorems, FunctionTheorems,
        SequenceTheorems, TLAPS

-----------------------------------------------------------------------------
(* Counting *)

Places(m, s) == {i \in DOMAIN s : s[i] = m}

\* A burst holds a buffer at finitely many places.
LEMMA PlacesFinite ==
  ASSUME NEW S, NEW s \in Seq(S), NEW m
  PROVE  IsFiniteSet(Places(m, s)) /\ Times(m, s) \in Nat
  <1>1. DOMAIN s = 1..Len(s) /\ Len(s) \in Nat
    OBVIOUS
  <1>2. IsFiniteSet(1..Len(s))
    BY <1>1, FS_Interval
  <1>3. Places(m, s) \in SUBSET (1..Len(s))
    BY <1>1 DEF Places
  <1>4. IsFiniteSet(Places(m, s))
    BY <1>2, <1>3, FS_Subset
  <1>5. Cardinality(Places(m, s)) \in Nat
    BY <1>4, FS_CardinalityType
  <1> QED BY <1>4, <1>5 DEF Places, Times

\* An empty burst holds none.
LEMMA TimesEmpty ==
  ASSUME NEW m
  PROVE  Times(m, <<>>) = 0
  <1>1. {i \in DOMAIN <<>> : <<>>[i] = m} = {}
    OBVIOUS
  <1> QED BY <1>1, FS_EmptySet DEF Times

\* A buffer that is appended is held once more.
LEMMA TimesAppend ==
  ASSUME NEW S, NEW s \in Seq(S), NEW x \in S, NEW m
  PROVE  Times(m, Append(s, x)) = Times(m, s) + IF x = m THEN 1 ELSE 0
  <1> DEFINE n == Len(s) + 1
  <1>1. Places(m, s) = {i \in 1..Len(s) : s[i] = m}
    BY DEF Places
  <1>2. Places(m, Append(s, x)) =
          IF x = m THEN Places(m, s) \cup {n} ELSE Places(m, s)
    BY DEF Places
  <1>3. n \notin Places(m, s)
    BY <1>1
  <1>4. IsFiniteSet(Places(m, s)) /\ Cardinality(Places(m, s)) \in Nat
    BY PlacesFinite DEF Places, Times
  <1>5. Cardinality(Places(m, s) \cup {n}) = Cardinality(Places(m, s)) + 1
    BY <1>3, <1>4, FS_AddElement
  <1>6. Times(m, s) = Cardinality(Places(m, s))
    BY DEF Times, Places
  <1>7. Times(m, Append(s, x)) = Cardinality(Places(m, Append(s, x)))
    BY DEF Times, Places
  <1> QED BY <1>2, <1>4, <1>5, <1>6, <1>7

\* A burst cut in two holds a buffer as often as its parts together.
LEMMA TimesSplit ==
  ASSUME NEW S, NEW s \in Seq(S), NEW n \in 0..Len(s), NEW m
  PROVE  Times(m, s) =
           Times(m, SubSeq(s, 1, n)) + Times(m, SubSeq(s, n + 1, Len(s)))
  <1> DEFINE first == SubSeq(s, 1, n)
             rest == SubSeq(s, n + 1, Len(s))
             moved == {i \in (n + 1)..Len(s) : s[i] = m}
             shift == [j \in Places(m, rest) |-> j + n]
  <1>1. /\ first \in Seq(S) /\ Len(first) = n
        /\ \A i \in 1..n : first[i] = s[i]
    OBVIOUS
  <1>2. /\ rest \in Seq(S) /\ Len(rest) = Len(s) - n
        /\ \A i \in 1..(Len(s) - n) : rest[i] = s[i + n]
    OBVIOUS
  <1>3. Places(m, first) = {i \in 1..n : s[i] = m}
    BY <1>1 DEF Places
  <1>4. Places(m, rest) = {j \in 1..(Len(s) - n) : s[j + n] = m}
    BY <1>2 DEF Places
  <1>5. shift \in Bijection(Places(m, rest), moved)
    <2>1. shift \in [Places(m, rest) -> moved]
      BY <1>4
    <2>2. \A i, j \in Places(m, rest) : shift[i] = shift[j] => i = j
      BY <1>4
    <2>3. ASSUME NEW i \in moved PROVE \E j \in Places(m, rest) : shift[j] = i
      <3>1. i - n \in Places(m, rest) /\ (i - n) + n = i
        BY <1>4
      <3> QED BY <3>1
    <2> HIDE DEF shift, moved
    <2> QED BY <2>1, <2>2, <2>3, Fun_IsBij
  <1>6. IsFiniteSet(moved) /\ Cardinality(moved) = Cardinality(Places(m, rest))
    <2> HIDE DEF shift, moved, rest
    <2>1. ExistsBijection(Places(m, rest), moved)
      BY <1>5 DEF ExistsBijection
    <2>2. IsFiniteSet(Places(m, rest))
      BY <1>2, PlacesFinite
    <2> QED BY <2>1, <2>2, FS_Bijection
  <1>7. Places(m, s) = Places(m, first) \cup moved
    BY <1>3 DEF Places
  <1>8. Places(m, first) \cap moved = {}
    BY <1>3
  <1>9. IsFiniteSet(Places(m, first)) /\ Cardinality(Places(m, first)) \in Nat
    BY <1>1, PlacesFinite DEF Times, Places
  <1>10. Cardinality(moved) \in Nat
    BY <1>6, FS_CardinalityType
  <1>11. Cardinality(Places(m, s)) = Cardinality(Places(m, first)) + Cardinality(moved)
    <2>1. Cardinality(Places(m, first) \cup moved) =
            Cardinality(Places(m, first)) + Cardinality(moved) - Cardinality({})
      BY <1>6, <1>8, <1>9, FS_Union
    <2> QED BY <2>1, <1>7, <1>9, <1>10, FS_EmptySet
  <1> QED BY <1>6, <1>11 DEF Times, Places

-----------------------------------------------------------------------------
(* The inductive invariant *)

\* Within a burst, the packets looked at are counted and the others are not.
Counted ==
  stats.tx + stats.errors + stats.dropped =
    received - (Len(bufs) - (next - 1)) + unsent

\* A buffer is in circulation once more for each time it was dropped in the
\* loop: the drop frees it, and it stays in the burst.
CopiesExplained == \A m \in Mbufs : Copies(m) = 1 + drops[m]

Inv == TypeOK /\ Counted /\ CopiesExplained /\ WellFormedUnderstood

\* A remainder by a number that is larger is the number.
LEMMA Small ==
  ASSUME NEW a \in Nat, NEW w \in Nat, a < w
  PROVE  a % w = a
  BY Z3

\* Remainders stay below the divisor.
LEMMA Remainder ==
  ASSUME NEW a \in Int, NEW w \in Nat \ {0}
  PROVE  a % w \in 0..(w - 1)
  BY Z3

-----------------------------------------------------------------------------
(* Types *)

\* What the loop computes about a frame has the types of its results.
LEMMA Computed ==
  ASSUME TypeOK, NEW f \in Frames
  PROVE  /\ Payloads(f) \subseteq 0..(WordSpace - 1)
         /\ Metered(f) \in 0..(ByteSpace - 1)
  <1>1. /\ f.len \in Nat /\ f.ihl \in Nat /\ f.off \in Nat /\ f.dgram \in Nat
        /\ L4Offset(f) \in Int
    <2>1. f \in Frame
      BY FrameAssumption
    <2>2. f.len \in Nat /\ f.ihl \in Nat /\ f.off \in Nat /\ f.dgram \in Nat
      BY ONLY <2>1 DEF Frame
    <2>3. L4Offset(f) \in Int
      BY ONLY <2>2 DEF L4Offset
    <2> QED BY <2>2, <2>3
  <1>2. WordSpace \in Nat \ {0} /\ ByteSpace \in Nat \ {0} /\ bytes \in Nat
    BY SizeAssumption DEF TypeOK
  <1>3. ASSUME NEW p \in Payloads(f) PROVE p \in 0..(WordSpace - 1)
    <2>1. \E a \in Int : p = a % WordSpace
      <3>1. CASE f.proto = Tcp
        <4>1. p \in TcpPayloads(f)
          BY <3>1 DEF Payloads
        <4>2. PICK off \in IF Holds(f, 13) THEN {f.off} ELSE 0..15 :
                p = (f.len - L4Offset(f) - 4 * off) % WordSpace
          BY <4>1, Zenon DEF TcpPayloads
        <4>3. off \in Int
          BY <1>1
        <4>4. f.len - L4Offset(f) - 4 * off \in Int
          BY <1>1, <4>3
        <4> QED BY <4>2, <4>4, Zenon
      <3>2. CASE f.proto = Udp
        <4>1. p \in UdpPayloads(f)
          BY <3>2 DEF Payloads, Tcp, Udp
        <4>2. PICK dgram \in IF Holds(f, 6) THEN {f.dgram} ELSE Short :
                p = (dgram - 8) % WordSpace
          BY <4>1, Zenon DEF UdpPayloads
        <4>3. dgram \in Int
          <5>1. dgram = f.dgram \/ dgram \in Short
            BY ONLY <4>2
          <5>2. Short \subseteq Int
            BY ONLY SMT DEF Short
          <5>3. f.dgram \in Int
            BY ONLY <1>1
          <5> QED BY ONLY <5>1, <5>2, <5>3, Zenon
        <4>4. dgram - 8 \in Int
          BY ONLY <4>3
        <4> QED BY ONLY <4>2, <4>4
      <3>3. CASE f.proto # Tcp /\ f.proto # Udp
        <4>1. p = (f.len - L4Offset(f)) % WordSpace
          BY <3>3 DEF Payloads
        <4>2. f.len - L4Offset(f) \in Int
          BY <1>1
        <4> QED BY <4>1, <4>2, Zenon
      <3> QED BY <3>1, <3>2, <3>3
    <2> QED BY <2>1, <1>2, Remainder
  <1>4. Metered(f) \in 0..(ByteSpace - 1)
    <2>1. bytes + f.len \in Int
      BY <1>1, <1>2
    <2> QED BY <2>1, <1>2, Remainder DEF Metered
  <1> QED BY <1>3, <1>4

\* The packet looked at is one of the burst's.
LEMMA Looked ==
  ASSUME TypeOK, AtPacket
  PROVE  /\ next \in 1..Len(bufs) /\ bufs[next] \in Mbufs
         /\ frame[bufs[next]] \in Frames
  BY DEF TypeOK, AtPacket

\* A drop puts the packet back, once more, and counts it.
LEMMA Dropped ==
  ASSUME TypeOK, NEW m \in Mbufs, NEW counter \in {"errors", "dropped"},
         Drop(m, counter)
  PROVE  /\ pool' \in [Mbufs -> Nat] /\ drops' \in [Mbufs -> Nat]
         /\ stats' \in [tx : Nat, errors : Nat, dropped : Nat]
         /\ stats'.tx + stats'.errors + stats'.dropped =
              stats.tx + stats.errors + stats.dropped + 1
         /\ \A b \in Mbufs : pool'[b] - drops'[b] = pool[b] - drops[b]
  <1>1. /\ pool \in [Mbufs -> Nat] /\ drops \in [Mbufs -> Nat]
        /\ stats \in [tx : Nat, errors : Nat, dropped : Nat]
    BY DEF TypeOK
  <1>2. /\ pool' = [pool EXCEPT ![m] = pool[m] + 1]
        /\ drops' = [drops EXCEPT ![m] = drops[m] + 1]
    BY DEF Drop, Plus
  <1>3. /\ stats' \in [tx : Nat, errors : Nat, dropped : Nat]
        /\ stats'.tx + stats'.errors + stats'.dropped =
             stats.tx + stats.errors + stats.dropped + 1
    BY <1>1 DEF Drop
  <1> QED BY ONLY <1>1, <1>2, <1>3

\* A packet that is finished is counted as sent, or dropped.
LEMMA Finished ==
  ASSUME TypeOK, NEW m \in Mbufs, NEW total, Finish(m, total)
  PROVE  /\ pool' \in [Mbufs -> Nat] /\ drops' \in [Mbufs -> Nat]
         /\ stats' \in [tx : Nat, errors : Nat, dropped : Nat]
         /\ stats'.tx + stats'.errors + stats'.dropped =
              stats.tx + stats.errors + stats.dropped + 1
         /\ \A b \in Mbufs : pool'[b] - drops'[b] = pool[b] - drops[b]
  <1>1. CASE OverQuota(total)
    <2>1. Drop(m, "dropped")
      BY <1>1 DEF Finish
    <2> QED BY <2>1, Dropped
  <1>2. CASE ~OverQuota(total)
    <2>1. /\ pool \in [Mbufs -> Nat] /\ drops \in [Mbufs -> Nat]
          /\ stats \in [tx : Nat, errors : Nat, dropped : Nat]
      BY DEF TypeOK
    <2>2. CountTx /\ pool' = pool /\ drops' = drops
      BY <1>2 DEF Finish
    <2> QED BY ONLY <2>1, <2>2 DEF CountTx
  <1> QED BY <1>1, <1>2

\* Every step keeps the types.
LEMMA TypesKept ==
  ASSUME TypeOK, [Next]_vars
  PROVE  TypeOK'
  <1>0. /\ pool \in [Mbufs -> Nat] /\ nicTx \in [Mbufs -> Nat]
        /\ bufs \in Seq(Mbufs) /\ Len(bufs) \in Nat /\ next \in 1..(Len(bufs) + 1)
    BY DEF TypeOK
  <1>1. CASE Receive
    <2>1. PICK n \in 1..BurstSize :
            /\ n <= Len(nicRx) /\ bufs' = SubSeq(nicRx, 1, n)
            /\ nicRx' = SubSeq(nicRx, n + 1, Len(nicRx))
            /\ received' = received + n
      BY <1>1 DEF Receive
    <2>2. n \in Nat /\ n \in 0..Len(nicRx) /\ nicRx \in Seq(Mbufs) /\ received \in Nat
      BY <2>1, SizeAssumption DEF TypeOK
    <2>3. /\ bufs' \in Seq(Mbufs) /\ nicRx' \in Seq(Mbufs) /\ received' \in Nat
          /\ 1 \in 1..(Len(bufs') + 1)
      BY ONLY <2>1, <2>2
    <2> QED BY <1>1, <2>3 DEF TypeOK, Receive
  <1>2. CASE Reject
    <2> DEFINE m == bufs[next]
    <2>1. /\ next \in 1..Len(bufs) /\ m \in Mbufs /\ frame[m] \in Frames
      BY <1>2, Looked DEF Reject
    <2>2. /\ pool' \in [Mbufs -> Nat] /\ drops' \in [Mbufs -> Nat]
          /\ stats' \in [tx : Nat, errors : Nat, dropped : Nat]
      BY <1>2, <2>1, Dropped DEF Reject
    <2>3. seen'.in = <<frame[m]>> /\ seen'.payload = 0 /\ 0 \in 0..(WordSpace - 1)
      BY <1>2, SizeAssumption DEF Reject, None
    <2>4. /\ next' = next + 1
          /\ UNCHANGED <<bigEndian, nicRx, nicTx, frame, bufs, tcp, udp, bytes,
                         received, unsent>>
      BY <1>2 DEF Reject
    <2>5. next' \in 1..(Len(bufs) + 1)
      BY ONLY <1>0, <2>1, <2>4
    <2>6. seen'.in # <<>> => seen'.in[1] \in Frames /\ seen'.payload \in 0..(WordSpace - 1)
      BY ONLY <2>1, <2>3
    <2> HIDE DEF m
    <2> QED BY <2>2, <2>4, <2>5, <2>6 DEF TypeOK
  <1>3. CASE Process
    <2> DEFINE m == bufs[next]
    <2>1. /\ next \in 1..Len(bufs) /\ m \in Mbufs /\ frame[m] \in Frames
      BY <1>3, Looked DEF Process
    <2>2. /\ pool' \in [Mbufs -> Nat] /\ drops' \in [Mbufs -> Nat]
          /\ stats' \in [tx : Nat, errors : Nat, dropped : Nat]
      BY <1>3, <2>1, Finished DEF Process
    <2>3. bytes' \in 0..(ByteSpace - 1)
      BY <1>3, <2>1, Computed DEF Process
    <2>4. PICK payload \in Payloads(frame[m]), class \in Classified(frame[m], tcp', udp') :
            seen' = [ok |-> TRUE, in |-> <<frame[m]>>, payload |-> payload,
                     class |-> class]
      BY <1>3 DEF Process
    <2>5. seen'.in = <<frame[m]>> /\ seen'.payload \in 0..(WordSpace - 1)
      BY <2>1, <2>4, Computed
    <2>6. /\ next' = next + 1
          /\ UNCHANGED <<bigEndian, nicRx, nicTx, frame, bufs, received, unsent>>
      BY <1>3 DEF Process
    <2>7. next' \in 1..(Len(bufs) + 1)
      BY ONLY <1>0, <2>1, <2>6
    <2>8. {tcp', udp'} \subseteq {"null", "wild", "set"}
      <3>1. tcp' \in {"set", tcp} /\ udp' \in {"set", udp}
        BY <1>3 DEF Process
      <3>2. {tcp, udp} \subseteq {"null", "wild", "set"}
        BY DEF TypeOK
      <3> QED BY ONLY <3>1, <3>2
    <2>9. seen'.in # <<>> => seen'.in[1] \in Frames /\ seen'.payload \in 0..(WordSpace - 1)
      BY ONLY <2>1, <2>5
    <2> HIDE DEF m
    <2> QED BY <2>2, <2>3, <2>6, <2>7, <2>8, <2>9 DEF TypeOK
  <1>4. CASE Transmit
    <2>1. PICK n \in 0..Len(bufs) :
            /\ nicTx' = [m \in Mbufs |-> nicTx[m] + Times(m, SubSeq(bufs, 1, n))]
            /\ pool' = [m \in Mbufs |-> pool[m] + Times(m, SubSeq(bufs, n + 1, Len(bufs)))]
            /\ stats' = [stats EXCEPT !.dropped = @ + Len(bufs) - n]
            /\ unsent' = unsent + Len(bufs) - n
      BY <1>4 DEF Transmit
    <2>2. /\ bufs \in Seq(Mbufs) /\ Len(bufs) \in Nat /\ unsent \in Nat
          /\ stats \in [tx : Nat, errors : Nat, dropped : Nat]
      BY DEF TypeOK
    <2>3. SubSeq(bufs, 1, n) \in Seq(Mbufs) /\ SubSeq(bufs, n + 1, Len(bufs)) \in Seq(Mbufs)
      BY ONLY <2>2
    <2>4. ASSUME NEW m \in Mbufs
          PROVE  /\ Times(m, SubSeq(bufs, 1, n)) \in Nat
                 /\ Times(m, SubSeq(bufs, n + 1, Len(bufs))) \in Nat
      BY <2>3, PlacesFinite
    <2>5. pool' \in [Mbufs -> Nat] /\ nicTx' \in [Mbufs -> Nat]
      BY ONLY <1>0, <2>1, <2>4
    <2>6. stats' \in [tx : Nat, errors : Nat, dropped : Nat] /\ unsent' \in Nat
      BY ONLY <2>1, <2>2
    <2>7. /\ seen'.in = <<>> /\ bufs' = <<>> /\ next' = 1
          /\ UNCHANGED <<bigEndian, nicRx, frame, tcp, udp, bytes, received, drops>>
      BY <1>4 DEF Transmit, None
    <2>8. bufs' \in Seq(Mbufs) /\ next' \in 1..(Len(bufs') + 1)
      BY ONLY <2>7
    <2> QED BY <2>5, <2>6, <2>7, <2>8 DEF TypeOK
  <1>5. CASE Arrive
    <2>1. PICK m \in Mbufs, f \in Frames :
            /\ pool[m] > 0 /\ pool' = Plus(pool, m, -1)
            /\ frame' = [frame EXCEPT ![m] = f] /\ nicRx' = Append(nicRx, m)
      BY <1>5 DEF Arrive
    <2>2. pool' \in [Mbufs -> Nat]
      BY <2>1 DEF TypeOK, Plus
    <2>3. nicRx' \in Seq(Mbufs) /\ frame' \in [Mbufs -> Frames]
      BY <2>1 DEF TypeOK
    <2> QED BY <1>5, <2>2, <2>3 DEF TypeOK, Arrive, locals, history
  <1>6. CASE Sent
    <2>1. PICK m \in Mbufs :
            nicTx[m] > 0 /\ nicTx' = Plus(nicTx, m, -1) /\ pool' = Plus(pool, m, 1)
      BY <1>6 DEF Sent
    <2>2. nicTx' \in [Mbufs -> Nat] /\ pool' \in [Mbufs -> Nat]
      BY ONLY <1>0, <2>1 DEF Plus
    <2> QED BY <1>6, <2>2 DEF TypeOK, Sent, locals, history
  <1>7. CASE UNCHANGED vars
    BY <1>7 DEF TypeOK, vars, nic, locals, history
  <1> QED BY <1>1, <1>2, <1>3, <1>4, <1>5, <1>6, <1>7 DEF Next

-----------------------------------------------------------------------------
(* Statistics *)

\* Every step keeps the count of the packets looked at.
LEMMA CountKept ==
  ASSUME TypeOK, Counted, [Next]_vars
  PROVE  Counted'
  <1>0. /\ bufs \in Seq(Mbufs) /\ Len(bufs) \in Nat /\ next \in 1..(Len(bufs) + 1)
        /\ nicRx \in Seq(Mbufs)
        /\ stats \in [tx : Nat, errors : Nat, dropped : Nat]
        /\ received \in Nat /\ unsent \in Nat
    BY DEF TypeOK
  <1> DEFINE sum == stats.tx + stats.errors + stats.dropped
  <1>1. CASE Receive
    <2>1. /\ bufs = <<>> /\ next' = 1
          /\ UNCHANGED <<stats, unsent>>
      BY <1>1 DEF Receive
    <2>2. PICK n \in 1..BurstSize :
            n <= Len(nicRx) /\ bufs' = SubSeq(nicRx, 1, n) /\ received' = received + n
      BY <1>1 DEF Receive
    <2>3. n \in Nat /\ Len(bufs') = n
      BY <1>0, <2>2, SizeAssumption
    <2>4. next = 1 /\ Len(bufs) = 0
      BY <1>0, <2>1
    <2> QED BY <1>0, <2>1, <2>2, <2>3, <2>4 DEF Counted
  <1>2. CASE Reject \/ Process
    <2>1. /\ next' = next + 1
          /\ UNCHANGED <<bufs, received, unsent>>
      BY <1>2 DEF Reject, Process
    <2>2. sum' = sum + 1
      <3>1. bufs[next] \in Mbufs
        BY <1>2, Looked DEF Reject, Process
      <3>2. CASE Reject
        BY <3>1, <3>2, Dropped DEF Reject
      <3>3. CASE Process
        <4>1. Finish(bufs[next], Metered(frame[bufs[next]]))
          BY <3>3 DEF Process
        <4> QED BY <3>1, <4>1, Finished
      <3> QED BY <1>2, <3>2, <3>3
    <2>3. sum \in Nat
      BY <1>0
    <2>4. sum = received - (Len(bufs) - (next - 1)) + unsent
      BY DEF Counted
    <2>5. sum' = received' - (Len(bufs') - (next' - 1)) + unsent'
      <3> HIDE DEF sum
      <3> QED BY ONLY <1>0, <2>1, <2>2, <2>3, <2>4
    <2> QED BY <2>5 DEF Counted
  <1>3. CASE Transmit
    <2>1. PICK n \in 0..Len(bufs) :
            /\ stats' = [stats EXCEPT !.dropped = @ + Len(bufs) - n]
            /\ unsent' = unsent + Len(bufs) - n
      BY <1>3 DEF Transmit
    <2>2. /\ ~AtPacket /\ bufs' = <<>> /\ next' = 1
          /\ UNCHANGED received
      BY <1>3 DEF Transmit
    <2>3. next = Len(bufs) + 1 /\ Len(bufs') = 0
      BY <1>0, <2>2 DEF AtPacket
    <2>4. sum' = sum + Len(bufs) - n
      BY ONLY <1>0, <2>1
    <2> QED BY <1>0, <2>1, <2>2, <2>3, <2>4 DEF Counted
  <1>4. CASE UNCHANGED <<stats, received, bufs, next, unsent>>
    BY <1>4 DEF Counted
  <1>5. Arrive \/ Sent \/ UNCHANGED vars => UNCHANGED <<stats, received, bufs, next, unsent>>
    BY DEF Arrive, Sent, vars, locals, history
  <1> QED BY <1>1, <1>2, <1>3, <1>4, <1>5 DEF Next

-----------------------------------------------------------------------------
(* Buffers *)

\* Every step keeps the count of the copies.
LEMMA CopiesKept ==
  ASSUME TypeOK, CopiesExplained, [Next]_vars
  PROVE  CopiesExplained'
  <1>0. /\ pool \in [Mbufs -> Nat] /\ nicTx \in [Mbufs -> Nat]
        /\ drops \in [Mbufs -> Nat]
        /\ bufs \in Seq(Mbufs) /\ nicRx \in Seq(Mbufs) /\ Len(bufs) \in Nat
    BY DEF TypeOK
  <1> SUFFICES ASSUME NEW b \in Mbufs PROVE (Copies(b) = 1 + drops[b])'
    BY DEF CopiesExplained
  <1>a. Copies(b) = 1 + drops[b]
    BY DEF CopiesExplained
  <1>b. /\ pool[b] \in Nat /\ nicTx[b] \in Nat /\ drops[b] \in Nat
        /\ Times(b, nicRx) \in Nat /\ Times(b, bufs) \in Nat
    BY <1>0, PlacesFinite
  <1>c. pool[b] + nicTx[b] + Times(b, nicRx) + Times(b, bufs) = 1 + drops[b]
    BY <1>a DEF Copies
  <1>1. CASE Receive
    <2>1. PICK n \in 1..BurstSize :
            /\ n <= Len(nicRx) /\ bufs' = SubSeq(nicRx, 1, n)
            /\ nicRx' = SubSeq(nicRx, n + 1, Len(nicRx))
      BY <1>1 DEF Receive
    <2>2. n \in Nat /\ n \in 0..Len(nicRx) /\ nicRx \in Seq(Mbufs)
      BY <1>0, <2>1, SizeAssumption
    <2>3. Times(b, nicRx) = Times(b, bufs') + Times(b, nicRx')
      BY <1>0, <2>1, <2>2, TimesSplit
    <2>4. bufs' \in Seq(Mbufs) /\ nicRx' \in Seq(Mbufs)
      BY ONLY <2>1, <2>2
    <2>5. Times(b, bufs') \in Nat /\ Times(b, nicRx') \in Nat
      BY <2>4, PlacesFinite
    <2>6. Times(b, bufs) = 0
      BY <1>1, TimesEmpty DEF Receive
    <2>7. UNCHANGED <<pool, nicTx, drops>>
      BY <1>1 DEF Receive
    <2>8. pool[b] + nicTx[b] + Times(b, nicRx') + Times(b, bufs') = 1 + drops[b]
      BY ONLY <1>b, <1>c, <2>3, <2>5, <2>6
    <2> QED BY <2>7, <2>8 DEF Copies
  <1>2. CASE Reject \/ Process
    <2>1. UNCHANGED <<nicRx, nicTx, bufs>>
      BY <1>2 DEF Reject, Process
    <2>2. /\ pool' \in [Mbufs -> Nat] /\ drops' \in [Mbufs -> Nat]
          /\ pool'[b] - drops'[b] = pool[b] - drops[b]
      <3>1. bufs[next] \in Mbufs
        BY <1>2, Looked DEF Reject, Process
      <3>2. CASE Reject
        BY <3>1, <3>2, Dropped DEF Reject
      <3>3. CASE Process
        <4>1. Finish(bufs[next], Metered(frame[bufs[next]]))
          BY <3>3 DEF Process
        <4> QED BY <3>1, <4>1, Finished
      <3> QED BY <1>2, <3>2, <3>3
    <2>3. pool'[b] \in Nat /\ drops'[b] \in Nat
      BY <2>2
    <2>4. pool'[b] + nicTx[b] + Times(b, nicRx) + Times(b, bufs) = 1 + drops'[b]
      BY ONLY <1>b, <1>c, <2>2, <2>3
    <2> QED BY <2>1, <2>4 DEF Copies
  <1>3. CASE Transmit
    <2>1. PICK n \in 0..Len(bufs) :
            /\ nicTx' = [m \in Mbufs |-> nicTx[m] + Times(m, SubSeq(bufs, 1, n))]
            /\ pool' = [m \in Mbufs |-> pool[m] + Times(m, SubSeq(bufs, n + 1, Len(bufs)))]
      BY <1>3 DEF Transmit
    <2> DEFINE taken == Times(b, SubSeq(bufs, 1, n))
               freed == Times(b, SubSeq(bufs, n + 1, Len(bufs)))
    <2>2. Times(b, bufs) = taken + freed
      BY <1>0, TimesSplit
    <2>3. taken \in Nat /\ freed \in Nat
      <3>1. /\ SubSeq(bufs, 1, n) \in Seq(Mbufs)
            /\ SubSeq(bufs, n + 1, Len(bufs)) \in Seq(Mbufs)
        BY ONLY <1>0
      <3> QED BY <3>1, PlacesFinite
    <2>4. nicTx'[b] = nicTx[b] + taken /\ pool'[b] = pool[b] + freed
      BY <2>1
    <2>5. UNCHANGED <<nicRx, drops>> /\ bufs' = <<>>
      BY <1>3 DEF Transmit
    <2>6. Times(b, bufs') = 0
      BY <2>5, TimesEmpty
    <2> HIDE DEF taken, freed
    <2>7. pool'[b] + nicTx'[b] + Times(b, nicRx) + Times(b, bufs') = 1 + drops[b]
      BY ONLY <1>b, <1>c, <2>2, <2>3, <2>4, <2>6
    <2> QED BY <2>5, <2>7 DEF Copies
  <1>4. CASE Arrive
    <2>1. PICK m \in Mbufs :
            pool[m] > 0 /\ pool' = Plus(pool, m, -1) /\ nicRx' = Append(nicRx, m)
      BY <1>4 DEF Arrive
    <2>2. Times(b, nicRx') = Times(b, nicRx) + IF m = b THEN 1 ELSE 0
      BY <1>0, <2>1, TimesAppend
    <2>3. pool'[b] = pool[b] - IF m = b THEN 1 ELSE 0
      BY ONLY <1>0, <2>1 DEF Plus
    <2>4. UNCHANGED <<nicTx, bufs, drops>>
      BY <1>4 DEF Arrive, locals, history
    <2>5. pool'[b] + nicTx[b] + Times(b, nicRx') + Times(b, bufs) = 1 + drops[b]
      BY ONLY <1>b, <1>c, <2>2, <2>3
    <2> QED BY <2>4, <2>5 DEF Copies
  <1>5. CASE Sent
    <2>1. PICK m \in Mbufs :
            nicTx[m] > 0 /\ nicTx' = Plus(nicTx, m, -1) /\ pool' = Plus(pool, m, 1)
      BY <1>5 DEF Sent
    <2>2. pool'[b] + nicTx'[b] = pool[b] + nicTx[b]
      BY ONLY <1>0, <2>1 DEF Plus
    <2>3. UNCHANGED <<nicRx, bufs, drops>>
      BY <1>5 DEF Sent, locals, history
    <2>4. pool'[b] + nicTx'[b] + Times(b, nicRx) + Times(b, bufs) = 1 + drops[b]
      BY <1>c, <2>2
    <2> QED BY <2>3, <2>4 DEF Copies
  <1>6. CASE UNCHANGED vars
    <2>1. UNCHANGED <<pool, nicTx, nicRx, bufs, drops>>
      BY <1>6 DEF vars, nic, locals, history
    <2> QED BY <1>a, <2>1 DEF Copies
  <1> QED BY <1>1, <1>2, <1>3, <1>4, <1>5, <1>6 DEF Next

-----------------------------------------------------------------------------
(* Headers *)

\* The lengths and fields of a well-formed frame, as the big-endian code sees
\* them.
LEMMA Layout ==
  ASSUME NEW f \in Frames, WellFormed(f)
  PROVE  /\ f.len \in Nat /\ f.off \in Nat /\ f.dgram \in Nat
         /\ f.data \in Nat /\ f.pad \in Nat /\ L4Offset(f) \in Nat
         /\ f.len < WordSpace /\ WordSpace \in Nat
         /\ bigEndian => L4Offset(f) >= 34 /\ L4Offset(f) >= 14 + IF IsIPv6(f) THEN 40 ELSE 20
         /\ bigEndian /\ f.proto = Tcp =>
              f.off >= 5 /\ f.len = L4Offset(f) + 4 * f.off + f.data + f.pad
         /\ bigEndian /\ f.proto = Udp =>
              f.dgram = 8 + f.data /\ f.len = L4Offset(f) + 8 + f.data + f.pad
         /\ bigEndian /\ f.proto # Tcp /\ f.proto # Udp =>
              f.len = L4Offset(f) + f.data + f.pad
  <1>1. f \in Frame /\ f.len < WordSpace /\ WordSpace \in Nat
    BY FrameAssumption, SizeAssumption
  <1>2. /\ f.type \in Nat /\ f.len \in Nat /\ f.ihl \in Nat /\ f.off \in Nat
        /\ f.dgram \in Nat /\ f.data \in Nat /\ f.pad \in Nat
    BY ONLY <1>1 DEF Frame
  <1>3. L4Offset(f) \in Nat
    BY ONLY <1>2 DEF L4Offset
  <1>4. bigEndian => /\ IsIPv4(f) <=> f.type = EtherIPv4
                     /\ IsIPv6(f) <=> f.type = EtherIPv6
    BY DEF IsIPv4, IsIPv6, HostOrder
  <1>5. bigEndian => L4Offset(f) = 14 + IF f.type = EtherIPv4 THEN 4 * f.ihl ELSE 40
    BY <1>2, <1>4 DEF L4Offset
  <1>6. /\ f.type \in {EtherIPv4, EtherIPv6}
        /\ f.type = EtherIPv4 => f.ihl >= 5
        /\ f.proto = Tcp => f.off >= 5
        /\ f.proto = Udp => f.dgram = 8 + f.data
    BY DEF WellFormed
  <1>7. f.len = 14 + (IF f.type = EtherIPv4 THEN 4 * f.ihl ELSE 40)
                   + (IF f.proto = Tcp THEN 4 * f.off
                      ELSE IF f.proto = Udp THEN 8 ELSE 0) + f.data + f.pad
    BY DEF WellFormed
  <1>8. EtherIPv4 # EtherIPv6 /\ Tcp # Udp
    BY DEF EtherIPv4, EtherIPv6, Tcp, Udp
  <1>9. bigEndian => /\ L4Offset(f) >= 34
                     /\ L4Offset(f) >= 14 + IF IsIPv6(f) THEN 40 ELSE 20
    BY ONLY <1>2, <1>3, <1>4, <1>5, <1>6, <1>8
  <1>10. /\ bigEndian /\ f.proto = Tcp =>
              f.len = L4Offset(f) + 4 * f.off + f.data + f.pad
         /\ bigEndian /\ f.proto = Udp =>
              f.len = L4Offset(f) + 8 + f.data + f.pad
         /\ bigEndian /\ f.proto # Tcp /\ f.proto # Udp =>
              f.len = L4Offset(f) + f.data + f.pad
    BY ONLY <1>2, <1>3, <1>5, <1>7, <1>8
  <1> QED BY ONLY <1>1, <1>2, <1>3, <1>6, <1>9, <1>10

\* On a host in network byte order the headers of a well-formed frame are found.
LEMMA FoundIfBigEndian ==
  ASSUME NEW f \in Frames, WellFormed(f), bigEndian
  PROVE  Extracted(f)
  <1>1. f.type \in {2048, 34525}
    BY DEF WellFormed, EtherIPv4, EtherIPv6
  <1>2. IsIPv4(f) \/ IsIPv6(f)
    BY <1>1 DEF IsIPv4, IsIPv6, HostOrder, EtherIPv4, EtherIPv6
  <1>3. f.len >= L4Offset(f)
    BY Layout
  <1>4. f.len >= 14 + IF IsIPv6(f) THEN 40 ELSE 20
    BY <1>3, Layout
  <1> QED BY <1>2, <1>4 DEF Extracted

\* There its payload is exact, but for padding,
LEMMA PayloadExact ==
  ASSUME NEW f \in Frames, WellFormed(f), bigEndian, NEW p \in Payloads(f)
  PROVE  p = f.data + IF f.proto = Udp THEN 0 ELSE f.pad
  <1>1. /\ f.len \in Nat /\ f.off \in Nat /\ f.dgram \in Nat
        /\ f.data \in Nat /\ f.pad \in Nat /\ L4Offset(f) \in Nat
        /\ f.len < WordSpace /\ WordSpace \in Nat
    BY Layout
  <1>2. CASE f.proto = Tcp
    <2>1. f.off >= 5 /\ f.len = L4Offset(f) + 4 * f.off + f.data + f.pad
      BY <1>2, Layout
    <2>2. Holds(f, 13)
      BY <1>1, <2>1 DEF Holds
    <2>3. p = (f.len - L4Offset(f) - 4 * f.off) % WordSpace
      BY <1>2, <2>2 DEF Payloads, TcpPayloads
    <2>4. /\ f.len - L4Offset(f) - 4 * f.off = f.data + f.pad
          /\ f.data + f.pad \in Nat /\ f.data + f.pad < WordSpace
      BY ONLY <1>1, <2>1
    <2>5. p = f.data + f.pad
      BY <1>1, <2>3, <2>4, Small
    <2> QED BY <1>2, <2>5 DEF Tcp, Udp
  <1>3. CASE f.proto = Udp
    <2>1. f.dgram = 8 + f.data /\ f.len = L4Offset(f) + 8 + f.data + f.pad
      BY <1>3, Layout
    <2>2. Holds(f, 6)
      BY <1>1, <2>1 DEF Holds
    <2>3. p = (f.dgram - 8) % WordSpace
      BY <1>3, <2>2 DEF Payloads, UdpPayloads, Tcp, Udp
    <2>4. f.dgram - 8 = f.data /\ f.data < WordSpace
      BY ONLY <1>1, <2>1
    <2>5. p = f.data
      BY <1>1, <2>3, <2>4, Small
    <2> QED BY <1>1, <1>3, <2>5
  <1>4. CASE f.proto # Tcp /\ f.proto # Udp
    <2>1. f.len = L4Offset(f) + f.data + f.pad
      BY <1>4, Layout
    <2>2. p = (f.len - L4Offset(f)) % WordSpace
      BY <1>4 DEF Payloads
    <2>3. /\ f.len - L4Offset(f) = f.data + f.pad
          /\ f.data + f.pad \in Nat /\ f.data + f.pad < WordSpace
      BY ONLY <1>1, <2>1
    <2>4. p = f.data + f.pad
      BY <1>1, <2>2, <2>3, Small
    <2> QED BY <1>4, <2>4
  <1> QED BY <1>2, <1>3, <1>4

\* and its class that of its own ports, if the header it is looked for in is
\* its own.
LEMMA ClassExact ==
  ASSUME NEW f \in Frames, WellFormed(f), bigEndian, NEW t, NEW u,
         NEW class \in Classified(f, t, u),
         \/ f.proto = Tcp /\ t = "set"
         \/ f.proto = Udp /\ t = "null" /\ u = "set"
  PROVE  class = ClassOf(f.ports)
  <1>1. Holds(f, 4)
    <2>1. f.len >= L4Offset(f) + 8
      BY Layout
    <2> QED BY <2>1, Layout DEF Holds
  <1>2. f.proto = IF t # "null" THEN Tcp ELSE Udp
    OBVIOUS
  <1>3. ~(t = "null" /\ u = "null")
    OBVIOUS
  <1> QED BY <1>1, <1>2, <1>3 DEF Classified

\* Every step keeps what is known of the packet processed last.
LEMMA UnderstoodKept ==
  ASSUME TypeOK, WellFormedUnderstood, [Next]_vars
  PROVE  WellFormedUnderstood'
  <1>1. CASE Reject
    <2> DEFINE f == frame[bufs[next]]
    <2>1. f \in Frames /\ ~Extracted(f)
      BY <1>1, Looked DEF Reject
    <2>2. seen'.in = <<f>> /\ seen'.ok = FALSE
      BY <1>1 DEF Reject, None
    <2>3. bigEndian' = bigEndian /\ bigEndian \in BOOLEAN
      BY <1>1 DEF Reject, TypeOK
    <2>4. WellFormed(f) => ~bigEndian
      BY <2>1, <2>3, FoundIfBigEndian
    <2> HIDE DEF f
    <2>5. \A k \in DOMAIN seen'.in : seen'.in[k] = f
      BY ONLY <2>2
    <2> QED BY <2>2, <2>3, <2>4, <2>5 DEF WellFormedUnderstood
  <1>2. CASE Process
    <2> DEFINE f == frame[bufs[next]]
               t == IF f.proto = Tcp THEN "set" ELSE tcp
               u == IF f.proto = Udp THEN "set" ELSE udp
    <2>1. f \in Frames /\ Extracted(f)
      BY <1>2, Looked DEF Process
    <2>2. PICK payload \in Payloads(f), class \in Classified(f, t, u) :
            seen' = [ok |-> TRUE, in |-> <<f>>, payload |-> payload, class |-> class]
      BY <1>2 DEF Process
    <2>3. tcp' = t /\ bigEndian' = bigEndian /\ bigEndian \in BOOLEAN
      BY <1>2 DEF Process, TypeOK
    <2>4. ASSUME WellFormed(f)
          PROVE  bigEndian =>
                 /\ payload = f.data + IF f.proto = Udp THEN 0 ELSE f.pad
                 /\ f.proto = Tcp \/ (f.proto = Udp /\ t = "null")
                      => class = ClassOf(f.ports)
      <3>1. SUFFICES ASSUME bigEndian
                     PROVE  /\ payload = f.data + IF f.proto = Udp THEN 0 ELSE f.pad
                            /\ f.proto = Tcp \/ (f.proto = Udp /\ t = "null")
                                 => class = ClassOf(f.ports)
        OBVIOUS
      <3>2. payload = f.data + IF f.proto = Udp THEN 0 ELSE f.pad
        BY <2>1, <2>4, <3>1, PayloadExact
      <3>3. ASSUME f.proto = Tcp \/ (f.proto = Udp /\ t = "null")
            PROVE  class = ClassOf(f.ports)
        <4>1. \/ f.proto = Tcp /\ t = "set"
              \/ f.proto = Udp /\ t = "null" /\ u = "set"
          BY <3>3
        <4> HIDE DEF t, u, f
        <4> QED BY <2>1, <2>4, <3>1, <4>1, ClassExact
      <3> QED BY <3>2, <3>3
    <2> HIDE DEF f, t, u
    <2>5. /\ \A k \in DOMAIN seen'.in : seen'.in[k] = f
          /\ seen'.ok = TRUE /\ seen'.payload = payload /\ seen'.class = class
      BY ONLY <2>2
    <2> QED BY <2>3, <2>4, <2>5 DEF WellFormedUnderstood
  <1>3. CASE Transmit
    <2>1. seen'.in = <<>>
      BY <1>3 DEF Transmit, None
    <2> QED BY <2>1 DEF WellFormedUnderstood
  <1>4. CASE UNCHANGED <<seen, tcp, bigEndian>>
    BY <1>4 DEF WellFormedUnderstood, WellFormed, ClassOf
  <1>5. Receive \/ Arrive \/ Sent \/ UNCHANGED vars => UNCHANGED <<seen, tcp, bigEndian>>
    BY DEF Receive, Arrive, Sent, vars, locals, history
  <1> QED BY <1>1, <1>2, <1>3, <1>4, <1>5 DEF Next

-----------------------------------------------------------------------------
(* The theorems *)

\* The initial states satisfy the invariant.
LEMMA Initially == Init => Inv
  <1> SUFFICES ASSUME Init PROVE Inv
    OBVIOUS
  <1>1. TypeOK
    <2>1. frame \in [Mbufs -> Frames]
      <3>1. (CHOOSE f \in Frames : TRUE) \in Frames
        BY FrameAssumption
      <3> QED BY <3>1 DEF Init
    <2>2. bytes \in 0..(ByteSpace - 1)
      BY SizeAssumption DEF Init
    <2>3. seen.in = <<>>
      BY DEF Init, None
    <2>4. <<>> \in Seq(Mbufs) /\ Len(<<>>) = 0
      OBVIOUS
    <2>5. stats \in [tx : Nat, errors : Nat, dropped : Nat]
      BY DEF Init
    <2> QED BY <2>1, <2>2, <2>3, <2>4, <2>5 DEF Init, TypeOK
  <1>2. Counted
    <2>1. /\ stats.tx = 0 /\ stats.errors = 0 /\ stats.dropped = 0
          /\ received = 0 /\ unsent = 0 /\ next = 1
      BY DEF Init
    <2>2. Len(bufs) = 0
      BY DEF Init
    <2> QED BY ONLY <2>1, <2>2 DEF Counted
  <1>3. CopiesExplained
    <2> SUFFICES ASSUME NEW m \in Mbufs PROVE Copies(m) = 1 + drops[m]
      BY DEF CopiesExplained
    <2>1. Times(m, nicRx) = 0 /\ Times(m, bufs) = 0
      BY TimesEmpty DEF Init
    <2> QED BY <2>1 DEF Init, Copies
  <1>4. WellFormedUnderstood
    BY DEF Init, None, WellFormedUnderstood
  <1> QED BY <1>1, <1>2, <1>3, <1>4 DEF Inv

\* Inv holds in every state of the pipeline, whatever frames arrive.
THEOREM Invariance == Spec => []Inv
  <1>1. Inv /\ [Next]_vars => Inv'
    BY TypesKept, CountKept, CopiesKept, UnderstoodKept DEF Inv
  <1> QED BY Initially, <1>1, PTL DEF Spec

\* The pipeline's variables keep their types.
THEOREM TypeCorrect == Spec => []TypeOK
  <1>1. Inv => TypeOK
    BY DEF Inv
  <1> QED BY Invariance, <1>1, PTL

\* No buffer leaks, whatever is dropped and however much the NIC takes, and
\* one that was never dropped in the loop has one owner.
THEOREM BuffersAccounted == Spec => []BuffersKept
  <1>1. Inv => BuffersKept
    <2> SUFFICES ASSUME TypeOK, CopiesExplained, NEW m \in Mbufs
                 PROVE  Copies(m) >= 1 /\ (drops[m] = 0 => Copies(m) = 1)
      BY DEF Inv, BuffersKept
    <2>1. drops[m] \in Nat /\ Copies(m) = 1 + drops[m]
      BY DEF TypeOK, CopiesExplained
    <2> QED BY ONLY <2>1
  <1> QED BY Invariance, <1>1, PTL

\* Between bursts the counters sum to the packets received if the NIC took
\* all it was given, and to no less if it did not.
THEOREM StatsAccounted == Spec => []StatsComplete
  <1>1. Inv => StatsComplete
    <2> DEFINE counted == stats.tx + stats.errors + stats.dropped
    <2> SUFFICES ASSUME TypeOK, Counted, bufs = <<>>
                 PROVE  counted >= received /\ (unsent = 0 => counted = received)
      BY DEF Inv, StatsComplete
    <2>1. next = 1 /\ Len(bufs) = 0 /\ received \in Nat /\ unsent \in Nat
      BY DEF TypeOK
    <2>2. counted = received - (Len(bufs) - (next - 1)) + unsent
      BY DEF Counted
    <2> HIDE DEF counted
    <2> QED BY ONLY <2>1, <2>2
  <1> QED BY Invariance, <1>1, PTL

\* Whatever well-formed frame arrives, on a host in network byte order it is
\* accepted and its payload and class are found as they are.
THEOREM HeadersUnderstood == Spec => []WellFormedUnderstood
  <1>1. Inv => WellFormedUnderstood
    BY DEF Inv
  <1> QED BY Invariance, <1>1, PTL
=============================================================================
