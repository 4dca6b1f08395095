--------------------------- MODULE UBBMeterProofs ---------------------------
(***************************************************************************)
(* Proofs about UBBMeter for every set of threads, subscribers, services   *)
(* and packet lengths: if no two threads update the same key and nobody    *)
(* but its updater resets it, then, as long as no two threads were in the  *)
(* map while one of them changed it, the bill is exact, a read lies within *)
(* what was billed while it ran, and no alert is without cause.  And once  *)
(* every key has its counter, nobody resets one and nobody is inserting,   *)
(* no call races in the map any more.                                      *)
(***************************************************************************)
EXTENDS UBBMeter, SumLemmas, TLAPS

\* Different subscribers or services never share a counter: the packing of
\* CounterKey loses nothing, because a service id fits its 16 bits.
THEOREM CounterKeyInjective ==
  ASSUME NEW s1 \in Subscribers, NEW s2 \in Subscribers,
         NEW v1 \in Services, NEW v2 \in Services,
         CounterKey(s1, v1) = CounterKey(s2, v2)
  PROVE  s1 = s2 /\ v1 = v2
<1> DEFINE W == ServiceSpace
<1>1. /\ s1 \in Nat /\ s2 \in Nat /\ W \in Nat /\ W > 0
      /\ v1 \in 0..(W - 1) /\ v2 \in 0..(W - 1)
  BY IdAssumption
<1>2. s1 * W + v1 = s2 * W + v2
  BY DEF CounterKey
<1> HIDE DEF W
<1>3. (s1 - s2) * W = v2 - v1
  BY <1>1, <1>2
<1>4. CASE s1 - s2 >= 1
  <2>1. (s1 - s2) * W >= W
    BY <1>1, <1>4
  <2> QED
    BY <1>1, <1>3, <2>1
<1>5. CASE s2 - s1 >= 1
  <2>1. (s2 - s1) * W >= W
    BY <1>1, <1>5
  <2>2. (s2 - s1) * W = v1 - v2
    BY <1>1, <1>2
  <2> QED
    BY <1>1, <2>1, <2>2
<1> QED
  BY <1>1, <1>2, <1>4, <1>5
-----------------------------------------------------------------------------
(* The invariant *)

Updating(t) == stage[t] \in {"insert", "inserting", "again", "bytes", "packets"}

\* A call in progress has added its amount or is about to.
CallOpen(t) ==
  LET f == Field(t)
  IN  /\ <<t, call[t].key>> \in MayUpdate
      /\ call[t].key \in Keys
      /\ stage[t] \in {"insert", "inserting"} <=> call[t].key \notin present
      /\ due[f] = charged[f] + call[t].amount
      /\ Counted(f, bytes) = IF stage[t] = "packets" THEN due[f] ELSE charged[f]
      /\ begun[f] = finished[f] + 1
      /\ Counted(f, packets) = finished[f]

\* A field nobody updates agrees with its bill.
Settled(f) ==
  /\ Counted(f, bytes) = charged[f] /\ due[f] = charged[f]
  /\ Counted(f, packets) = finished[f] /\ begun[f] = finished[f]

\* Whoever erases a key may reset it,
Erasures ==
  \A t \in Threads :
    stage[t] = "erasing" => <<t, call[t].key>> \in MayReset /\ call[t].key \in Keys

\* and nobody changes the map while another stands in it.
Exclusive ==
  \A t, u \in Threads : stage[t] = "walk" => stage[u] \notin Changing

\* An update is of a key of the meter.
Known == \A t \in Threads : Updating(t) => call[t].key \in Keys

Orderly ==
  /\ TypeOK
  /\ Erasures
  /\ Exclusive
  /\ \A t \in Threads : Updating(t) => CallOpen(t)
  /\ \A f \in Fields :
       (\A t \in Threads : Updating(t) => Field(t) # f) => Settled(f)

Inv == TypeOK /\ Known /\ (~raced => Orderly)

\* The deployments in which the unlocked map is enough as long as no call
\* races in it.
Divided == OneUpdaterPerKey /\ ResetByUpdater

\* Adding to one field leaves the others.
LEMMA AddFacts ==
  ASSUME NEW f \in [Fields -> Nat], NEW at \in Fields, NEW n \in Nat
  PROVE  /\ Add(f, at, n) \in [Fields -> Nat]
         /\ Add(f, at, n)[at] = f[at] + n
         /\ \A x \in Fields : x # at => Add(f, at, n)[x] = f[x]
BY DEF Add

\* Clearing a key zeroes its fields and leaves the others.
LEMMA ClearedFacts ==
  ASSUME NEW f \in [Fields -> Nat], NEW k \in Keys
  PROVE  /\ Cleared(f, k) \in [Fields -> Nat]
         /\ \A x \in Fields :
              Cleared(f, k)[x] = IF x[1] = k THEN 0 ELSE f[x]
BY DEF Cleared

\* Keys are numbers.
LEMMA KeysNat == Keys \subseteq Nat
<1> SUFFICES ASSUME NEW s \in Subscribers, NEW v \in Services
             PROVE  CounterKey(s, v) \in Nat
  BY DEF Keys
<1>1. s \in Nat /\ v \in Nat /\ ServiceSpace \in Nat
  BY IdAssumption
<1>2. s * ServiceSpace \in Nat
  BY <1>1
<1> QED
  BY <1>1, <1>2 DEF CounterKey

-----------------------------------------------------------------------------
(* Types *)

\* The meter begins with its types.
LEMMA InitType == Init => TypeOK /\ Known
<1> SUFFICES ASSUME Init PROVE TypeOK /\ Known
  OBVIOUS
<1>1. Zero \in [Fields -> Nat] /\ NoCall \in Calls /\ "idle" \in Stages
  BY DEF Zero, NoCall, Calls, Directions, Stages
<1>2. TypeOK
  BY <1>1 DEF Init, TypeOK
<1>3. Known
  BY DEF Init, Known, Updating
<1> QED
  BY <1>2, <1>3

\* A race is a fact or none.
LEMMA RacedType ==
  ASSUME raced \in BOOLEAN, NEW t \in Threads,
         \/ Lookup(t) \/ Change(t) \/ FindAgain(t) \/ UNCHANGED raced
  PROVE  raced' \in BOOLEAN
BY DEF Lookup, Change, FindAgain, OthersIn

\* Whatever is added to, the fields stay numbers.
LEMMA AddType ==
  ASSUME NEW f \in [Fields -> Nat], NEW at, NEW n \in Nat
  PROVE  Add(f, at, n) \in [Fields -> Nat]
<1>1. CASE at \in Fields
  BY <1>1, AddFacts
<1>2. CASE at \notin Fields
  <2>1. Add(f, at, n) = f
    BY <1>2 DEF Add
  <2> QED
    BY <2>1
<1> QED
  BY <1>1, <1>2

\* The steps of update_counter keep the types.
LEMMA UpdateType ==
  ASSUME TypeOK, Known, NEW t \in Threads,
         \/ UpdateFind(t) \/ InsertBegin(t) \/ InsertEnd(t) \/ FindAgain(t)
         \/ UpdateBytes(t) \/ UpdatePackets(t)
  PROVE  TypeOK'
<1>1. CASE UpdateFind(t)
  <2>1. PICK k \in Keys, d \in Directions, n \in Amounts, found \in BOOLEAN :
          /\ Find(t, k, found)
          /\ call' = [call EXCEPT ![t] = [key |-> k, direction |-> d, amount |-> n]]
          /\ stage' = [stage EXCEPT ![t] = IF found THEN "bytes" ELSE "insert"]
          /\ due' = Add(due, <<k, d>>, n)
          /\ begun' = Add(begun, <<k, d>>, 1)
    BY <1>1 DEF UpdateFind
  <2>2. UNCHANGED <<present, bytes, packets, breaches, scope, todo, sum, charged,
                     finished>>
    BY <1>1 DEF UpdateFind, counters, reads
  <2>3. <<k, d>> \in Fields /\ n \in Nat
    BY AmountAssumption DEF Fields
  <2>4. due' \in [Fields -> Nat] /\ begun' \in [Fields -> Nat]
    BY <2>1, <2>3, AddFacts DEF TypeOK
  <2>5. stage' \in [Threads -> Stages]
    BY <2>1 DEF TypeOK, Stages
  <2>6. call' \in [Threads -> Calls]
    BY <2>1, <2>3 DEF TypeOK, Calls
  <2>7. raced' \in BOOLEAN
    BY <2>1, RacedType DEF TypeOK, Find
  <2> QED
    BY <2>2, <2>4, <2>5, <2>6, <2>7 DEF TypeOK
<1>2. CASE InsertBegin(t)
  <2>1. raced' \in BOOLEAN
    BY <1>2, RacedType DEF TypeOK, InsertBegin
  <2>2. /\ stage' = [stage EXCEPT ![t] = "inserting"]
        /\ UNCHANGED <<present, bytes, packets, breaches, call, scope, todo, sum,
                        due, charged, begun, finished>>
    BY <1>2 DEF InsertBegin, counters, reads, bill
  <2> QED
    BY <2>1, <2>2 DEF TypeOK, Stages
<1>3. CASE InsertEnd(t)
  <2>1. /\ present' \in Survivors(present \cup {call[t].key})
        /\ bytes' = Cleared(bytes, call[t].key)
        /\ packets' = Cleared(packets, call[t].key)
        /\ breaches' = [breaches EXCEPT ![call[t].key] = 0]
        /\ stage' = [stage EXCEPT ![t] = "again"]
        /\ UNCHANGED <<raced, call, scope, todo, sum, due, charged, begun, finished>>
    BY <1>3 DEF InsertEnd, reads, bill
  <2>2. bytes' \in [Fields -> Nat] /\ packets' \in [Fields -> Nat]
    BY <2>1 DEF TypeOK, Cleared
  <2>3. present' \in SUBSET Keys
    <3>1. call[t].key \in Keys
      BY <1>3 DEF InsertEnd, Known, Updating
    <3> QED
      BY <2>1, <3>1 DEF TypeOK, Survivors
  <2>4. breaches' \in [Keys -> Nat] /\ stage' \in [Threads -> Stages]
    BY <2>1 DEF TypeOK, Stages
  <2> QED
    BY <2>1, <2>2, <2>3, <2>4 DEF TypeOK
<1>4. CASE FindAgain(t)
  <2>1. raced' \in BOOLEAN
    BY <1>4, RacedType DEF TypeOK
  <2>2. /\ stage' = [stage EXCEPT ![t] = "bytes"]
        /\ UNCHANGED <<present, bytes, packets, breaches, call, scope, todo, sum,
                        due, charged, begun, finished>>
    BY <1>4 DEF FindAgain, counters, reads, bill
  <2> QED
    BY <2>1, <2>2 DEF TypeOK, Stages
<1>5. CASE UpdateBytes(t)
  <2>1. /\ bytes' = Add(bytes, Field(t), call[t].amount) \/ bytes' = bytes
        /\ stage' = [stage EXCEPT ![t] = "packets"]
        /\ UNCHANGED <<present, packets, breaches, raced, call, scope, todo, sum,
                        due, charged, begun, finished>>
    BY <1>5 DEF UpdateBytes, reads, bill
  <2>2. bytes' \in [Fields -> Nat]
    BY <2>1 DEF TypeOK, Calls, Add
  <2> QED
    BY <2>1, <2>2 DEF TypeOK, Stages
<1>6. CASE UpdatePackets(t)
  <2>1. /\ packets' = Add(packets, Field(t), 1) \/ packets' = packets
        /\ charged' = Add(charged, Field(t), call[t].amount)
        /\ finished' = Add(finished, Field(t), 1)
        /\ stage' = [stage EXCEPT ![t] = "idle"]
        /\ call' = [call EXCEPT ![t] = NoCall]
        /\ UNCHANGED <<present, bytes, breaches, raced, scope, todo, sum, due, begun>>
    BY <1>6 DEF UpdatePackets, reads
  <2>2. call[t].amount \in Nat
    BY DEF TypeOK, Calls
  <2>3. packets' \in [Fields -> Nat]
    BY <2>1 DEF TypeOK, Add
  <2>4. charged' \in [Fields -> Nat] /\ finished' \in [Fields -> Nat]
    <3>1. charged \in [Fields -> Nat] /\ finished \in [Fields -> Nat]
      BY DEF TypeOK
    <3> QED
      BY <2>1, <2>2, <3>1, AddType, 1 \in Nat
  <2>5. call' \in [Threads -> Calls] /\ stage' \in [Threads -> Stages]
    BY <2>1 DEF TypeOK, Calls, NoCall, Directions, Stages
  <2> QED
    BY <2>1, <2>3, <2>4, <2>5 DEF TypeOK
<1> QED
  BY <1>1, <1>2, <1>3, <1>4, <1>5, <1>6

\* So do the steps of reset_counter.
LEMMA ResetType ==
  ASSUME TypeOK, NEW t \in Threads, ResetBegin(t) \/ ResetEnd(t)
  PROVE  TypeOK'
<1>1. CASE ResetBegin(t)
  <2>1. PICK k \in Keys :
          call' = [call EXCEPT ![t] = [key |-> k, direction |-> "up", amount |-> 0]]
    BY <1>1 DEF ResetBegin
  <2>2. /\ stage' = [stage EXCEPT ![t] = "erasing"]
        /\ UNCHANGED <<present, bytes, packets, breaches, scope, todo, sum,
                        due, charged, begun, finished>>
    BY <1>1 DEF ResetBegin, counters, reads, bill
  <2>3. raced' \in BOOLEAN
    BY <1>1, RacedType DEF TypeOK, ResetBegin
  <2>4. call' \in [Threads -> Calls] /\ stage' \in [Threads -> Stages]
    BY <2>1, <2>2 DEF TypeOK, Calls, Directions, Stages
  <2> QED
    BY <2>2, <2>3, <2>4 DEF TypeOK
<1>2. CASE ResetEnd(t)
  <2>1. /\ present' \in Survivors(present \ {call[t].key})
        /\ bytes' = Cleared(bytes, call[t].key)
        /\ packets' = Cleared(packets, call[t].key)
        /\ breaches' = [breaches EXCEPT ![call[t].key] = 0]
        /\ due' = Cleared(due, call[t].key) /\ charged' = Cleared(charged, call[t].key)
        /\ begun' = Cleared(begun, call[t].key)
        /\ finished' = Cleared(finished, call[t].key)
        /\ stage' = [stage EXCEPT ![t] = "idle"]
        /\ call' = [call EXCEPT ![t] = NoCall]
        /\ UNCHANGED <<raced, scope, todo, sum>>
    BY <1>2 DEF ResetEnd, reads
  <2>2. /\ bytes' \in [Fields -> Nat] /\ packets' \in [Fields -> Nat]
        /\ due' \in [Fields -> Nat] /\ charged' \in [Fields -> Nat]
        /\ begun' \in [Fields -> Nat] /\ finished' \in [Fields -> Nat]
    BY <2>1 DEF TypeOK, Cleared
  <2>3. present' \in SUBSET Keys /\ breaches' \in [Keys -> Nat]
    BY <2>1 DEF TypeOK, Survivors
  <2>4. call' \in [Threads -> Calls] /\ stage' \in [Threads -> Stages]
    BY <2>1 DEF TypeOK, Calls, NoCall, Directions, Stages
  <2> QED
    BY <2>1, <2>2, <2>3, <2>4 DEF TypeOK
<1> QED
  BY <1>1, <1>2

\* A step of a read keeps the types of what it does not write; what it
\* writes is sets of keys and of fields, and numbers.
LEMMA ReadFrame ==
  ASSUME TypeOK, NEW t \in Threads,
         UNCHANGED <<present, bytes, packets, bill>>,
         breaches' \in [Keys -> Nat], raced' \in BOOLEAN,
         NEW s \in Stages, stage' = [stage EXCEPT ![t] = s],
         NEW c \in Calls, call' = [call EXCEPT ![t] = c],
         NEW ks \in SUBSET Keys, scope' = [scope EXCEPT ![t] = ks],
         NEW fs \in SUBSET Fields, todo' = [todo EXCEPT ![t] = fs],
         NEW n \in Nat, sum' = [sum EXCEPT ![t] = n]
  PROVE  TypeOK'
BY DEF TypeOK, bill

\* The steps that begin a read keep the types.
LEMMA BeginType ==
  ASSUME TypeOK, NEW t \in Threads,
         ReadBegin(t) \/ ThresholdBegin(t) \/ WalkBegin(t)
  PROVE  TypeOK'
<1>0. call[t] \in Calls /\ call = [call EXCEPT ![t] = call[t]]
  BY DEF TypeOK
<1>1. CASE ReadBegin(t)
  <2>1. PICK k \in Keys, found \in BOOLEAN : FindRead(t, k, found)
    BY <1>1 DEF ReadBegin
  <2>2. raced' \in BOOLEAN
    BY <2>1, RacedType DEF TypeOK, FindRead, Find
  <2>3. /\ {k} \in SUBSET Keys
        /\ (IF found THEN {k} \X Directions ELSE {}) \in SUBSET Fields
    BY DEF Fields
  <2>4. /\ scope' = [scope EXCEPT ![t] = {k}]
        /\ todo' = [todo EXCEPT ![t] = IF found THEN {k} \X Directions ELSE {}]
        /\ sum' = [sum EXCEPT ![t] = 0]
    BY <2>1 DEF FindRead, BeginRead
  <2>5. /\ UNCHANGED <<present, bytes, packets, bill, call, breaches>>
        /\ stage' = [stage EXCEPT ![t] = "read"] /\ breaches' \in [Keys -> Nat]
        /\ "read" \in Stages
    BY <1>1 DEF ReadBegin, counters, TypeOK, Stages
  <2> QED
    BY <1>0, <2>2, <2>3, <2>4, <2>5, ReadFrame
<1>2. CASE ThresholdBegin(t)
  <2>1. PICK k \in Keys, l \in Limits, found \in BOOLEAN :
          /\ FindRead(t, k, found)
          /\ stage' = [stage EXCEPT ![t] = IF found THEN "check" ELSE "within"]
          /\ call' = [call EXCEPT ![t] = [key |-> k, direction |-> "up", amount |-> l]]
    BY <1>2 DEF ThresholdBegin
  <2>2. raced' \in BOOLEAN
    BY <2>1, RacedType DEF TypeOK, FindRead, Find
  <2>3. /\ {k} \in SUBSET Keys
        /\ (IF found THEN {k} \X Directions ELSE {}) \in SUBSET Fields
    BY DEF Fields
  <2>4. /\ scope' = [scope EXCEPT ![t] = {k}]
        /\ todo' = [todo EXCEPT ![t] = IF found THEN {k} \X Directions ELSE {}]
        /\ sum' = [sum EXCEPT ![t] = 0]
    BY <2>1 DEF FindRead, BeginRead
  <2>5. /\ UNCHANGED <<present, bytes, packets, bill>> /\ breaches' \in [Keys -> Nat]
        /\ (IF found THEN "check" ELSE "within") \in Stages
        /\ [key |-> k, direction |-> "up", amount |-> l] \in Calls
    BY <1>2, AmountAssumption
      DEF ThresholdBegin, counters, TypeOK, Stages, Calls, Directions
  <2> QED
    BY <2>1, <2>2, <2>3, <2>4, <2>5, ReadFrame
<1>3. CASE WalkBegin(t)
  <2>1. raced' \in BOOLEAN
    BY <1>3, RacedType DEF TypeOK, WalkBegin
  <2>2. /\ scope' = [scope EXCEPT ![t] = {}] /\ todo' = [todo EXCEPT ![t] = {}]
        /\ sum' = [sum EXCEPT ![t] = 0]
        /\ {} \in SUBSET Keys /\ {} \in SUBSET Fields /\ 0 \in Nat
        /\ stage' = [stage EXCEPT ![t] = "walk"] /\ "walk" \in Stages
        /\ UNCHANGED <<present, bytes, packets, bill, call>>
        /\ breaches' \in [Keys -> Nat]
    BY <1>3 DEF WalkBegin, BeginRead, counters, TypeOK, Stages
  <2> QED
    BY <1>0, <2>1, <2>2, ReadFrame
<1> QED
  BY <1>1, <1>2, <1>3

\* So do the others.
LEMMA LoadType ==
  ASSUME TypeOK, NEW t \in Threads,
         \/ WalkNext(t) \/ ReadLoad(t) \/ ThresholdCheck(t) \/ ReadReturn(t)
  PROVE  TypeOK'
<1>0. /\ call[t] \in Calls /\ call = [call EXCEPT ![t] = call[t]]
      /\ stage[t] \in Stages /\ stage = [stage EXCEPT ![t] = stage[t]]
      /\ scope[t] \in SUBSET Keys /\ scope = [scope EXCEPT ![t] = scope[t]]
      /\ todo[t] \in SUBSET Fields /\ todo = [todo EXCEPT ![t] = todo[t]]
      /\ sum[t] \in Nat /\ sum = [sum EXCEPT ![t] = sum[t]]
      /\ breaches \in [Keys -> Nat] /\ raced \in BOOLEAN
  BY DEF TypeOK
<1>1. CASE WalkNext(t)
  <2>1. PICK k \in present :
          /\ scope' = [scope EXCEPT ![t] = scope[t] \cup {k}]
          /\ todo' = [todo EXCEPT ![t] = {k} \X Directions]
    BY <1>1 DEF WalkNext
  <2>2. scope[t] \cup {k} \in SUBSET Keys /\ {k} \X Directions \in SUBSET Fields
    BY <1>0 DEF TypeOK, Fields
  <2>3. raced' \in BOOLEAN
    BY <1>0, <1>1, RacedType DEF WalkNext
  <2>4. UNCHANGED <<present, bytes, packets, breaches, bill, stage, call, sum>>
    BY <1>1 DEF WalkNext, counters, calls
  <2> QED
    BY <1>0, <2>1, <2>2, <2>3, <2>4, ReadFrame
<1>2. CASE ReadLoad(t)
  <2>1. PICK f \in NextLoads(t) : \E value \in Loaded(f) :
          /\ sum' = [sum EXCEPT ![t] = sum[t] + value]
          /\ todo' = [todo EXCEPT ![t] = todo[t] \ {f}]
    BY <1>2 DEF ReadLoad
  <2>2. PICK value \in Loaded(f) :
          /\ sum' = [sum EXCEPT ![t] = sum[t] + value]
          /\ todo' = [todo EXCEPT ![t] = todo[t] \ {f}]
    BY <2>1
  <2>3. f \in Fields
    BY <1>0 DEF NextLoads
  <2>4. sum[t] + value \in Nat /\ todo[t] \ {f} \in SUBSET Fields
    BY <1>0, <2>3, AmountAssumption DEF Loaded, TypeOK
  <2>5. UNCHANGED <<present, bytes, packets, breaches, raced, bill, stage, call, scope>>
    BY <1>2 DEF ReadLoad, counters, calls
  <2> QED
    BY <1>0, <2>2, <2>4, <2>5, ReadFrame
<1>3. CASE ThresholdCheck(t)
  <2>1. /\ \/ stage' = [stage EXCEPT ![t] = "breached"]
           \/ stage' = [stage EXCEPT ![t] = "within"]
        /\ breaches' = breaches \/ breaches' = Add(breaches, call[t].key, 1)
        /\ UNCHANGED <<present, bytes, packets, raced, bill, call, scope, todo, sum>>
    BY <1>3 DEF ThresholdCheck, reads
  <2>2. breaches' \in [Keys -> Nat] /\ "breached" \in Stages /\ "within" \in Stages
    BY <1>0, <2>1 DEF Add, Stages
  <2> QED
    BY <1>0, <2>1, <2>2, ReadFrame
<1>4. CASE ReadReturn(t)
  <2>1. raced' \in BOOLEAN
    BY <1>0, <1>4, RacedType DEF ReadReturn
  <2>2. /\ scope' = [scope EXCEPT ![t] = {}] /\ todo' = [todo EXCEPT ![t] = {}]
        /\ sum' = [sum EXCEPT ![t] = 0]
        /\ {} \in SUBSET Keys /\ {} \in SUBSET Fields /\ 0 \in Nat
        /\ stage' = [stage EXCEPT ![t] = "idle"] /\ "idle" \in Stages
        /\ call' = [call EXCEPT ![t] = NoCall] /\ NoCall \in Calls
        /\ UNCHANGED <<present, bytes, packets, breaches, bill>>
    BY <1>4 DEF ReadReturn, BeginRead, counters, NoCall, Calls, Directions, Stages
  <2> QED
    BY <1>0, <2>1, <2>2, ReadFrame
<1> QED
  BY <1>1, <1>2, <1>3, <1>4

\* An update is of a key of the meter, and stays so.
LEMMA NextKnown == TypeOK /\ Known /\ [Next]_vars => Known'
<1> SUFFICES ASSUME TypeOK, Known, [Next]_vars, NEW u \in Threads, Updating(u)'
             PROVE  call'[u].key \in Keys
  BY DEF Known
<1>1. CASE UNCHANGED vars
  BY <1>1 DEF vars, calls, Known, Updating
<1>2. ASSUME NEW t \in Threads, UpdateFind(t) PROVE call'[u].key \in Keys
  <2>1. PICK k \in Keys, d \in Directions, n \in Amounts, found \in BOOLEAN :
          /\ call' = [call EXCEPT ![t] = [key |-> k, direction |-> d, amount |-> n]]
          /\ stage' = [stage EXCEPT ![t] = IF found THEN "bytes" ELSE "insert"]
    BY <1>2 DEF UpdateFind
  <2> QED
    BY <2>1 DEF TypeOK, Known, Updating
<1>3. ASSUME NEW t \in Threads,
             \/ InsertBegin(t) \/ InsertEnd(t) \/ FindAgain(t) \/ UpdateBytes(t)
             \/ ReadLoad(t) \/ ThresholdCheck(t) \/ ReadBegin(t) \/ WalkBegin(t)
             \/ WalkNext(t)
      PROVE  call'[u].key \in Keys
  <2>1. /\ call' = call
        /\ \A v \in Threads : Updating(v)' => Updating(v)
    BY <1>3 DEF InsertBegin, InsertEnd, FindAgain, UpdateBytes, ReadLoad,
                ThresholdCheck, ReadBegin, WalkBegin, WalkNext, calls, TypeOK, Updating
  <2> QED
    BY <2>1 DEF Known
<1>4. ASSUME NEW t \in Threads,
             \/ UpdatePackets(t) \/ ResetBegin(t) \/ ResetEnd(t) \/ ReadReturn(t)
             \/ ThresholdBegin(t)
      PROVE  call'[u].key \in Keys
  <2>1. ~Updating(t)'
    BY <1>4 DEF UpdatePackets, ResetBegin, ResetEnd, ReadReturn, ThresholdBegin,
                TypeOK, Updating
  <2>2. \A v \in Threads : v # t => call'[v] = call[v] /\ stage'[v] = stage[v]
    BY <1>4 DEF UpdatePackets, ResetBegin, ResetEnd, ReadReturn, ThresholdBegin, TypeOK
  <2> QED
    BY <2>1, <2>2 DEF Known, Updating
<1> QED
  BY <1>1, <1>2, <1>3, <1>4 DEF Next

\* Every step keeps the types.
LEMMA NextType == TypeOK /\ Known /\ [Next]_vars => TypeOK'
<1> SUFFICES ASSUME TypeOK, Known, [Next]_vars PROVE TypeOK'
  OBVIOUS
<1>1. CASE UNCHANGED vars
  BY <1>1 DEF vars, counters, calls, reads, bill, TypeOK
<1> QED
  BY <1>1, UpdateType, ResetType, BeginType, LoadType DEF Next

\* The variables of update_counter, of the resets and of the reads keep their
\* types, whoever updates and resets which keys and whatever races.
THEOREM TypeCorrect == Spec => []TypeOK
<1>1. Init => TypeOK /\ Known
  BY InitType
<1>2. TypeOK /\ Known /\ [Next]_vars => (TypeOK /\ Known)'
  BY NextType, NextKnown
<1> QED
  BY <1>1, <1>2, PTL DEF Spec

\* The invariant implies the bill is exact.
LEMMA InvBilled == Inv => BilledExactly
<1> SUFFICES ASSUME Inv, ~raced, NEW f \in Fields
             PROVE  /\ charged[f] <= Counted(f, bytes)
                    /\ Counted(f, bytes) <= due[f]
                    /\ finished[f] <= Counted(f, packets)
                    /\ Counted(f, packets) <= begun[f]
  BY DEF BilledExactly
<1>0. Orderly
  BY DEF Inv
<1>1. /\ due[f] \in Nat /\ charged[f] \in Nat
      /\ begun[f] \in Nat /\ finished[f] \in Nat
  BY <1>0 DEF Orderly, TypeOK
<1>2. CASE \A t \in Threads : Updating(t) => Field(t) # f
  BY <1>0, <1>1, <1>2 DEF Orderly, Settled
<1>3. ASSUME NEW t \in Threads, Updating(t), Field(t) = f
      PROVE  /\ charged[f] <= Counted(f, bytes)
             /\ Counted(f, bytes) <= due[f]
             /\ finished[f] <= Counted(f, packets)
             /\ Counted(f, packets) <= begun[f]
  <2>1. CallOpen(t) /\ call[t].amount \in Nat
    BY <1>0, <1>3 DEF Orderly, TypeOK, Calls
  <2> QED
    BY <1>1, <1>3, <2>1 DEF CallOpen
<1> QED
  BY <1>2, <1>3

\* The empty meter.
LEMMA InitInv == Init => Inv
<1> SUFFICES ASSUME Init PROVE Inv
  OBVIOUS
<1>1. TypeOK /\ Known
  BY InitType
<1>2. \A t \in Threads : stage[t] = "idle"
  BY DEF Init
<1>3. \A f \in Fields : Settled(f)
  BY DEF Init, Settled, Counted, Zero
<1>4. Erasures /\ Exclusive /\ \A t \in Threads : ~Updating(t)
  BY <1>2 DEF Erasures, Exclusive, Updating
<1> QED
  BY <1>1, <1>3, <1>4 DEF Inv, Orderly

\* A step of t that leaves the map, or stays where it was, disturbs nobody in
\* it.
LEMMA StepsAside ==
  ASSUME Erasures, Exclusive, NEW t \in Threads,
         \A u \in Threads : u # t => stage'[u] = stage[u] /\ call'[u] = call[u],
         \/ stage'[t] \notin Changing \cup {"walk"}
         \/ stage'[t] = stage[t] /\ call'[t] = call[t]
  PROVE  Erasures' /\ Exclusive'
BY DEF Erasures, Exclusive, Changing

-----------------------------------------------------------------------------
(* The steps of update_counter *)

\* An updating thread shares its key with no other.
LEMMA OtherKey ==
  ASSUME Divided, NEW t \in Threads, NEW k \in Keys, <<t, k>> \in MayUpdate,
         NEW u \in Threads, u # t, Updating(u), CallOpen(u)
  PROVE  call[u].key # k
BY DEF Divided, OneUpdaterPerKey, CallOpen

\* An updating thread works on a field of the meter.
LEMMA OpenField ==
  ASSUME Orderly, NEW t \in Threads, Updating(t)
  PROVE  /\ CallOpen(t)
         /\ Field(t) \in Fields /\ Field(t)[1] = call[t].key
         /\ call[t].amount \in Nat
         /\ call[t].key \in Keys
         /\ <<t, call[t].key>> \in MayUpdate
BY DEF Orderly, TypeOK, Calls, CallOpen, Field, Fields

\* Beginning an update raises the bill of a field nobody else works on.
LEMMA UpdateFindInv ==
  ASSUME Divided, Orderly, TypeOK', ~raced, ~raced', NEW t \in Threads, UpdateFind(t)
  PROVE  Orderly'
<1>0. PICK k \in Keys, d \in Directions, n \in Amounts, found \in BOOLEAN :
        /\ <<t, k>> \in MayUpdate
        /\ Find(t, k, found)
        /\ call' = [call EXCEPT ![t] = [key |-> k, direction |-> d, amount |-> n]]
        /\ stage' = [stage EXCEPT ![t] = IF found THEN "bytes" ELSE "insert"]
        /\ due' = Add(due, <<k, d>>, n)
        /\ begun' = Add(begun, <<k, d>>, 1)
  BY DEF UpdateFind
<1>1. /\ <<t, k>> \in MayUpdate
      /\ call' = [call EXCEPT ![t] = [key |-> k, direction |-> d, amount |-> n]]
      /\ stage' = [stage EXCEPT ![t] = IF k \in present THEN "bytes" ELSE "insert"]
      /\ due' = Add(due, <<k, d>>, n)
      /\ begun' = Add(begun, <<k, d>>, 1)
  <2>1. found <=> k \in present
    BY <1>0 DEF Find
  <2> QED
    BY <1>0, <2>1
<1> DEFINE f == <<k, d>>
<1>2. f \in Fields /\ n \in Nat /\ f[1] = k
  BY AmountAssumption DEF Fields
<1>3. /\ stage[t] = "idle"
      /\ UNCHANGED <<present, bytes, packets, breaches, scope, todo, sum, charged,
                      finished>>
  BY DEF UpdateFind, counters, reads
<1>4. Erasures' /\ Exclusive'
  <2>1. stage'[t] \notin Changing \cup {"walk"}
    BY <1>1 DEF Orderly, TypeOK, Changing
  <2>2. \A u \in Threads : u # t => stage'[u] = stage[u] /\ call'[u] = call[u]
    BY <1>1 DEF Orderly, TypeOK
  <2> QED
    BY <2>1, <2>2, StepsAside DEF Orderly
<1>5. \A u \in Threads : u # t =>
        stage'[u] = stage[u] /\ call'[u] = call[u] /\ Field(u)' = Field(u)
  BY <1>1 DEF Orderly, TypeOK, Field
<1>6. /\ stage'[t] = IF k \in present THEN "bytes" ELSE "insert"
      /\ call'[t] = [key |-> k, direction |-> d, amount |-> n]
      /\ Field(t)' = f
  BY <1>1 DEF Orderly, TypeOK, Field
<1>7. ~Updating(t) /\ Updating(t)'
  BY <1>3, <1>6 DEF Updating
<1>8. \A u \in Threads : u # t /\ Updating(u) => Field(u) \in Fields /\ Field(u) # f
  <2> SUFFICES ASSUME NEW u \in Threads, u # t, Updating(u)
               PROVE  Field(u) \in Fields /\ Field(u) # f
    OBVIOUS
  <2>1. CallOpen(u) /\ Field(u) \in Fields /\ Field(u)[1] = call[u].key
    BY OpenField
  <2>2. call[u].key # k
    BY <1>1, <2>1, OtherKey
  <2> QED
    BY <1>2, <2>1, <2>2
<1>9. Settled(f)
  BY <1>2, <1>7, <1>8 DEF Orderly
<1>10. /\ due'[f] = due[f] + n /\ begun'[f] = begun[f] + 1
       /\ \A x \in Fields : x # f => due'[x] = due[x] /\ begun'[x] = begun[x]
  <2>1. due \in [Fields -> Nat] /\ begun \in [Fields -> Nat]
    BY DEF Orderly, TypeOK
  <2>2. due' = Add(due, f, n) /\ begun' = Add(begun, f, 1)
    BY <1>1
  <2> HIDE DEF f
  <2>3. /\ Add(due, f, n)[f] = due[f] + n
        /\ \A x \in Fields : x # f => Add(due, f, n)[x] = due[x]
    BY <1>2, <2>1, AddFacts
  <2>4. /\ Add(begun, f, 1)[f] = begun[f] + 1
        /\ \A x \in Fields : x # f => Add(begun, f, 1)[x] = begun[x]
    BY <1>2, <2>1, AddFacts, 1 \in Nat
  <2> QED
    BY <2>2, <2>3, <2>4
<1>11. \A x \in Fields : /\ Counted(x, bytes)' = Counted(x, bytes)
                         /\ Counted(x, packets)' = Counted(x, packets)
  BY <1>3 DEF Counted
<1> HIDE DEF f
<1>12. CallOpen(t)'
  BY <1>1, <1>2, <1>3, <1>6, <1>9, <1>10, <1>11 DEF CallOpen, Settled
<1>13. ASSUME NEW u \in Threads, u # t, Updating(u)'
       PROVE  CallOpen(u)'
  <2>1. Updating(u) /\ stage'[u] = stage[u] /\ call'[u] = call[u]
    BY <1>5, <1>13 DEF Updating
  <2>2. CallOpen(u) /\ Field(u) \in Fields /\ Field(u) # f /\ Field(u)' = Field(u)
    BY <1>5, <1>8, <1>13, <2>1 DEF Orderly
  <2>3. /\ due'[Field(u)] = due[Field(u)] /\ begun'[Field(u)] = begun[Field(u)]
        /\ Counted(Field(u), bytes)' = Counted(Field(u), bytes)
        /\ Counted(Field(u), packets)' = Counted(Field(u), packets)
    BY <1>10, <1>11, <2>2 DEF Counted
  <2> QED
    BY <1>3, <2>1, <2>2, <2>3 DEF CallOpen
<1>14. ASSUME NEW x \in Fields, \A u \in Threads : Updating(u)' => Field(u)' # x
       PROVE  Settled(x)'
  <2>1. x # f
    BY <1>6, <1>7, <1>14
  <2>2. \A u \in Threads : Updating(u) => Field(u) # x
    BY <1>5, <1>7, <1>14 DEF Updating
  <2> QED
    BY <1>3, <1>10, <1>11, <1>14, <2>1, <2>2 DEF Orderly, Settled
<1> QED
  BY <1>4, <1>12, <1>13, <1>14 DEF Orderly

\* A new counter is empty, and so was the bill.
LEMMA InsertEndInv ==
  ASSUME Divided, Orderly, TypeOK', ~raced, ~raced', NEW t \in Threads, InsertEnd(t)
  PROVE  Orderly'
<1>0. PICK k \in Keys : k = call[t].key
  BY OpenField DEF InsertEnd, Updating
<1>1. /\ stage[t] = "inserting" /\ Updating(t)
      /\ CallOpen(t) /\ k \notin present /\ <<t, k>> \in MayUpdate
  BY <1>0, OpenField DEF InsertEnd, Updating, CallOpen
<1>2. /\ present' = present \cup {k}
      /\ bytes' = Cleared(bytes, k) /\ packets' = Cleared(packets, k)
      /\ breaches' = [breaches EXCEPT ![k] = 0]
      /\ stage' = [stage EXCEPT ![t] = "again"]
      /\ UNCHANGED <<call, scope, todo, sum, due, charged, begun, finished>>
  BY <1>0 DEF InsertEnd, Survivors, reads, bill
<1>3. /\ bytes' \in [Fields -> Nat] /\ packets' \in [Fields -> Nat]
      /\ \A x \in Fields : /\ bytes'[x] = IF x[1] = k THEN 0 ELSE bytes[x]
                           /\ packets'[x] = IF x[1] = k THEN 0 ELSE packets[x]
  <2>1. bytes \in [Fields -> Nat] /\ packets \in [Fields -> Nat] 
    BY DEF Orderly, TypeOK
  <2>2. /\ Cleared(bytes, k) \in [Fields -> Nat]
        /\ \A x \in Fields :
             Cleared(bytes, k)[x] = IF x[1] = k THEN 0 ELSE bytes[x]
    BY <2>1, ClearedFacts
  <2>3. /\ Cleared(packets, k) \in [Fields -> Nat]
        /\ \A x \in Fields :
             Cleared(packets, k)[x] = IF x[1] = k THEN 0 ELSE packets[x]
    BY <2>1, ClearedFacts
  <2>4. bytes' = Cleared(bytes, k) /\ packets' = Cleared(packets, k)
    BY <1>2
  <2> QED
    BY <2>2, <2>3, <2>4
<1>4. Erasures' /\ Exclusive'
  <2>1. stage'[t] \notin Changing \cup {"walk"}
    BY <1>2 DEF Orderly, TypeOK, Changing
  <2>2. \A u \in Threads : u # t => stage'[u] = stage[u] /\ call'[u] = call[u]
    BY <1>2 DEF Orderly, TypeOK
  <2> QED
    BY <2>1, <2>2, StepsAside DEF Orderly
<1>5. \A x \in Fields : /\ Counted(x, bytes)' = Counted(x, bytes)
                        /\ Counted(x, packets)' = Counted(x, packets)
  <2> SUFFICES ASSUME NEW x \in Fields
               PROVE  /\ Counted(x, bytes)' = Counted(x, bytes)
                      /\ Counted(x, packets)' = Counted(x, packets)
    BY DEF Counted
  <2>1. present' = present \cup {k}
    BY <1>2
  <2>2. CASE x[1] = k
    BY <1>1, <1>3, <2>1, <2>2 DEF Counted
  <2>3. CASE x[1] # k
    BY <1>3, <2>1, <2>3 DEF Counted
  <2> QED
    BY <2>2, <2>3
<1>6. \A u \in Threads :
        /\ Field(u)' = Field(u) /\ (Updating(u)' <=> Updating(u))
        /\ u # t => stage'[u] = stage[u]
        /\ stage'[t] = "again"
  BY <1>1, <1>2 DEF Orderly, TypeOK, Field, Updating
<1>7. ASSUME NEW u \in Threads, Updating(u)'
      PROVE  CallOpen(u)'
  <2>1. CallOpen(u) /\ Field(u) \in Fields /\ Updating(u)
    BY <1>6, <1>7, OpenField
  <2>2. /\ Counted(Field(u), bytes)' = Counted(Field(u), bytes)
        /\ Counted(Field(u), packets)' = Counted(Field(u), packets)
    BY <1>5, <1>6, <2>1 DEF Counted
  <2>3. CASE u = t
    BY <1>0, <1>1, <1>2, <1>6, <2>1, <2>2, <2>3 DEF CallOpen
  <2>4. CASE u # t
    <3>1. call[u].key # k
      BY <1>1, <2>1, <2>4, OtherKey
    <3> QED
      BY <1>2, <1>6, <2>1, <2>2, <2>4, <3>1 DEF CallOpen
  <2> QED
    BY <2>3, <2>4
<1>8. ASSUME NEW x \in Fields, \A u \in Threads : Updating(u)' => Field(u)' # x
      PROVE  Settled(x)'
  <2>1. Settled(x)
    BY <1>6, <1>8 DEF Orderly
  <2> QED
    BY <1>2, <1>5, <1>8, <2>1 DEF Settled
<1> QED
  BY <1>4, <1>7, <1>8 DEF Orderly

\* The bytes of a call in progress reach its own field and no other.
LEMMA UpdateBytesInv ==
  ASSUME Divided, Orderly, TypeOK', ~raced, ~raced', NEW t \in Threads, UpdateBytes(t)
  PROVE  Orderly'
<1>0. PICK f \in Fields : f = Field(t) /\ f[1] = call[t].key
  BY OpenField DEF UpdateBytes, Updating
<1>1. PICK n \in Nat : n = call[t].amount
  BY OpenField DEF UpdateBytes, Updating
<1>2. /\ stage[t] = "bytes" /\ Updating(t) /\ CallOpen(t)
      /\ f[1] \in present /\ f[1] \in Keys /\ <<t, f[1]>> \in MayUpdate
  BY <1>0, OpenField DEF UpdateBytes, Updating, CallOpen
<1>3. /\ bytes' = Add(bytes, f, n)
      /\ stage' = [stage EXCEPT ![t] = "packets"]
      /\ UNCHANGED <<present, packets, breaches, call, scope, todo, sum, due,
                      charged, begun, finished>>
  BY <1>0, <1>1, <1>2 DEF UpdateBytes, reads, bill
<1>4. /\ bytes' \in [Fields -> Nat]
      /\ bytes'[f] = bytes[f] + n
      /\ \A x \in Fields : x # f => bytes'[x] = bytes[x]
  <2>1. bytes \in [Fields -> Nat]
    BY DEF Orderly, TypeOK
  <2>2. /\ Add(bytes, f, n) \in [Fields -> Nat]
        /\ Add(bytes, f, n)[f] = bytes[f] + n
        /\ \A x \in Fields : x # f => Add(bytes, f, n)[x] = bytes[x]
    BY <2>1, AddFacts
  <2> QED
    BY <1>3, <2>2
<1>5. Erasures' /\ Exclusive'
  <2>1. stage'[t] \notin Changing \cup {"walk"}
    BY <1>3 DEF Orderly, TypeOK, Changing
  <2>2. \A u \in Threads : u # t => stage'[u] = stage[u] /\ call'[u] = call[u]
    BY <1>3 DEF Orderly, TypeOK
  <2> QED
    BY <2>1, <2>2, StepsAside DEF Orderly
<1>6. \A u \in Threads :
        /\ Field(u)' = Field(u) /\ (Updating(u)' <=> Updating(u))
        /\ u # t => stage'[u] = stage[u]
        /\ stage'[t] = "packets"
  BY <1>2, <1>3 DEF Orderly, TypeOK, Field, Updating
<1>7. /\ Counted(f, bytes)' = Counted(f, bytes) + n
      /\ \A x \in Fields : x # f => Counted(x, bytes)' = Counted(x, bytes)
      /\ \A x \in Fields : Counted(x, packets)' = Counted(x, packets)
  BY <1>2, <1>3, <1>4 DEF Counted
<1>8. CallOpen(t)'
  <2>1. /\ Counted(f, bytes) = charged[f] /\ due[f] = charged[f] + n
        /\ begun[f] = finished[f] + 1 /\ Counted(f, packets) = finished[f]
    BY <1>0, <1>1, <1>2 DEF CallOpen
  <2>2. /\ Counted(f, bytes)' = due[f] /\ Counted(f, packets)' = finished[f]
        /\ Field(t)' = f /\ call'[t].key = f[1] /\ call'[t].amount = n
    BY <1>0, <1>1, <1>3, <1>6, <1>7, <2>1
  <2> QED
    BY <1>2, <1>3, <1>6, <2>1, <2>2 DEF CallOpen, Counted
<1>9. ASSUME NEW u \in Threads, u # t, Updating(u)'
      PROVE  CallOpen(u)'
  <2>1. CallOpen(u) /\ Field(u) \in Fields /\ Updating(u) /\ Field(u)[1] = call[u].key
    BY <1>6, <1>9, OpenField
  <2>2. Field(u) # f
    BY <1>2, <1>9, <2>1, OtherKey
  <2>3. /\ Counted(Field(u), bytes)' = Counted(Field(u), bytes)
        /\ Counted(Field(u), packets)' = Counted(Field(u), packets)
    BY <1>6, <1>7, <2>1, <2>2 DEF Counted
  <2> QED
    BY <1>3, <1>6, <1>9, <2>1, <2>3 DEF CallOpen
<1>10. ASSUME NEW x \in Fields, \A u \in Threads : Updating(u)' => Field(u)' # x
       PROVE  Settled(x)'
  <2>1. Settled(x) /\ x # f
    BY <1>0, <1>2, <1>6, <1>10 DEF Orderly
  <2> QED
    BY <1>3, <1>7, <1>10, <2>1 DEF Settled
<1> QED
  BY <1>5, <1>8, <1>9, <1>10 DEF Orderly

\* The call returns and leaves its field settled.
LEMMA UpdatePacketsInv ==
  ASSUME Divided, Orderly, TypeOK', ~raced, ~raced', NEW t \in Threads, UpdatePackets(t)
  PROVE  Orderly'
<1>0. PICK f \in Fields : f = Field(t) /\ f[1] = call[t].key
  BY OpenField DEF UpdatePackets, Updating
<1>1. PICK n \in Nat : n = call[t].amount
  BY OpenField DEF UpdatePackets, Updating
<1>2. /\ stage[t] = "packets" /\ Updating(t) /\ CallOpen(t)
      /\ f[1] \in present /\ f[1] \in Keys /\ <<t, f[1]>> \in MayUpdate
  BY <1>0, OpenField DEF UpdatePackets, Updating, CallOpen
<1>3. /\ packets' = Add(packets, f, 1)
      /\ charged' = Add(charged, f, n) /\ finished' = Add(finished, f, 1)
      /\ stage' = [stage EXCEPT ![t] = "idle"]
      /\ call' = [call EXCEPT ![t] = NoCall]
      /\ UNCHANGED <<present, bytes, breaches, scope, todo, sum, due, begun>>
  BY <1>0, <1>1, <1>2 DEF UpdatePackets, reads
<1>4. /\ packets' \in [Fields -> Nat] /\ charged' \in [Fields -> Nat]
      /\ finished' \in [Fields -> Nat]
      /\ packets'[f] = packets[f] + 1 /\ charged'[f] = charged[f] + n
      /\ finished'[f] = finished[f] + 1
      /\ \A x \in Fields : x # f =>
           packets'[x] = packets[x] /\ charged'[x] = charged[x]
             /\ finished'[x] = finished[x]
  <2>1. /\ packets \in [Fields -> Nat] /\ charged \in [Fields -> Nat]
        /\ finished \in [Fields -> Nat]
    BY DEF Orderly, TypeOK
  <2>2. /\ Add(packets, f, 1) \in [Fields -> Nat]
        /\ Add(packets, f, 1)[f] = packets[f] + 1
        /\ \A x \in Fields : x # f => Add(packets, f, 1)[x] = packets[x]
    BY <2>1, AddFacts, 1 \in Nat
  <2>3. /\ Add(charged, f, n) \in [Fields -> Nat]
        /\ Add(charged, f, n)[f] = charged[f] + n
        /\ \A x \in Fields : x # f => Add(charged, f, n)[x] = charged[x]
    BY <2>1, AddFacts
  <2>4. /\ Add(finished, f, 1) \in [Fields -> Nat]
        /\ Add(finished, f, 1)[f] = finished[f] + 1
        /\ \A x \in Fields : x # f => Add(finished, f, 1)[x] = finished[x]
    BY <2>1, AddFacts, 1 \in Nat
  <2> QED
    BY <1>3, <2>2, <2>3, <2>4
<1>5. Erasures' /\ Exclusive'
  <2>1. stage'[t] \notin Changing \cup {"walk"}
    BY <1>3 DEF Orderly, TypeOK, Changing
  <2>2. \A u \in Threads : u # t => stage'[u] = stage[u] /\ call'[u] = call[u]
    BY <1>3 DEF Orderly, TypeOK
  <2> QED
    BY <2>1, <2>2, StepsAside DEF Orderly
<1>6. /\ ~Updating(t)'
      /\ \A u \in Threads : u # t =>
           /\ stage'[u] = stage[u] /\ call'[u] = call[u]
           /\ Field(u)' = Field(u) /\ (Updating(u)' <=> Updating(u))
  BY <1>3 DEF Orderly, TypeOK, Field, Updating
<1>7. /\ Counted(f, packets)' = Counted(f, packets) + 1
      /\ \A x \in Fields : x # f => Counted(x, packets)' = Counted(x, packets)
      /\ \A x \in Fields : Counted(x, bytes)' = Counted(x, bytes)
  BY <1>2, <1>3, <1>4 DEF Counted
<1>8. Settled(f)'
  <2>1. /\ Counted(f, bytes) = due[f] /\ due[f] = charged[f] + n
        /\ begun[f] = finished[f] + 1 /\ Counted(f, packets) = finished[f]
    BY <1>0, <1>1, <1>2 DEF CallOpen
  <2> QED
    BY <1>3, <1>4, <1>7, <2>1 DEF Settled
<1>9. ASSUME NEW u \in Threads, Updating(u)'
      PROVE  CallOpen(u)'
  <2>1. u # t
    BY <1>6, <1>9
  <2>2. CallOpen(u) /\ Field(u) \in Fields /\ Updating(u) /\ Field(u)[1] = call[u].key
    BY <1>6, <1>9, <2>1, OpenField
  <2>3. Field(u) # f
    BY <1>2, <2>1, <2>2, OtherKey
  <2>4. /\ Counted(Field(u), bytes)' = Counted(Field(u), bytes)
        /\ Counted(Field(u), packets)' = Counted(Field(u), packets)
        /\ charged'[Field(u)] = charged[Field(u)]
        /\ finished'[Field(u)] = finished[Field(u)]
    BY <1>4, <1>6, <1>7, <2>1, <2>2, <2>3 DEF Counted
  <2> QED
    BY <1>3, <1>6, <2>1, <2>2, <2>4 DEF CallOpen
<1>10. ASSUME NEW x \in Fields, x # f,
              \A u \in Threads : Updating(u)' => Field(u)' # x
       PROVE  Settled(x)'
  <2>1. Settled(x)
    BY <1>0, <1>6, <1>10 DEF Orderly
  <2> QED
    BY <1>3, <1>4, <1>7, <1>10, <2>1 DEF Settled
<1> QED
  BY <1>5, <1>8, <1>9, <1>10 DEF Orderly

-----------------------------------------------------------------------------
(* Resets and reads *)

\* Whoever resets a key is its only updater, so no update of it is in progress
\* and its new bill begins with an absent counter.
LEMMA ResetEndInv ==
  ASSUME Divided, Orderly, TypeOK', ~raced, ~raced', NEW t \in Threads, ResetEnd(t)
  PROVE  Orderly'
<1>1. PICK k \in Keys :
        /\ k = call[t].key /\ <<t, k>> \in MayReset
        /\ present' = present \ {k}
        /\ bytes' = Cleared(bytes, k) /\ packets' = Cleared(packets, k)
        /\ due' = Cleared(due, k) /\ charged' = Cleared(charged, k)
        /\ begun' = Cleared(begun, k) /\ finished' = Cleared(finished, k)
  BY DEF ResetEnd, Survivors, Orderly, Erasures
<1>2. /\ stage[t] = "erasing" /\ stage'[t] = "idle"
      /\ \A u \in Threads : u # t => stage'[u] = stage[u] /\ call'[u] = call[u]
      /\ UNCHANGED <<scope, todo, sum>>
  BY DEF ResetEnd, reads, Orderly, TypeOK
<1>3. ASSUME NEW u \in Threads, Updating(u)
      PROVE  /\ CallOpen(u) /\ call[u].key # k
             /\ Field(u) \in Fields /\ Field(u)[1] = call[u].key
  <2>1. /\ CallOpen(u) /\ <<u, call[u].key>> \in MayUpdate
        /\ Field(u) \in Fields /\ Field(u)[1] = call[u].key
    BY <1>3, OpenField
  <2>2. u # t
    BY <1>2, <1>3 DEF Updating
  <2> QED
    BY <1>1, <1>2, <2>1, <2>2 DEF Divided, ResetByUpdater
<1>4. \A u \in Threads :
        /\ Updating(u)' <=> Updating(u)
        /\ Updating(u) => /\ stage'[u] = stage[u] /\ call'[u] = call[u]
                          /\ Field(u)' = Field(u)
  BY <1>2 DEF Updating, Field
<1>5. ASSUME NEW x \in Fields
      PROVE  /\ bytes'[x] = IF x[1] = k THEN 0 ELSE bytes[x]
             /\ packets'[x] = IF x[1] = k THEN 0 ELSE packets[x]
             /\ due'[x] = IF x[1] = k THEN 0 ELSE due[x]
             /\ charged'[x] = IF x[1] = k THEN 0 ELSE charged[x]
             /\ begun'[x] = IF x[1] = k THEN 0 ELSE begun[x]
             /\ finished'[x] = IF x[1] = k THEN 0 ELSE finished[x]
             /\ x[1] # k => (x[1] \in present' <=> x[1] \in present)
             /\ x[1] = k => x[1] \notin present'
  BY <1>1, <1>5 DEF Cleared
<1>7. Erasures' /\ Exclusive'
  <2>1. stage'[t] \notin Changing \cup {"walk"}
    BY <1>2 DEF Changing
  <2> QED
    BY <1>2, <2>1, StepsAside DEF Orderly
<1>8. ASSUME NEW u \in Threads, Updating(u)'
      PROVE  CallOpen(u)'
  <2>1. Updating(u)
    BY <1>4, <1>8
  <2>2. /\ CallOpen(u) /\ call[u].key # k
        /\ Field(u) \in Fields /\ Field(u)[1] = call[u].key
    BY <1>3, <2>1
  <2>3. PICK f \in Fields : f = Field(u) /\ f[1] = call[u].key
    BY <2>2
  <2>4. /\ Counted(f, bytes)' = Counted(f, bytes)
        /\ Counted(f, packets)' = Counted(f, packets)
        /\ due'[f] = due[f] /\ charged'[f] = charged[f]
        /\ begun'[f] = begun[f] /\ finished'[f] = finished[f]
        /\ f[1] \in present' <=> f[1] \in present
    BY <1>5, <2>2, <2>3 DEF Counted
  <2> QED
    BY <1>4, <2>1, <2>2, <2>3, <2>4 DEF CallOpen, Counted
<1>9. ASSUME NEW x \in Fields, \A u \in Threads : Updating(u)' => Field(u)' # x
      PROVE  Settled(x)'
  <2>1. Settled(x)
    BY <1>4, <1>9 DEF Orderly
  <2>2. CASE x[1] = k
    BY <1>5, <2>2 DEF Settled, Counted
  <2>3. CASE x[1] # k
    BY <1>5, <2>1, <2>3 DEF Settled, Counted
  <2> QED
    BY <2>2, <2>3
<1> QED
  BY <1>7, <1>8, <1>9 DEF Orderly

\* A step of a read, or the beginning of a reset, touches no counter, no bill
\* and no update in progress.
LEMMA ReadStepInv ==
  ASSUME Orderly, NEW t \in Threads, TypeOK', ~Updating(t), ~Updating(t)',
         UNCHANGED <<present, bytes, packets, bill>>, Erasures', Exclusive',
         \A u \in Threads : u # t => stage'[u] = stage[u] /\ call'[u] = call[u]
  PROVE  Orderly'
<1>1. UNCHANGED <<due, charged, begun, finished>>
  BY DEF bill
<1>2. \A u \in Threads :
        /\ Updating(u)' <=> Updating(u)
        /\ Updating(u) => /\ stage'[u] = stage[u] /\ call'[u] = call[u]
                          /\ Field(u)' = Field(u)
  BY DEF Updating, Field
<1>3. ASSUME NEW u \in Threads, Updating(u)'
      PROVE  CallOpen(u)'
  BY <1>1, <1>2, <1>3 DEF Orderly, CallOpen, Counted
<1>4. ASSUME NEW x \in Fields, \A u \in Threads : Updating(u)' => Field(u)' # x
      PROVE  Settled(x)'
  <2>1. Settled(x)
    BY <1>2, <1>4 DEF Orderly
  <2> QED
    BY <1>1, <2>1 DEF Settled, Counted
<1> QED
  BY <1>3, <1>4 DEF Orderly

\* A reset that begins without a race finds nobody in the map.
LEMMA ResetBeginInv ==
  ASSUME Orderly, TypeOK', ~raced', NEW t \in Threads, ResetBegin(t)
  PROVE  Orderly'
<1>1. PICK k \in Keys :
        /\ <<t, k>> \in MayReset
        /\ call' = [call EXCEPT ![t] = [key |-> k, direction |-> "up", amount |-> 0]]
  BY DEF ResetBegin
<1>2. /\ stage[t] = "idle" /\ stage'[t] = "erasing"
      /\ call'[t].key = k
      /\ \A u \in Threads : u # t => stage'[u] = stage[u] /\ call'[u] = call[u]
      /\ UNCHANGED <<present, bytes, packets, bill>>
  BY <1>1 DEF ResetBegin, counters, Orderly, TypeOK
<1>3. \A u \in Threads : u # t => stage[u] \notin Changing \cup {"walk"}
  BY DEF ResetBegin, Change, OthersIn
<1>4. Erasures'
  BY <1>1, <1>2 DEF Orderly, Erasures
<1>5. Exclusive'
  BY <1>2, <1>3 DEF Exclusive
<1>6. ~Updating(t) /\ ~Updating(t)'
  BY <1>2 DEF Updating
<1> QED
  BY <1>2, <1>4, <1>5, <1>6, ReadStepInv

\* A loop that begins without a race finds nobody changing the map.
LEMMA WalkBeginInv ==
  ASSUME Orderly, TypeOK', ~raced', NEW t \in Threads, WalkBegin(t)
  PROVE  Orderly'
<1>1. /\ stage[t] = "idle" /\ stage'[t] = "walk"
      /\ \A u \in Threads : u # t => stage'[u] = stage[u] /\ call'[u] = call[u]
      /\ UNCHANGED <<present, bytes, packets, bill>>
  BY DEF WalkBegin, counters, Orderly, TypeOK
<1>2. \A u \in Threads : u # t => stage[u] \notin Changing
  BY DEF WalkBegin, Lookup, OthersIn
<1>3. Erasures'
  BY <1>1 DEF Orderly, Erasures
<1>4. Exclusive'
  <2>1. stage'[t] \notin Changing
    BY <1>1 DEF Changing
  <2> QED
    BY <1>1, <1>2, <2>1 DEF Orderly, Exclusive
<1>5. ~Updating(t) /\ ~Updating(t)'
  BY <1>1 DEF Updating
<1> QED
  BY <1>1, <1>3, <1>4, <1>5, ReadStepInv

\* The other steps of the reads.
LEMMA ReadsInv ==
  ASSUME Orderly, TypeOK', NEW t \in Threads,
         \/ ReadBegin(t) \/ ThresholdBegin(t) \/ WalkNext(t) \/ ReadLoad(t)
         \/ ThresholdCheck(t) \/ ReadReturn(t)
  PROVE  Orderly'
<1>1. UNCHANGED <<present, bytes, packets, bill>>
  BY DEF ReadBegin, ThresholdBegin, WalkNext, ReadLoad, ThresholdCheck, ReadReturn,
         counters
<1>2. \A u \in Threads : u # t => stage'[u] = stage[u] /\ call'[u] = call[u]
  BY DEF ReadBegin, ThresholdBegin, WalkNext, ReadLoad, ThresholdCheck, ReadReturn,
         calls, Orderly, TypeOK
<1>3. /\ ~Updating(t) /\ ~Updating(t)'
      /\ \/ stage'[t] \notin Changing \cup {"walk"}
         \/ stage'[t] = stage[t] /\ call'[t] = call[t]
  BY DEF ReadBegin, ThresholdBegin, WalkNext, ReadLoad, ThresholdCheck, ReadReturn,
         calls, Orderly, TypeOK, Updating, Changing
<1>4. Erasures' /\ Exclusive'
  BY <1>2, <1>3, StepsAside DEF Orderly
<1> QED
  BY <1>1, <1>2, <1>3, <1>4, ReadStepInv

\* An insertion that begins without a race finds nobody in the map, and the
\* second lookup finds what was inserted.
LEMMA UpdaterMovesInv ==
  ASSUME Orderly, TypeOK', ~raced', NEW t \in Threads, InsertBegin(t) \/ FindAgain(t)
  PROVE  Orderly'
<1>1. /\ UNCHANGED <<present, bytes, packets, call, due, charged, begun, finished>>
      /\ \/ stage[t] = "insert" /\ stage'[t] = "inserting"
         \/ stage[t] = "again" /\ stage'[t] = "bytes"
      /\ \A u \in Threads : u # t => stage'[u] = stage[u] /\ call'[u] = call[u]
  BY DEF InsertBegin, FindAgain, counters, bill, Orderly, TypeOK
<1>2. Erasures'
  BY <1>1 DEF Orderly, Erasures
<1>3. Exclusive'
  <2>1. CASE stage'[t] = "bytes"
    <3>1. stage'[t] \notin Changing \cup {"walk"}
      BY <2>1 DEF Changing
    <3> QED
      BY <1>1, <3>1, StepsAside DEF Orderly
  <2>2. CASE stage'[t] = "inserting"
    <3>1. InsertBegin(t)
      BY <1>1, <2>2 DEF InsertBegin, FindAgain, Orderly, TypeOK
    <3>2. \A u \in Threads : u # t => stage[u] # "walk"
      BY <3>1 DEF InsertBegin, Change, OthersIn
    <3> QED
      BY <1>1, <2>2, <3>2 DEF Exclusive
  <2> QED
    BY <1>1, <2>1, <2>2
<1>4. \A u \in Threads :
        /\ Updating(u)' <=> Updating(u)
        /\ call'[u] = call[u] /\ Field(u)' = Field(u)
        /\ stage'[u] \in {"insert", "inserting"} <=> stage[u] \in {"insert", "inserting"}
        /\ stage'[u] = "packets" <=> stage[u] = "packets"
  BY <1>1 DEF Updating, Field
<1>5. ASSUME NEW u \in Threads, Updating(u)' PROVE CallOpen(u)'
  BY <1>1, <1>4, <1>5 DEF Orderly, CallOpen, Counted
<1>6. ASSUME NEW x \in Fields, \A u \in Threads : Updating(u)' => Field(u)' # x
      PROVE  Settled(x)'
  <2>1. Settled(x)
    BY <1>4, <1>6 DEF Orderly
  <2> QED
    BY <1>1, <2>1 DEF Settled, Counted
<1> QED
  BY <1>2, <1>3, <1>5, <1>6 DEF Orderly

-----------------------------------------------------------------------------
(* The theorems *)

\* A race is not undone.
LEMMA RacedStays == TypeOK /\ raced /\ [Next]_vars => raced'
<1> SUFFICES ASSUME TypeOK, raced, [Next]_vars PROVE raced'
  OBVIOUS
<1>1. ASSUME NEW t \in Threads PROVE Lookup(t) \/ Change(t) \/ FindAgain(t) => raced'
  BY DEF Lookup, Change, FindAgain
<1>2. CASE UNCHANGED vars
  BY <1>2 DEF vars
<1>3. ASSUME NEW t \in Threads,
             \/ UpdateFind(t) \/ InsertBegin(t) \/ InsertEnd(t) \/ FindAgain(t)
             \/ UpdateBytes(t) \/ UpdatePackets(t)
      PROVE  raced'
  BY <1>1, <1>3 DEF UpdateFind, Find, InsertBegin, InsertEnd, UpdateBytes,
                    UpdatePackets
<1>4. ASSUME NEW t \in Threads, ResetBegin(t) \/ ResetEnd(t)
      PROVE  raced'
  BY <1>1, <1>4 DEF ResetBegin, ResetEnd
<1>5. ASSUME NEW t \in Threads,
             \/ ReadBegin(t) \/ ThresholdBegin(t) \/ WalkBegin(t) \/ WalkNext(t)
             \/ ReadLoad(t) \/ ThresholdCheck(t) \/ ReadReturn(t)
      PROVE  raced'
  BY <1>1, <1>5 DEF ReadBegin, ThresholdBegin, FindRead, Find, WalkBegin, WalkNext,
                    ReadLoad, ThresholdCheck, ReadReturn
<1> QED
  BY <1>2, <1>3, <1>4, <1>5 DEF Next

\* Every step without a race keeps the counters orderly.
LEMMA NextOrderly ==
  ASSUME Divided, Orderly, TypeOK', ~raced, ~raced', [Next]_vars
  PROVE  Orderly'
<1>1. CASE UNCHANGED vars
  <2>1. UNCHANGED <<present, bytes, packets, breaches, stage, call, scope, todo,
                    sum, due, charged, begun, finished>>
    BY <1>1 DEF vars, counters, calls, reads, bill
  <2> QED
    BY <2>1 DEF Orderly, Erasures, Exclusive, Updating, CallOpen, Field, Counted, Settled
<1>2. ASSUME NEW t \in Threads,
             \/ UpdateFind(t) \/ InsertBegin(t) \/ InsertEnd(t) \/ FindAgain(t)
             \/ UpdateBytes(t) \/ UpdatePackets(t)
      PROVE  Orderly'
  BY <1>2, UpdateFindInv, UpdaterMovesInv, InsertEndInv, UpdateBytesInv, UpdatePacketsInv
<1>3. ASSUME NEW t \in Threads, ResetBegin(t) \/ ResetEnd(t)
      PROVE  Orderly'
  BY <1>3, ResetBeginInv, ResetEndInv
<1>4. ASSUME NEW t \in Threads,
             \/ ReadBegin(t) \/ ThresholdBegin(t) \/ WalkBegin(t) \/ WalkNext(t)
             \/ ReadLoad(t) \/ ThresholdCheck(t) \/ ReadReturn(t)
      PROVE  Orderly'
  BY <1>4, ReadsInv, WalkBeginInv
<1> QED
  BY <1>1, <1>2, <1>3, <1>4 DEF Next

\* Every step keeps the invariant of the counters.
LEMMA NextInv == Divided /\ Inv /\ [Next]_vars => Inv'
<1> SUFFICES ASSUME Divided, Inv, [Next]_vars
             PROVE  Inv'
  OBVIOUS
<1>1. TypeOK' /\ Known'
  BY NextType, NextKnown DEF Inv
<1>2. ~raced' => ~raced
  BY RacedStays DEF Inv
<1>3. ~raced' => Orderly'
  BY <1>1, <1>2, NextOrderly DEF Inv
<1> QED
  BY <1>1, <1>3 DEF Inv

\* Whatever the keys, threads and amounts, a divided meter keeps its
\* invariant: until two threads are in the map while one of them changes it,
\* every counter agrees with the calls of update_counter so far.
THEOREM Invariance == Divided /\ Spec => []Inv
<1> SUFFICES ASSUME Divided PROVE Spec => []Inv
  OBVIOUS
<1>1. Inv /\ [Next]_vars => Inv'
  BY NextInv
<1> QED
  BY InitInv, <1>1, PTL DEF Spec

\* Until then no byte and no packet is lost or billed twice by update_counter
\* while no two threads update a key and nobody but its updater resets it.
THEOREM BillExact == Divided /\ Spec => []BilledExactly
<1> SUFFICES ASSUME Divided PROVE Spec => []BilledExactly
  OBVIOUS
<1> QED
  BY Invariance, InvBilled, PTL

\* Every key has its counter and nobody is inserting one.
Warm ==
  /\ ~raced
  /\ present = Keys
  /\ \A t \in Threads : stage[t] \notin {"insert", "inserting", "erasing"}

\* Once every key has its counter, nobody is inserting and no key is ever
\* reset, the map stays as it is and no call races in it, however many
\* threads update and read the same keys: with BillExact, what a divided
\* meter bills from its warming up on is exact for good.
THEOREM WarmForGood == MayReset = {} => (Spec => [](Warm => []Warm))
<1> SUFFICES ASSUME MayReset = {} PROVE Spec => [](Warm => []Warm)
  OBVIOUS
<1>1. ASSUME TypeOK, Known, Warm, [Next]_vars PROVE Warm'
  <2>1. \A t \in Threads : ~OthersIn(t, Changing)
    BY <1>1 DEF Warm, OthersIn, Changing
  <2>2. CASE UNCHANGED vars
    BY <1>1, <2>2 DEF Warm, vars, counters, calls
  <2>3. ASSUME NEW t \in Threads, UpdateFind(t) PROVE Warm'
    <3>1. PICK k \in Keys, found \in BOOLEAN :
            /\ Find(t, k, found)
            /\ stage' = [stage EXCEPT ![t] = IF found THEN "bytes" ELSE "insert"]
      BY <2>3 DEF UpdateFind
    <3>2. ~raced' /\ found
      BY <1>1, <2>1, <3>1 DEF Find, Lookup, Warm
    <3>3. UNCHANGED present
      BY <2>3 DEF UpdateFind, counters
    <3> QED
      BY <1>1, <3>1, <3>2, <3>3 DEF Warm, TypeOK
  <2>4. ASSUME NEW t \in Threads, FindAgain(t) PROVE Warm'
    <3>1. call[t].key \in present
      BY <1>1, <2>4 DEF FindAgain, Known, Updating, Warm
    <3> QED
      BY <1>1, <2>1, <2>4, <3>1 DEF FindAgain, Warm, TypeOK, counters
  <2>5. ASSUME NEW t \in Threads,
               InsertBegin(t) \/ InsertEnd(t) \/ ResetBegin(t) \/ ResetEnd(t)
        PROVE  Warm'
    BY <1>1, <2>5 DEF InsertBegin, InsertEnd, ResetBegin, ResetEnd, Warm
  <2>6. ASSUME NEW t \in Threads,
               \/ UpdateBytes(t) \/ UpdatePackets(t) \/ ReadLoad(t)
               \/ ThresholdCheck(t)
        PROVE  Warm'
    BY <1>1, <2>6 DEF UpdateBytes, UpdatePackets, ReadLoad, ThresholdCheck, Warm,
                      TypeOK, counters, calls
  <2>7. ASSUME NEW t \in Threads,
               \/ ReadBegin(t) \/ ThresholdBegin(t) \/ WalkBegin(t) \/ WalkNext(t)
               \/ ReadReturn(t)
        PROVE  Warm'
    <3>1. Lookup(t) \/ UNCHANGED raced
      BY <2>7 DEF ReadBegin, ThresholdBegin, WalkBegin, WalkNext, ReadReturn,
                  FindRead, Find
    <3>2. ~raced'
      BY <1>1, <2>1, <3>1 DEF Lookup, Warm
    <3>3. UNCHANGED present
      BY <2>7 DEF ReadBegin, ThresholdBegin, WalkBegin, WalkNext, ReadReturn, counters
    <3>4. \A u \in Threads : stage'[u] \notin {"insert", "inserting", "erasing"}
      BY <1>1, <2>7 DEF ReadBegin, ThresholdBegin, WalkBegin, WalkNext, ReadReturn,
                        calls, Warm, TypeOK
    <3> QED
      BY <1>1, <3>2, <3>3, <3>4 DEF Warm
  <2> QED
    BY <1>1, <2>2, <2>3, <2>4, <2>5, <2>6, <2>7 DEF Next
<1>2. TypeOK /\ Known /\ [Next]_vars => (TypeOK /\ Known)'
  BY NextType, NextKnown
<1> QED
  BY InitType, <1>1, <1>2, PTL DEF Spec

-----------------------------------------------------------------------------
(* Reads: sums of separate loads *)

Reading(t) == stage[t] \in {"read", "check", "breached", "within", "walk"}

\* The fields a read has yet to load: a loop is going to come by every entry
\* it has not been at.
ToCome(t) ==
  todo[t] \cup (IF stage[t] = "walk" THEN (present \ scope[t]) \X Directions ELSE {})

\* What a read has summed and what the bill says of the fields to come: with
\* what was charged it is no less than the bill when the read began, with
\* what is due no more than the bill now.
Bracketed(t) ==
  /\ todo[t] \subseteq present \X Directions
  /\ floor[t] <= sum[t] + SumFunctionOnSet(charged, ToCome(t))
  /\ sum[t] + SumFunctionOnSet(due, todo[t]) <= BillOf(due, scope[t])

ReadOpen(t) ==
  /\ IsFiniteSet(scope[t])
  /\ todo[t] \subseteq scope[t] \X Directions
  /\ stage[t] = "breached" => sum[t] > call[t].amount
  /\ stage[t] = "within" => todo[t] = {} /\ sum[t] <= call[t].amount
  /\ ReadsItsOwn(t) => Bracketed(t)

Opened == \A t \in Threads : Reading(t) => ReadOpen(t)

ReadInv ==
  /\ Inv
  /\ IsFiniteSet(present)
  /\ floor \in [Threads -> Nat]
  /\ ~raced => Opened

\* The fields of finitely many keys are finitely many.
LEMMA FieldsFinite ==
  ASSUME NEW ks, IsFiniteSet(ks)
  PROVE  IsFiniteSet(ks \X Directions)
<1>1. IsFiniteSet(Directions)
  <2>1. IsFiniteSet({"up"})
    BY FS_Singleton
  <2>2. IsFiniteSet({"up"} \cup {"down"})
    BY <2>1, FS_AddElement
  <2>3. Directions = {"up"} \cup {"down"}
    BY DEF Directions
  <2> QED
    BY <2>2, <2>3
<1> QED
  BY <1>1, FS_Product

\* The bill of finitely many keys is a number.
LEMMA BillNat ==
  ASSUME NEW f \in [Fields -> Nat], NEW ks \in SUBSET Keys, IsFiniteSet(ks)
  PROVE  BillOf(f, ks) \in Nat
<1>1. IsFiniteSet(ks \X Directions)
  BY FieldsFinite
<1>2. \A x \in ks \X Directions : f[x] \in Nat
  BY DEF Fields
<1> QED
  BY <1>1, <1>2, SumRemove DEF BillOf

\* The bill of one key more is the sum of the bills.
LEMMA BillGrows ==
  ASSUME NEW f \in [Fields -> Nat], NEW ks \in SUBSET Keys, IsFiniteSet(ks),
         NEW k \in Keys, k \notin ks
  PROVE  BillOf(f, ks \cup {k}) = BillOf(f, ks) + BillOf(f, {k})
<1> DEFINE a == <<k, "up">>
           b == <<k, "down">>
           S == ks \X Directions
<1>1. /\ S \cup {a} \cup {b} = (ks \cup {k}) \X Directions
      /\ {} \cup {a} \cup {b} = {k} \X Directions
      /\ a \notin S /\ b \notin S \cup {a} /\ b \notin {} \cup {a}
  BY DEF Directions
<1>2. f[a] \in Nat /\ f[b] \in Nat /\ \A x \in S : f[x] \in Nat
  BY DEF Fields, Directions
<1>3. IsFiniteSet(S) /\ IsFiniteSet(S \cup {a}) /\ IsFiniteSet({})
        /\ IsFiniteSet({} \cup {a})
  BY FieldsFinite, FS_AddElement, FS_EmptySet
<1>4. BillOf(f, ks) = SumFunctionOnSet(f, S)
  BY DEF BillOf
<1> HIDE DEF a, b, S
<1>5. \A x \in S \cup {a} : f[x] \in Nat
  BY <1>2
<1>6. /\ SumFunctionOnSet(f, S \cup {a}) = f[a] + SumFunctionOnSet(f, S)
      /\ SumFunctionOnSet(f, S) \in Nat
  BY ONLY <1>1, <1>2, <1>3, SumInsert, SumRemove
<1>7. SumFunctionOnSet(f, S \cup {a} \cup {b}) = f[b] + SumFunctionOnSet(f, S \cup {a})
  BY ONLY <1>1, <1>2, <1>3, <1>5, SumInsert
<1>8. SumFunctionOnSet(f, {} \cup {a}) = f[a] + SumFunctionOnSet(f, {})
  BY ONLY <1>2, <1>3, SumInsert, a \notin {}, \A x \in {} : f[x] \in Nat
<1>9. \A x \in {} \cup {a} : f[x] \in Nat
  BY <1>2
<1>10. SumFunctionOnSet(f, {} \cup {a} \cup {b}) = f[b] + SumFunctionOnSet(f, {} \cup {a})
  BY ONLY <1>1, <1>2, <1>3, <1>9, SumInsert
<1>11. SumFunctionOnSet(f, {}) = 0
  BY SumEmpty
<1>12. SumFunctionOnSet(f, S \cup {a} \cup {b})
         = SumFunctionOnSet(f, S) + SumFunctionOnSet(f, {} \cup {a} \cup {b})
  BY ONLY <1>2, <1>6, <1>7, <1>8, <1>10, <1>11
<1>13. /\ BillOf(f, ks \cup {k}) = SumFunctionOnSet(f, S \cup {a} \cup {b})
       /\ BillOf(f, {k}) = SumFunctionOnSet(f, {} \cup {a} \cup {b})
  BY <1>1 DEF BillOf
<1> QED
  BY <1>4, <1>12, <1>13

\* The map stays finite, and what a call notes of the bill is a number.
LEMMA NextFloor ==
  ASSUME TypeOK, IsFiniteSet(present), floor \in [Threads -> Nat], [Next]_vars
  PROVE  IsFiniteSet(present') /\ floor' \in [Threads -> Nat]
<1>1. IsFiniteSet(present')
  <2>1. CASE UNCHANGED present
    BY <2>1
  <2>2. ASSUME NEW t \in Threads, InsertEnd(t) PROVE IsFiniteSet(present')
    <3>1. present' \subseteq present \cup {call[t].key}
      BY <2>2 DEF InsertEnd, Survivors
    <3> QED
      BY <3>1, FS_AddElement, FS_Subset
  <2>3. ASSUME NEW t \in Threads, ResetEnd(t) PROVE IsFiniteSet(present')
    <3>1. present' \subseteq present
      BY <2>3 DEF ResetEnd, Survivors
    <3> QED
      BY <3>1, FS_Subset
  <2>4. ASSUME NEW t \in Threads,
               \/ UpdateFind(t) \/ InsertBegin(t) \/ FindAgain(t)
               \/ UpdateBytes(t) \/ UpdatePackets(t) \/ ResetBegin(t)
               \/ ReadBegin(t) \/ ThresholdBegin(t) \/ WalkBegin(t) \/ WalkNext(t)
               \/ ReadLoad(t) \/ ThresholdCheck(t) \/ ReadReturn(t)
        PROVE  UNCHANGED present
    BY <2>4 DEF UpdateFind, InsertBegin, FindAgain, UpdateBytes, UpdatePackets,
                ResetBegin, ReadBegin, ThresholdBegin, WalkBegin, WalkNext,
                ReadLoad, ThresholdCheck, ReadReturn, counters
  <2> QED
    BY <2>1, <2>2, <2>3, <2>4 DEF Next, vars, counters
<1>2. floor' \in [Threads -> Nat]
  <2>1. charged \in [Fields -> Nat] /\ BillOf(charged, present) \in Nat
    BY BillNat DEF TypeOK
  <2>2. \A k \in Keys : BillOf(charged, {k}) \in Nat
    BY <2>1, BillNat, FS_Singleton
  <2>3. ASSUME NEW t \in Threads, ReadBegin(t) \/ ThresholdBegin(t)
        PROVE  floor' \in [Threads -> Nat]
    <3>1. PICK k \in Keys : floor' = [floor EXCEPT ![t] = BillOf(charged, {k})]
      BY <2>3 DEF ReadBegin, ThresholdBegin, FindRead
    <3> QED
      BY <2>2, <3>1
  <2>4. ASSUME NEW t \in Threads, WalkBegin(t) \/ ReadReturn(t)
        PROVE  floor' \in [Threads -> Nat]
    BY <2>1, <2>4 DEF WalkBegin, ReadReturn
  <2>5. ASSUME NEW t \in Threads,
               \/ UpdateFind(t) \/ InsertBegin(t) \/ InsertEnd(t) \/ FindAgain(t)
               \/ UpdateBytes(t) \/ UpdatePackets(t) \/ ResetBegin(t) \/ ResetEnd(t)
               \/ WalkNext(t) \/ ReadLoad(t) \/ ThresholdCheck(t)
        PROVE  UNCHANGED floor
    BY <2>5 DEF UpdateFind, InsertBegin, InsertEnd, FindAgain, UpdateBytes,
                UpdatePackets, ResetBegin, ResetEnd, WalkNext, ReadLoad,
                ThresholdCheck, reads
  <2> QED
    BY <2>3, <2>4, <2>5 DEF Next, vars, reads
<1> QED
  BY <1>1, <1>2

\* The terms of the sums of an open read.
LEMMA ReadFacts ==
  ASSUME ReadInv, ~raced, NEW t \in Threads, Reading(t)
  PROVE  /\ ReadOpen(t)
         /\ IsFiniteSet(scope[t] \X Directions) /\ scope[t] \X Directions \subseteq Fields
         /\ IsFiniteSet(todo[t]) /\ todo[t] \in SUBSET (scope[t] \X Directions)
         /\ IsFiniteSet(ToCome(t)) /\ ToCome(t) \subseteq Fields
         /\ sum[t] \in Nat /\ floor[t] \in Nat
         /\ SumFunctionOnSet(due, todo[t]) \in Nat
         /\ SumFunctionOnSet(charged, ToCome(t)) \in Nat
         /\ BillOf(due, scope[t]) \in Nat
<1>1. ReadOpen(t) /\ IsFiniteSet(scope[t]) /\ todo[t] \in SUBSET (scope[t] \X Directions)
  BY DEF ReadInv, Opened, ReadOpen
<1>2. IsFiniteSet(scope[t] \X Directions) /\ IsFiniteSet(todo[t])
  BY <1>1, FieldsFinite, FS_Subset
<1>3. scope[t] \X Directions \subseteq Fields /\ sum[t] \in Nat /\ floor[t] \in Nat
  BY DEF ReadInv, Inv, TypeOK, Fields
<1>4. due \in [Fields -> Nat] /\ charged \in [Fields -> Nat] /\ present \subseteq Keys
  BY DEF ReadInv, Inv, TypeOK
<1>5. IsFiniteSet(ToCome(t)) /\ ToCome(t) \subseteq Fields
  <2>1. IsFiniteSet((present \ scope[t]) \X Directions)
    BY FieldsFinite, FS_Subset DEF ReadInv
  <2>2. (present \ scope[t]) \X Directions \subseteq Fields
    BY <1>4 DEF Fields
  <2> QED
    BY <1>1, <1>2, <1>3, <2>1, <2>2, FS_Union, FS_EmptySet DEF ToCome
<1>6. \A x \in todo[t] : due[x] \in Nat
  BY <1>1, <1>3, <1>4
<1>7. \A x \in ToCome(t) : charged[x] \in Nat
  BY <1>4, <1>5
<1>8. SumFunctionOnSet(due, todo[t]) \in Nat
  BY <1>2, <1>6, SumRemove
<1>9. SumFunctionOnSet(charged, ToCome(t)) \in Nat
  BY <1>5, <1>7, SumRemove
<1>10. BillOf(due, scope[t]) \in Nat
  <2>1. scope[t] \in SUBSET Keys
    BY DEF ReadInv, Inv, TypeOK
  <2> QED
    BY <1>1, <1>4, <2>1, BillNat
<1> QED
  BY <1>1, <1>2, <1>3, <1>5, <1>8, <1>9, <1>10

\* An open read stays bracketed while the bill of what it reads only grows
\* and its counters stay.
LEMMA StaysBracketed ==
  ASSUME ReadInv, ~raced, NEW t \in Threads, Reading(t), Bracketed(t),
         stage'[t] = stage[t], call'[t] = call[t], scope'[t] = scope[t],
         todo'[t] = todo[t], sum'[t] = sum[t], floor'[t] = floor[t],
         todo[t] \subseteq present' \X Directions,
         stage[t] = "walk" => present' = present,
         \A x \in ToCome(t) \cup (scope[t] \X Directions) :
           /\ due'[x] \in Nat /\ charged'[x] \in Nat
           /\ due[x] <= due'[x] /\ charged[x] <= charged'[x]
  PROVE  Bracketed(t)'
<1> DEFINE S == scope[t] \X Directions
           R == ToCome(t)
<1>1. /\ IsFiniteSet(S) /\ IsFiniteSet(todo[t]) /\ todo[t] \in SUBSET S
      /\ IsFiniteSet(R)
      /\ sum[t] \in Nat /\ floor[t] \in Nat
      /\ SumFunctionOnSet(due, todo[t]) \in Nat
      /\ SumFunctionOnSet(charged, R) \in Nat
      /\ BillOf(due, scope[t]) \in Nat
  BY ReadFacts
<1>2. /\ \A x \in S : /\ due[x] \in Nat /\ due'[x] \in Nat /\ due[x] <= due'[x]
      /\ \A x \in R : /\ charged[x] \in Nat /\ charged'[x] \in Nat
                      /\ charged[x] <= charged'[x]
  <2>1. S \subseteq Fields /\ R \subseteq Fields
    BY ReadFacts
  <2> QED
    BY <2>1 DEF ReadInv, Inv, TypeOK
<1>3. ToCome(t)' = R
  BY DEF ToCome
<1>4. /\ floor[t] <= sum[t] + SumFunctionOnSet(charged, R)
      /\ sum[t] + SumFunctionOnSet(due, todo[t]) <= SumFunctionOnSet(due, S)
      /\ SumFunctionOnSet(due, S) \in Nat
  BY <1>1 DEF Bracketed, BillOf
<1> HIDE DEF S, R
<1>5. \A x \in todo[t] : due'[x] \in Nat
  BY <1>1, <1>2
<1>6. SumFunctionOnSet(charged, R) <= SumFunctionOnSet(charged', R)
  BY ONLY <1>1, <1>2, SumMonotone
<1>7. SumFunctionOnSet(due', todo[t]) + SumFunctionOnSet(due, S)
        <= SumFunctionOnSet(due, todo[t]) + SumFunctionOnSet(due', S)
  BY ONLY <1>1, <1>2, SumGrowth
<1>8. /\ SumFunctionOnSet(charged', R) \in Nat
      /\ SumFunctionOnSet(due', todo[t]) \in Nat
      /\ SumFunctionOnSet(due', S) \in Nat
  BY ONLY <1>1, <1>2, <1>5, SumRemove
<1>9. /\ floor[t] <= sum[t] + SumFunctionOnSet(charged', R)
      /\ sum[t] + SumFunctionOnSet(due', todo[t]) <= SumFunctionOnSet(due', S)
  BY ONLY <1>1, <1>4, <1>6, <1>7, <1>8
<1> QED
  BY <1>3, <1>9 DEF Bracketed, BillOf, S

\* A step of t leaves the reads of others open if it takes no counter of
\* theirs away and nothing from their bills, and the map stays as it is if
\* one of them is in a loop over it.
LEMMA OthersStay ==
  ASSUME ReadInv, ~raced, TypeOK', NEW t \in Threads,
         \A u \in Threads : u # t =>
           /\ stage'[u] = stage[u] /\ call'[u] = call[u] /\ scope'[u] = scope[u]
           /\ todo'[u] = todo[u] /\ sum'[u] = sum[u] /\ floor'[u] = floor[u],
         \A u \in Threads : u # t /\ stage[u] = "walk" => present' = present,
         \A u \in Threads, k \in Keys :
           u # t /\ ReadsItsOwn(u) /\ (k \in scope[u] \/ stage[u] = "walk") =>
             /\ k \in present => k \in present'
             /\ \A d \in Directions : /\ due[<<k, d>>] <= due'[<<k, d>>]
                                      /\ charged[<<k, d>>] <= charged'[<<k, d>>],
         Reading(t)' => ReadOpen(t)'
  PROVE  Opened'
<1> SUFFICES ASSUME NEW u \in Threads, u # t, Reading(u)'
             PROVE  ReadOpen(u)'
  BY DEF Opened
<1>1. /\ stage'[u] = stage[u] /\ call'[u] = call[u] /\ scope'[u] = scope[u]
      /\ todo'[u] = todo[u] /\ sum'[u] = sum[u] /\ floor'[u] = floor[u]
  OBVIOUS
<1>2. Reading(u) /\ ReadOpen(u)
  BY <1>1 DEF Reading, ReadInv, Opened
<1>3. ASSUME ReadsItsOwn(u) PROVE Bracketed(u)'
  <2>1. /\ Bracketed(u) /\ todo[u] \subseteq present \X Directions
        /\ todo[u] \subseteq scope[u] \X Directions
        /\ scope[u] \subseteq Keys /\ present \subseteq Keys
    BY <1>2, <1>3 DEF ReadOpen, Bracketed, ReadInv, Inv, TypeOK
  <2>2. ASSUME NEW x \in ToCome(u) \cup (scope[u] \X Directions)
        PROVE  /\ due'[x] \in Nat /\ charged'[x] \in Nat
               /\ due[x] <= due'[x] /\ charged[x] <= charged'[x]
    <3>1. PICK k \in Keys, d \in Directions :
            x = <<k, d>> /\ (k \in scope[u] \/ stage[u] = "walk")
      BY <2>1 DEF ToCome
    <3>2. x \in Fields
      BY <3>1 DEF Fields
    <3>3. due'[x] \in Nat /\ charged'[x] \in Nat
      BY <3>2 DEF TypeOK
    <3> QED
      BY <1>3, <3>1, <3>3
  <2>3. todo[u] \subseteq present' \X Directions
    <3> SUFFICES ASSUME NEW x \in todo[u] PROVE x \in present' \X Directions
      OBVIOUS
    <3>1. PICK k \in scope[u], d \in Directions : x = <<k, d>> /\ k \in present
      BY <2>1
    <3>2. k \in present'
      BY <1>3, <2>1, <3>1
    <3> QED
      BY <3>1, <3>2
  <2> QED
    BY <1>1, <1>2, <2>1, <2>2, <2>3, StaysBracketed
<1>4. ReadsItsOwn(u)' => ReadsItsOwn(u)
  BY <1>1 DEF ReadsItsOwn
<1> QED
  BY <1>1, <1>2, <1>3, <1>4 DEF ReadOpen

\* Nothing is read before there are counters.
LEMMA InitRead == Init => ReadInv
<1> SUFFICES ASSUME Init PROVE ReadInv
  OBVIOUS
<1>1. IsFiniteSet(present)
  BY FS_EmptySet DEF Init
<1>2. floor \in [Threads -> Nat] /\ \A t \in Threads : ~Reading(t)
  BY DEF Init, Reading
<1> QED
  BY <1>1, <1>2, InitInv DEF ReadInv, Opened

\* The bill rises under the reads.
LEMMA UpdateFindRead ==
  ASSUME ReadInv, ~raced, TypeOK', NEW t \in Threads, UpdateFind(t)
  PROVE  Opened'
<1>1. PICK k \in Keys, d \in Directions, n \in Amounts, found \in BOOLEAN :
        /\ call' = [call EXCEPT ![t] = [key |-> k, direction |-> d, amount |-> n]]
        /\ stage' = [stage EXCEPT ![t] = IF found THEN "bytes" ELSE "insert"]
        /\ due' = Add(due, <<k, d>>, n)
  BY DEF UpdateFind
<1>2. /\ UNCHANGED <<present, scope, todo, sum, floor, charged>>
      /\ <<k, d>> \in Fields /\ n \in Nat
  BY AmountAssumption DEF UpdateFind, counters, reads, Fields
<1>3. \A x \in Fields : due[x] <= due'[x] /\ charged[x] <= charged'[x]
  <2>1. due \in [Fields -> Nat] /\ charged \in [Fields -> Nat]
    BY DEF ReadInv, Inv, TypeOK
  <2>2. /\ Add(due, <<k, d>>, n)[<<k, d>>] = due[<<k, d>>] + n
        /\ \A x \in Fields : x # <<k, d>> => Add(due, <<k, d>>, n)[x] = due[x]
    BY <1>2, <2>1, AddFacts
  <2> QED
    BY <1>1, <1>2, <2>1, <2>2
<1>4. /\ ~Reading(t)'
      /\ \A u \in Threads : u # t => stage'[u] = stage[u] /\ call'[u] = call[u]
  BY <1>1 DEF ReadInv, Inv, TypeOK, Reading
<1>5. \A j \in Keys, e \in Directions :
        due[<<j, e>>] <= due'[<<j, e>>] /\ charged[<<j, e>>] <= charged'[<<j, e>>]
  BY <1>3 DEF Fields
<1> QED
  BY <1>2, <1>4, <1>5, OthersStay

\* An insertion or erasure ends while nobody else is in a loop.
LEMMA ChangersAlone ==
  ASSUME ReadInv, ~raced, NEW t \in Threads, stage[t] \in Changing
  PROVE  \A u \in Threads : stage[u] # "walk"
BY DEF ReadInv, Inv, Orderly, Exclusive

\* A counter more is no matter to the reads of single keys.
LEMMA InsertEndRead ==
  ASSUME ReadInv, ~raced, TypeOK', NEW t \in Threads, InsertEnd(t)
  PROVE  Opened'
<1>1. /\ present' = present \cup {call[t].key}
      /\ stage[t] = "inserting" /\ stage' = [stage EXCEPT ![t] = "again"]
      /\ UNCHANGED <<call, scope, todo, sum, floor, due, charged>>
  BY DEF InsertEnd, Survivors, reads, bill
<1>2. \A u \in Threads : stage[u] # "walk"
  BY <1>1, ChangersAlone DEF Changing
<1>3. /\ ~Reading(t)'
      /\ \A u \in Threads : u # t => stage'[u] = stage[u]
  BY <1>1 DEF ReadInv, Inv, TypeOK, Reading
<1>4. \A j \in Keys, e \in Directions : /\ due[<<j, e>>] <= due'[<<j, e>>]
                                        /\ charged[<<j, e>>] <= charged'[<<j, e>>]
  BY <1>1 DEF ReadInv, Inv, TypeOK, Fields
<1> QED
  BY <1>1, <1>2, <1>3, <1>4, OthersStay

\* Neither are the beginning of an insertion, the second lookup, the bytes of
\* a call not yet charged and the beginning of a reset,
LEMMA QuietStepRead ==
  ASSUME ReadInv, ~raced, TypeOK', NEW t \in Threads,
         \/ InsertBegin(t) \/ FindAgain(t) \/ UpdateBytes(t) \/ ResetBegin(t)
  PROVE  Opened'
<1>1. /\ UNCHANGED <<present, scope, todo, sum, floor, due, charged>>
      /\ \A u \in Threads : u # t => stage'[u] = stage[u] /\ call'[u] = call[u]
      /\ ~Reading(t)'
  BY DEF InsertBegin, FindAgain, UpdateBytes, ResetBegin, counters, reads, bill,
         ReadInv, Inv, TypeOK, Reading
<1>2. \A j \in Keys, e \in Directions : /\ due[<<j, e>>] <= due'[<<j, e>>]
                                        /\ charged[<<j, e>>] <= charged'[<<j, e>>]
  BY <1>1 DEF ReadInv, Inv, TypeOK, Fields
<1> QED
  BY <1>1, <1>2, OthersStay

\* and a call that is charged raises what they have yet to load.
LEMMA UpdatePacketsRead ==
  ASSUME ReadInv, ~raced, TypeOK', NEW t \in Threads, UpdatePackets(t)
  PROVE  Opened'
<1>0. PICK f \in Fields, n \in Nat : f = Field(t) /\ n = call[t].amount
  BY OpenField DEF UpdatePackets, Updating, ReadInv, Inv
<1>1. /\ charged' = Add(charged, f, n)
      /\ stage' = [stage EXCEPT ![t] = "idle"]
      /\ call' = [call EXCEPT ![t] = NoCall]
      /\ UNCHANGED <<present, scope, todo, sum, floor, due>>
  BY <1>0 DEF UpdatePackets, reads
<1>2. /\ ~Reading(t)'
      /\ \A u \in Threads : u # t => stage'[u] = stage[u] /\ call'[u] = call[u]
  BY <1>1 DEF ReadInv, Inv, TypeOK, Reading
<1>3. \A x \in Fields : due[x] <= due'[x] /\ charged[x] <= charged'[x]
  <2>1. due \in [Fields -> Nat] /\ charged \in [Fields -> Nat]
    BY DEF ReadInv, Inv, TypeOK
  <2>2. /\ Add(charged, f, n)[f] = charged[f] + n
        /\ \A x \in Fields : x # f => Add(charged, f, n)[x] = charged[x]
    BY <2>1, AddFacts
  <2> QED
    BY <1>1, <2>1, <2>2
<1>4. \A j \in Keys, e \in Directions : /\ due[<<j, e>>] <= due'[<<j, e>>]
                                        /\ charged[<<j, e>>] <= charged'[<<j, e>>]
  BY <1>3 DEF Fields
<1> QED
  BY <1>1, <1>2, <1>4, OthersStay

\* A reset is of a key that no open read counts on, unless it is not its own.
LEMMA ResetEndRead ==
  ASSUME ReadInv, ~raced, TypeOK', NEW t \in Threads, ResetEnd(t)
  PROVE  Opened'
<1>1. PICK k \in Keys :
        /\ <<t, k>> \in MayReset
        /\ present' = present \ {k}
        /\ due' = Cleared(due, k) /\ charged' = Cleared(charged, k)
  BY DEF ResetEnd, Survivors, ReadInv, Inv, Orderly, Erasures
<1>2. /\ stage[t] = "erasing" /\ stage'[t] = "idle"
      /\ \A u \in Threads : u # t => stage'[u] = stage[u] /\ call'[u] = call[u]
      /\ UNCHANGED <<scope, todo, sum, floor>>
  BY DEF ResetEnd, reads, ReadInv, Inv, TypeOK
<1>3. ~Reading(t)'
  BY <1>2 DEF Reading
<1>4. \A u \in Threads : stage[u] # "walk"
  BY <1>2, ChangersAlone DEF Changing
<1>5. ASSUME NEW u \in Threads, NEW j \in Keys, u # t, j \in scope[u], ReadsItsOwn(u)
      PROVE  /\ j \in present => j \in present'
             /\ \A d \in Directions : /\ due[<<j, d>>] <= due'[<<j, d>>]
                                      /\ charged[<<j, d>>] <= charged'[<<j, d>>]
  <2>1. j # k
    BY <1>1, <1>4, <1>5 DEF ReadsItsOwn
  <2>2. \A d \in Directions : <<j, d>> \in Fields /\ due[<<j, d>>] \in Nat
                                /\ charged[<<j, d>>] \in Nat
    BY DEF Fields, ReadInv, Inv, TypeOK
  <2>3. \A d \in Directions : due'[<<j, d>>] = due[<<j, d>>]
                                /\ charged'[<<j, d>>] = charged[<<j, d>>]
    BY <1>1, <2>1, <2>2 DEF Cleared
  <2> QED
    BY <1>1, <2>1, <2>2, <2>3
<1> QED
  BY <1>2, <1>3, <1>4, <1>5, OthersStay

\* A step of a read leaves the other reads alone.
LEMMA ReaderStep ==
  ASSUME ReadInv, ~raced, TypeOK', NEW t \in Threads, UNCHANGED <<present, bill>>,
         \A u \in Threads : u # t =>
           /\ stage'[u] = stage[u] /\ call'[u] = call[u] /\ scope'[u] = scope[u]
           /\ todo'[u] = todo[u] /\ sum'[u] = sum[u] /\ floor'[u] = floor[u],
         Reading(t)' => ReadOpen(t)'
  PROVE  Opened'
<1>1. \A j \in Keys, e \in Directions : /\ due[<<j, e>>] <= due'[<<j, e>>]
                                        /\ charged[<<j, e>>] <= charged'[<<j, e>>]
  BY DEF ReadInv, Inv, TypeOK, Fields, bill
<1> QED
  BY <1>1, OthersStay

\* When a read of a key begins, all of its bill is yet to come, and there is
\* no bill of a key without a counter.
LEMMA FindReadOpen ==
  ASSUME ReadInv, ~raced, ~raced', NEW t \in Threads, NEW k \in Keys,
         NEW found \in BOOLEAN, FindRead(t, k, found),
         UNCHANGED <<present, due, charged>>,
         \/ stage'[t] \in {"read", "check"}
         \/ stage'[t] = "within" /\ ~found /\ call'[t].amount \in Nat
  PROVE  /\ \A u \in Threads : u # t =>
              /\ scope'[u] = scope[u] /\ todo'[u] = todo[u]
              /\ sum'[u] = sum[u] /\ floor'[u] = floor[u]
         /\ ReadOpen(t)'
<1>1. /\ scope' = [scope EXCEPT ![t] = {k}]
      /\ todo' = [todo EXCEPT ![t] = IF found THEN {k} \X Directions ELSE {}]
      /\ sum' = [sum EXCEPT ![t] = 0]
      /\ floor' = [floor EXCEPT ![t] = BillOf(charged, {k})]
  BY DEF FindRead, BeginRead
<1>2. /\ scope'[t] = {k} /\ sum'[t] = 0 /\ floor'[t] = BillOf(charged, {k})
      /\ todo'[t] = IF found THEN {k} \X Directions ELSE {}
      /\ \A u \in Threads : u # t =>
           /\ scope'[u] = scope[u] /\ todo'[u] = todo[u]
           /\ sum'[u] = sum[u] /\ floor'[u] = floor[u]
  BY <1>1 DEF ReadInv, Inv, TypeOK
<1>3. found <=> k \in present
  BY DEF FindRead, Find
<1>4. BillOf(charged, {k}) \in Nat /\ BillOf(due, {k}) \in Nat /\ IsFiniteSet({k})
  BY BillNat, FS_Singleton DEF ReadInv, Inv, TypeOK
<1>5. ToCome(t)' = todo'[t]
  BY DEF ToCome
<1>6. CASE found
  <2>1. /\ SumFunctionOnSet(charged', ToCome(t)') = BillOf(charged, {k})
        /\ SumFunctionOnSet(due', todo'[t]) = BillOf(due, {k})
        /\ BillOf(due', scope'[t]) = BillOf(due, {k})
    BY <1>2, <1>5, <1>6 DEF BillOf
  <2>2. /\ floor'[t] <= sum'[t] + SumFunctionOnSet(charged', ToCome(t)')
        /\ sum'[t] + SumFunctionOnSet(due', todo'[t]) <= BillOf(due', scope'[t])
    BY ONLY <1>2, <1>4, <2>1
  <2>3. Bracketed(t)'
    BY <1>2, <1>3, <1>6, <2>2 DEF Bracketed, BillOf
  <2>4. stage'[t] \in {"read", "check"}
    BY <1>6
  <2> QED
    BY <1>2, <1>4, <1>6, <2>3, <2>4 DEF ReadOpen
<1>7. CASE ~found
  <2>1. \A x \in {k} \X Directions : charged[x] = 0
    <3> SUFFICES ASSUME NEW x \in {k} \X Directions PROVE charged[x] = 0
      OBVIOUS
    <3>1. x \in Fields /\ x[1] = k
      BY DEF Fields
    <3>2. charged[x] <= Counted(x, bytes) /\ Counted(x, bytes) = 0
      BY <1>3, <1>7, <3>1, InvBilled DEF ReadInv, BilledExactly, Counted
    <3>3. charged[x] \in Nat
      BY <3>1 DEF ReadInv, Inv, TypeOK
    <3> QED
      BY <3>2, <3>3
  <2>2. BillOf(charged, {k}) = 0
    <3>1. IsFiniteSet({k} \X Directions)
      BY <1>4, FieldsFinite
    <3> QED
      BY <2>1, <3>1, SumZero DEF BillOf
  <2>3. todo'[t] = {} /\ floor'[t] = 0 /\ sum'[t] = 0
    BY <1>2, <1>7, <2>2
  <2>4. /\ SumFunctionOnSet(charged', ToCome(t)') = 0
        /\ SumFunctionOnSet(due', todo'[t]) = 0
        /\ BillOf(due', scope'[t]) \in Nat
    BY <1>2, <1>4, <1>5, <2>3, SumEmpty DEF BillOf
  <2>5. Bracketed(t)'
    BY <2>3, <2>4 DEF Bracketed, BillOf
  <2> QED
    BY <1>2, <1>4, <2>3, <2>5 DEF ReadOpen
<1> QED
  BY <1>2, <1>6, <1>7

\* At the beginning the bill of now is the bill when the read began.
LEMMA ReadBeginRead ==
  ASSUME ReadInv, ~raced, ~raced', TypeOK', NEW t \in Threads,
         ReadBegin(t) \/ ThresholdBegin(t)
  PROVE  Opened'
<1>1. /\ UNCHANGED <<present, bill, due, charged>>
      /\ \A u \in Threads : u # t => stage'[u] = stage[u] /\ call'[u] = call[u]
  BY DEF ReadBegin, ThresholdBegin, counters, bill, ReadInv, Inv, TypeOK
<1>2. PICK k \in Keys, found \in BOOLEAN :
        /\ FindRead(t, k, found)
        /\ \/ stage'[t] \in {"read", "check"}
           \/ stage'[t] = "within" /\ ~found
  <2>1. CASE ReadBegin(t)
    BY <2>1 DEF ReadBegin, ReadInv, Inv, TypeOK
  <2>2. CASE ThresholdBegin(t)
    <3>1. PICK k \in Keys, l \in Limits, found \in BOOLEAN :
            /\ FindRead(t, k, found)
            /\ stage' = [stage EXCEPT ![t] = IF found THEN "check" ELSE "within"]
      BY <2>2 DEF ThresholdBegin
    <3> QED
      BY <3>1 DEF ReadInv, Inv, TypeOK
  <2> QED
    BY <2>1, <2>2
<1>3. call'[t].amount \in Nat
  BY DEF TypeOK, Calls
<1>4. /\ \A u \in Threads : u # t =>
           /\ scope'[u] = scope[u] /\ todo'[u] = todo[u]
           /\ sum'[u] = sum[u] /\ floor'[u] = floor[u]
      /\ ReadOpen(t)'
  BY <1>1, <1>2, <1>3, FindReadOpen
<1> QED
  BY <1>1, <1>4, ReaderStep

\* A loop has every entry there is before it.
LEMMA WalkBeginRead ==
  ASSUME ReadInv, ~raced, TypeOK', NEW t \in Threads, WalkBegin(t)
  PROVE  Opened'
<1>1. /\ scope'[t] = {} /\ todo'[t] = {} /\ sum'[t] = 0 /\ stage'[t] = "walk"
      /\ floor'[t] = BillOf(charged, present)
      /\ UNCHANGED <<present, bill, due, charged>>
      /\ \A u \in Threads : u # t =>
           /\ stage'[u] = stage[u] /\ call'[u] = call[u] /\ scope'[u] = scope[u]
           /\ todo'[u] = todo[u] /\ sum'[u] = sum[u] /\ floor'[u] = floor[u]
  BY DEF WalkBegin, BeginRead, counters, bill, ReadInv, Inv, TypeOK
<1>2. ToCome(t)' = present \X Directions
  BY <1>1 DEF ToCome
<1>3. BillOf(charged, present) \in Nat
  BY BillNat DEF ReadInv, Inv, TypeOK
<1>4. {} \X Directions = {} /\ SumFunctionOnSet(due, {}) = 0
  BY SumEmpty
<1>5. /\ SumFunctionOnSet(charged', ToCome(t)') = BillOf(charged, present)
      /\ SumFunctionOnSet(due', todo'[t]) = 0 /\ BillOf(due', scope'[t]) = 0
  BY <1>1, <1>2, <1>4 DEF BillOf
<1>6. Bracketed(t)'
  BY <1>1, <1>3, <1>5 DEF Bracketed, BillOf
<1>7. ReadOpen(t)'
  BY <1>1, <1>6, FS_EmptySet DEF ReadOpen
<1> QED
  BY <1>1, <1>7, ReaderStep

\* The next entry of a loop is one of those to come.
LEMMA WalkNextRead ==
  ASSUME ReadInv, ~raced, TypeOK', NEW t \in Threads, WalkNext(t)
  PROVE  Opened'
<1>1. PICK k \in present \ scope[t] :
        /\ scope' = [scope EXCEPT ![t] = scope[t] \cup {k}]
        /\ todo' = [todo EXCEPT ![t] = {k} \X Directions]
  BY DEF WalkNext
<1>2. /\ stage[t] = "walk" /\ todo[t] = {} /\ Reading(t) /\ ReadsItsOwn(t)
      /\ UNCHANGED <<present, stage, call, sum, floor, bill, due, charged>>
  BY DEF WalkNext, counters, calls, bill, Reading, ReadsItsOwn
<1>3. /\ scope'[t] = scope[t] \cup {k} /\ todo'[t] = {k} \X Directions
      /\ \A u \in Threads : u # t => scope'[u] = scope[u] /\ todo'[u] = todo[u]
  BY <1>1 DEF ReadInv, Inv, TypeOK
<1>4. ReadOpen(t) /\ Bracketed(t) /\ sum[t] \in Nat /\ floor[t] \in Nat
  BY <1>2, ReadFacts DEF ReadOpen
<1>5. ToCome(t)' = ToCome(t)
  <2>1. ToCome(t)' = ({k} \X Directions) \cup ((present \ (scope[t] \cup {k})) \X Directions)
    BY <1>2, <1>3 DEF ToCome
  <2>2. ToCome(t) = (present \ scope[t]) \X Directions
    BY <1>2 DEF ToCome
  <2> QED
    BY <1>1, <2>1, <2>2
<1>6. BillOf(due, scope[t] \cup {k}) = BillOf(due, scope[t]) + BillOf(due, {k})
  <2>1. scope[t] \in SUBSET Keys /\ IsFiniteSet(scope[t]) /\ k \in Keys
    BY <1>1, <1>4 DEF ReadInv, Inv, TypeOK, ReadOpen
  <2> QED
    BY <1>1, <2>1, BillGrows DEF ReadInv, Inv, TypeOK
<1>7. /\ sum[t] + SumFunctionOnSet(due, {}) <= BillOf(due, scope[t])
      /\ SumFunctionOnSet(due, {}) = 0
      /\ BillOf(due, scope[t]) \in Nat /\ BillOf(due, {k}) \in Nat
  <2>1. {k} \in SUBSET Keys /\ due \in [Fields -> Nat]
    BY <1>1 DEF ReadInv, Inv, TypeOK
  <2>2. IsFiniteSet({k})
    BY FS_Singleton
  <2>3. BillOf(due, {k}) \in Nat
    BY ONLY <2>1, <2>2, BillNat
  <2> QED
    BY <1>2, <1>4, <2>3, ReadFacts, SumEmpty DEF Bracketed
<1>8. sum[t] + BillOf(due, {k}) <= BillOf(due, scope[t] \cup {k})
  BY ONLY <1>4, <1>6, <1>7
<1>9. Bracketed(t)'
  <2>1. todo'[t] \subseteq present' \X Directions
    BY <1>1, <1>2, <1>3
  <2>2. floor'[t] <= sum'[t] + SumFunctionOnSet(charged', ToCome(t)')
    BY <1>2, <1>4, <1>5 DEF Bracketed
  <2>3. sum'[t] + SumFunctionOnSet(due', todo'[t]) <= BillOf(due', scope'[t])
    BY <1>2, <1>3, <1>8 DEF BillOf
  <2> QED
    BY <2>1, <2>2, <2>3 DEF Bracketed, BillOf
<1>10. ReadOpen(t)'
  <2>1. IsFiniteSet(scope'[t])
    BY <1>3, <1>4, FS_AddElement DEF ReadOpen
  <2> QED
    BY <1>2, <1>3, <1>9, <2>1 DEF ReadOpen
<1> QED
  BY <1>2, <1>3, <1>10, ReaderStep

\* A load moves one field from what is to come into the sum; the counter
\* holds at least what was charged to it and at most what is due.
LEMMA ReadLoadRead ==
  ASSUME ReadInv, ~raced, TypeOK', NEW t \in Threads, ReadLoad(t)
  PROVE  Opened'
<1>0. PICK f \in NextLoads(t) : \E value \in Loaded(f) :
        /\ sum' = [sum EXCEPT ![t] = sum[t] + value]
        /\ todo' = [todo EXCEPT ![t] = todo[t] \ {f}]
  BY DEF ReadLoad
<1>1. PICK value \in Loaded(f) :
        /\ sum' = [sum EXCEPT ![t] = sum[t] + value]
        /\ todo' = [todo EXCEPT ![t] = todo[t] \ {f}]
  BY <1>0
<1>2. /\ stage[t] \in {"read", "check", "walk"} /\ Reading(t)
      /\ UNCHANGED <<present, bytes, stage, call, scope, floor, bill, due, charged>>
  BY DEF ReadLoad, counters, calls, bill, Reading
<1>3. /\ sum'[t] = sum[t] + value /\ todo'[t] = todo[t] \ {f}
      /\ \A u \in Threads : u # t => sum'[u] = sum[u] /\ todo'[u] = todo[u]
  BY <1>1 DEF ReadInv, Inv, TypeOK
<1>4. f \in todo[t] /\ f \in Fields /\ f[1] \in scope[t]
  BY <1>2, ReadFacts DEF NextLoads
<1>5. ASSUME ReadsItsOwn(t) PROVE Bracketed(t)'
  <2>1. Bracketed(t)
    BY <1>2, <1>5, ReadFacts DEF ReadOpen
  <2>2. value = bytes[f] /\ f[1] \in present
    BY <1>4, <2>1 DEF Bracketed, Loaded
  <2>3. charged[f] <= value /\ value <= due[f]
    BY <1>4, <2>2, InvBilled DEF ReadInv, BilledExactly, Counted
  <2>4. /\ charged[f] \in Nat /\ due[f] \in Nat /\ value \in Nat
    BY <1>4, <2>2 DEF ReadInv, Inv, TypeOK
  <2>5. f \in ToCome(t) /\ ToCome(t)' = ToCome(t) \ {f}
    BY <1>2, <1>3, <1>4 DEF ToCome
  <2>6. /\ SumFunctionOnSet(charged, ToCome(t))
             = charged[f] + SumFunctionOnSet(charged, ToCome(t) \ {f})
        /\ SumFunctionOnSet(charged, ToCome(t) \ {f}) \in Nat
    <3>1. IsFiniteSet(ToCome(t)) /\ IsFiniteSet(ToCome(t) \ {f})
      BY <1>2, ReadFacts, FS_RemoveElement
    <3>2. \A x \in ToCome(t) : charged[x] \in Nat
      BY <1>2, ReadFacts DEF ReadInv, Inv, TypeOK
    <3> QED
      BY <2>5, <3>1, <3>2, SumRemove
  <2>7. /\ SumFunctionOnSet(due, todo[t])
             = due[f] + SumFunctionOnSet(due, todo[t] \ {f})
        /\ SumFunctionOnSet(due, todo[t] \ {f}) \in Nat
    <3>1. IsFiniteSet(todo[t]) /\ IsFiniteSet(todo[t] \ {f})
      BY <1>2, ReadFacts, FS_RemoveElement
    <3>2. \A x \in todo[t] : due[x] \in Nat
      BY DEF ReadInv, Inv, TypeOK
    <3> QED
      BY <1>4, <3>1, <3>2, SumRemove
  <2>8. /\ sum[t] \in Nat /\ floor[t] \in Nat /\ BillOf(due, scope[t]) \in Nat
        /\ floor[t] <= sum[t] + SumFunctionOnSet(charged, ToCome(t))
        /\ sum[t] + SumFunctionOnSet(due, todo[t]) <= BillOf(due, scope[t])
    BY <1>2, <2>1, ReadFacts DEF Bracketed
  <2>9. /\ floor[t] <= sum'[t] + SumFunctionOnSet(charged, ToCome(t) \ {f})
        /\ sum'[t] + SumFunctionOnSet(due, todo[t] \ {f}) <= BillOf(due, scope[t])
    BY ONLY <1>3, <2>3, <2>4, <2>6, <2>7, <2>8
  <2>10. todo'[t] \subseteq present' \X Directions
    BY <1>2, <1>3, <2>1 DEF Bracketed
  <2> QED
    BY <1>2, <1>3, <2>5, <2>9, <2>10 DEF Bracketed, BillOf
<1>6. ReadOpen(t)'
  <2>1. ReadOpen(t)
    BY <1>2, ReadFacts
  <2>2. ReadsItsOwn(t)' => ReadsItsOwn(t)
    BY <1>2 DEF ReadsItsOwn
  <2> QED
    BY <1>2, <1>3, <1>5, <2>1, <2>2 DEF ReadOpen
<1> QED
  BY <1>2, <1>3, <1>6, ReaderStep

\* The comparison is with the complete sum.
LEMMA ThresholdCheckRead ==
  ASSUME ReadInv, ~raced, TypeOK', NEW t \in Threads, ThresholdCheck(t)
  PROVE  Opened'
<1>1. /\ stage[t] = "check" /\ todo[t] = {} /\ Reading(t)
      /\ UNCHANGED <<present, call, scope, todo, sum, floor, bill, due, charged>>
      /\ \/ sum[t] > call[t].amount /\ stage' = [stage EXCEPT ![t] = "breached"]
         \/ ~(sum[t] > call[t].amount) /\ stage' = [stage EXCEPT ![t] = "within"]
  BY DEF ThresholdCheck, reads, bill, Reading
<1>2. /\ \/ sum[t] > call[t].amount /\ stage'[t] = "breached"
         \/ ~(sum[t] > call[t].amount) /\ stage'[t] = "within"
      /\ \A u \in Threads : u # t => stage'[u] = stage[u]
  BY <1>1 DEF ReadInv, Inv, TypeOK
<1>3. sum[t] \in Nat /\ call[t].amount \in Nat
  BY DEF ReadInv, Inv, TypeOK, Calls
<1>4. ReadOpen(t)'
  <2>1. ReadOpen(t)
    BY <1>1, ReadFacts
  <2>2. ToCome(t)' = ToCome(t)
    BY <1>1, <1>2 DEF ToCome
  <2>3. Bracketed(t) => Bracketed(t)'
    BY <1>1, <2>2 DEF Bracketed, BillOf
  <2>4. ReadsItsOwn(t)' => ReadsItsOwn(t)
    BY <1>1, <1>2 DEF ReadsItsOwn
  <2> QED
    BY <1>1, <1>2, <1>3, <2>1, <2>3, <2>4 DEF ReadOpen
<1> QED
  BY <1>1, <1>2, <1>4, ReaderStep

\* A read that is over constrains nothing.
LEMMA ReadReturnRead ==
  ASSUME ReadInv, ~raced, TypeOK', NEW t \in Threads, ReadReturn(t)
  PROVE  Opened'
<1>1. /\ UNCHANGED <<present, bill>> /\ ~Reading(t)'
      /\ \A u \in Threads : u # t =>
           /\ stage'[u] = stage[u] /\ call'[u] = call[u] /\ scope'[u] = scope[u]
           /\ todo'[u] = todo[u] /\ sum'[u] = sum[u] /\ floor'[u] = floor[u]
  BY DEF ReadReturn, BeginRead, counters, ReadInv, Inv, TypeOK, Reading
<1> QED
  BY <1>1, ReaderStep

\* Every step without a race leaves the reads open.
LEMMA NextOpened ==
  ASSUME ReadInv, ~raced, ~raced', TypeOK', [Next]_vars
  PROVE  Opened'
<1>1. CASE UNCHANGED vars
  <2>1. UNCHANGED <<present, stage, call, scope, todo, sum, floor, due, charged>>
    BY <1>1 DEF vars, counters, calls, reads, bill
  <2> QED
    BY <2>1 DEF ReadInv, Opened, Reading, ReadOpen, ReadsItsOwn, Bracketed, ToCome, BillOf
<1>2. ASSUME NEW t \in Threads,
             \/ UpdateFind(t) \/ InsertBegin(t) \/ InsertEnd(t) \/ FindAgain(t)
             \/ UpdateBytes(t) \/ UpdatePackets(t) \/ ResetBegin(t) \/ ResetEnd(t)
      PROVE  Opened'
  BY <1>2, UpdateFindRead, QuietStepRead, InsertEndRead, UpdatePacketsRead, ResetEndRead
<1>3. ASSUME NEW t \in Threads,
             \/ ReadBegin(t) \/ ThresholdBegin(t) \/ WalkBegin(t) \/ WalkNext(t)
             \/ ReadLoad(t) \/ ThresholdCheck(t) \/ ReadReturn(t)
      PROVE  Opened'
  BY <1>3, ReadBeginRead, WalkBeginRead, WalkNextRead, ReadLoadRead,
     ThresholdCheckRead, ReadReturnRead
<1> QED
  BY <1>1, <1>2, <1>3 DEF Next

\* Every step keeps the invariant of the reads.
LEMMA NextRead == Divided /\ ReadInv /\ [Next]_vars => ReadInv'
<1> SUFFICES ASSUME Divided, ReadInv, [Next]_vars
             PROVE  ReadInv'
  OBVIOUS
<1>1. Inv' /\ TypeOK'
  BY NextInv DEF ReadInv, Inv
<1>2. IsFiniteSet(present') /\ floor' \in [Threads -> Nat]
  BY NextFloor DEF ReadInv, Inv
<1>3. ~raced' => ~raced
  BY RacedStays DEF ReadInv, Inv
<1>4. ~raced' => Opened'
  BY <1>1, <1>3, NextOpened
<1> QED
  BY <1>1, <1>2, <1>4 DEF ReadInv

\* The invariant of the reads, in a divided meter.
THEOREM ReadInvariance == Divided /\ Spec => []ReadInv
<1> SUFFICES ASSUME Divided PROVE Spec => []ReadInv
  OBVIOUS
<1>1. ReadInv /\ [Next]_vars => ReadInv'
  BY NextRead
<1> QED
  BY InitRead, <1>1, PTL DEF Spec

\* A sum of separate loads lies between the bill when the call began and the
\* bill when it ends, however many counters the map holds and whatever the
\* other threads update meanwhile, if no call raced in the map and nobody else
\* may free the counter it holds.
THEOREM ReadsBracketed == Divided /\ Spec => []ReadsWithinInterval
<1> SUFFICES ASSUME Divided PROVE Spec => []ReadsWithinInterval
  OBVIOUS
<1>1. ASSUME ReadInv PROVE ReadsWithinInterval
  <2> SUFFICES ASSUME ~raced, NEW t \in Threads, ReadAll(t), ReadsItsOwn(t)
               PROVE  floor[t] <= sum[t] /\ sum[t] <= BillOf(due, scope[t])
    BY DEF ReadsWithinInterval
  <2>1. Reading(t) /\ todo[t] = {}
    BY DEF ReadAll, Reading
  <2>2. Bracketed(t) /\ sum[t] \in Nat
    BY <1>1, <2>1, ReadFacts DEF ReadOpen
  <2>3. ToCome(t) = {}
    <3>1. CASE stage[t] = "walk"
      <4>1. present \ scope[t] = {}
        BY <3>1 DEF ReadAll
      <4> QED
        BY <2>1, <4>1 DEF ToCome
    <3>2. CASE stage[t] # "walk"
      BY <2>1, <3>2 DEF ToCome
    <3> QED
      BY <3>1, <3>2
  <2>4. SumFunctionOnSet(charged, {}) = 0 /\ SumFunctionOnSet(due, {}) = 0
    BY SumEmpty
  <2> QED
    BY <2>1, <2>2, <2>3, <2>4 DEF Bracketed
<1> QED
  BY ReadInvariance, <1>1, PTL

\* Until a call races in the map, check_threshold raises no alert before the
\* usage exceeds the threshold and misses none for usage that exceeded it
\* before the call.
THEOREM AlertsJustifiedAlways == Divided /\ Spec => []AlertsJustified
<1> SUFFICES ASSUME Divided PROVE Spec => []AlertsJustified
  OBVIOUS
<1>1. ASSUME ReadInv PROVE AlertsJustified
  <2> SUFFICES ASSUME ~raced, NEW t \in Threads, ReadsItsOwn(t)
               PROVE  /\ stage[t] = "breached" => BillOf(due, scope[t]) > call[t].amount
                      /\ stage[t] = "within" => floor[t] <= call[t].amount
    BY DEF AlertsJustified
  <2>1. CASE stage[t] \notin {"breached", "within"}
    BY <2>1
  <2>2. CASE stage[t] \in {"breached", "within"}
    <3>1. Reading(t)
      BY <2>2 DEF Reading
    <3>2. ReadOpen(t) /\ Bracketed(t)
      BY <1>1, <3>1, ReadFacts DEF ReadOpen
    <3>3. /\ sum[t] \in Nat /\ floor[t] \in Nat /\ BillOf(due, scope[t]) \in Nat
          /\ SumFunctionOnSet(due, todo[t]) \in Nat
      BY <1>1, <3>1, ReadFacts
    <3>4. ToCome(t) = todo[t]
      BY <2>2 DEF ToCome
    <3>5. SumFunctionOnSet(charged, {}) = 0
      BY SumEmpty
    <3>6. call[t].amount \in Nat
      BY <1>1 DEF ReadInv, Inv, TypeOK, Calls
    <3>7. /\ floor[t] <= sum[t] + SumFunctionOnSet(charged, todo[t])
          /\ sum[t] <= BillOf(due, scope[t])
      BY <3>2, <3>3, <3>4 DEF Bracketed
    <3>8. CASE stage[t] = "breached"
      <4>1. sum[t] > call[t].amount
        BY <3>2, <3>8 DEF ReadOpen
      <4> QED
        BY <3>3, <3>6, <3>7, <3>8, <4>1
    <3>9. CASE stage[t] = "within"
      <4>1. todo[t] = {} /\ sum[t] <= call[t].amount
        BY <3>2, <3>9 DEF ReadOpen
      <4> QED
        BY <3>3, <3>5, <3>6, <3>7, <3>9, <4>1
    <3> QED
      BY <2>2, <3>8, <3>9
  <2> QED
    BY <2>1, <2>2
<1> QED
  BY ReadInvariance, <1>1, PTL
=============================================================================
