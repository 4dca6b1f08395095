------------------------------ MODULE UBBMeter ------------------------------
(***************************************************************************)
(* vsg::metering::UBBMeter, the per-subscriber and per-service byte        *)
(* counters billing relies on.  The fields of a counter are atomics; the   *)
(* map of counters is a plain unordered_map that nothing guards.  So an    *)
(* insertion and an erasure take time, from their Begin to their End, and  *)
(* a call of another thread that looks into the map in between, or changes *)
(* it, races: raced is set, and from then on the map may lose entries, a   *)
(* lookup may miss the one it is after and a loop over the map may end     *)
(* early.  (It may also crash, which is to take no step any more.)  A loop *)
(* stands in the map from its beginning to its end, and an insertion or    *)
(* erasure by another thread meanwhile races with it: it may move the      *)
(* buckets or free the entry the loop stands at.  An access that overlaps  *)
(* such a change in the code is placed inside it here.                     *)
(*                                                                         *)
(* An updater works on the counter through the map's entry: after an       *)
(* insertion of the same key by another thread its additions reach the new *)
(* counter, and after an erasure they reach freed memory, which the model  *)
(* takes to be nobody's counter.                                           *)
(*                                                                         *)
(* due and charged are the bill: the bytes of the calls begun, and of the  *)
(* calls returned, since the counter was last reset; begun and finished    *)
(* count those calls.                                                      *)
(***************************************************************************)
EXTENDS Integers, FiniteSets, Functions

CONSTANTS
  Threads,
  Subscribers, Services,   \* ids
  ServiceSpace,            \* 2^16, the service ids there are
  Amounts,                 \* packet lengths
  Limits,                  \* thresholds asked about
  MayUpdate,               \* which threads update which keys, as pairs
  MayReset,                \* and which reset them
  MaxUpdates,              \* bound on the updates since the resets
  MaxBreaches              \* bound on threshold_breaches

ASSUME IdAssumption ==
  /\ Subscribers \subseteq Nat
  /\ ServiceSpace \in Nat \ {0}
  /\ Services \subseteq 0..(ServiceSpace - 1)
ASSUME AmountAssumption == Amounts \subseteq Nat /\ Limits \subseteq Nat
ASSUME BoundAssumption == {MaxUpdates, MaxBreaches} \subseteq Nat

\* (subscriber_id << 16) | service_id, the service being 16 bits wide.
CounterKey(subscriber, service) == subscriber * ServiceSpace + service

Keys == {CounterKey(s, v) : s \in Subscribers, v \in Services}

ASSUME ThreadAssumption ==
  MayUpdate \subseteq Threads \X Keys /\ MayReset \subseteq Threads \X Keys

Directions == {"up", "down"}
Fields == Keys \X Directions

VARIABLES
  present,              \* keys in counters_
  bytes, packets,       \* <<key, direction>> -> uplink_ or downlink_ value
  breaches,             \* key -> threshold_breaches
  raced,                \* two threads were in the map and one changed it
  stage,                \* thread -> where it stands
  call,                 \* thread -> the arguments it works on
  scope,                \* thread -> keys its read is about
  todo,                 \* thread -> fields it has yet to load
  sum,                  \* thread -> what it has read so far
  floor,                \* thread -> what had been charged to them then
  due, charged, begun, finished

calls == <<stage, call>>
reads == <<scope, todo, sum, floor>>
counters == <<present, bytes, packets, breaches>>
bill == <<due, charged, begun, finished>>
vars == <<counters, raced, calls, reads, bill>>

Zero == [f \in Fields |-> 0]

NoCall == [key |-> 0, direction |-> "up", amount |-> 0]

Init ==
  /\ present = {}
  /\ bytes = Zero /\ packets = Zero
  /\ breaches = [k \in Keys |-> 0]
  /\ raced = FALSE
  /\ stage = [t \in Threads |-> "idle"]
  /\ call = [t \in Threads |-> NoCall]
  /\ scope = [t \in Threads |-> {}] /\ todo = [t \in Threads |-> {}]
  /\ sum = [t \in Threads |-> 0]
  /\ floor = [t \in Threads |-> 0]
  /\ due = Zero /\ charged = Zero /\ begun = Zero /\ finished = Zero

Field(t) == <<call[t].key, call[t].direction>>

Add(f, at, n) == [f EXCEPT ![at] = f[at] + n]

\* Nothing is left of the key's fields.
Cleared(f, k) == [x \in Fields |-> IF x[1] = k THEN 0 ELSE f[x]]

-----------------------------------------------------------------------------
(* The map *)

Changing == {"inserting", "erasing"}

OthersIn(t, stages) == \E u \in Threads \ {t} : stage[u] \in stages

\* t looks into the map,
Lookup(t) == raced' = (raced \/ OthersIn(t, Changing))

\* and t begins to change it.
Change(t) == raced' = (raced \/ OthersIn(t, Changing \cup {"walk"}))

\* counters_.find(key), which may miss an entry only after a race.
Find(t, k, found) ==
  /\ Lookup(t)
  /\ found => k \in present
  /\ ~found => k \notin present \/ raced'

\* What a change leaves in the map: after a race, entries may be lost.
Survivors(ks) == IF raced THEN SUBSET ks ELSE {ks}

-----------------------------------------------------------------------------
(* update_counter *)

\* The first lookup.
UpdateFind(t) ==
  /\ stage[t] = "idle"
  /\ SumFunction(begun) < MaxUpdates
  /\ \E k \in Keys, d \in Directions, n \in Amounts, found \in BOOLEAN :
       /\ <<t, k>> \in MayUpdate
       /\ Find(t, k, found)
       /\ call' = [call EXCEPT ![t] = [key |-> k, direction |-> d, amount |-> n]]
       /\ stage' = [stage EXCEPT ![t] = IF found THEN "bytes" ELSE "insert"]
       /\ due' = Add(due, <<k, d>>, n)
       /\ begun' = Add(begun, <<k, d>>, 1)
  /\ UNCHANGED <<counters, reads, charged, finished>>

\* counters_[key] = counter begins,
InsertBegin(t) ==
  /\ stage[t] = "insert"
  /\ Change(t)
  /\ stage' = [stage EXCEPT ![t] = "inserting"]
  /\ UNCHANGED <<counters, call, reads, bill>>

\* Mutant of InsertEnd: the entry is made under the service id alone.
InsertEndService(t) ==
  /\ stage[t] = "inserting"
  /\ present' = present \cup {call[t].key % ServiceSpace}
  /\ stage' = [stage EXCEPT ![t] = "again"]
  /\ UNCHANGED <<bytes, packets, breaches, raced, call, reads, bill>>

\* and ends: the key has a counter whose fields are all zero.
InsertEnd(t) ==
  LET k == call[t].key
  IN  /\ stage[t] = "inserting"
      /\ present' \in Survivors(present \cup {k})
      /\ bytes' = Cleared(bytes, k) /\ packets' = Cleared(packets, k)
      /\ breaches' = [breaches EXCEPT ![k] = 0]
      /\ stage' = [stage EXCEPT ![t] = "again"]
      /\ UNCHANGED <<raced, call, reads, bill>>

\* The second lookup, whose result is used without a look at it.
FindAgain(t) ==
  /\ stage[t] = "again"
  /\ raced' = (raced \/ OthersIn(t, Changing) \/ call[t].key \notin present)
  /\ stage' = [stage EXCEPT ![t] = "bytes"]
  /\ UNCHANGED <<counters, call, reads, bill>>

\* The atomic addition to the byte counter of the direction,
UpdateBytes(t) ==
  /\ stage[t] = "bytes"
  /\ bytes' = IF call[t].key \in present
              THEN Add(bytes, Field(t), call[t].amount) ELSE bytes
  /\ stage' = [stage EXCEPT ![t] = "packets"]
  /\ UNCHANGED <<present, packets, breaches, raced, call, reads, bill>>

\* and to its packet counter; the call returns.
UpdatePackets(t) ==
  /\ stage[t] = "packets"
  /\ packets' = IF call[t].key \in present
                THEN Add(packets, Field(t), 1) ELSE packets
  /\ charged' = Add(charged, Field(t), call[t].amount)
  /\ finished' = Add(finished, Field(t), 1)
  /\ stage' = [stage EXCEPT ![t] = "idle"]
  /\ call' = [call EXCEPT ![t] = NoCall]
  /\ UNCHANGED <<present, bytes, breaches, raced, reads, due, begun>>

-----------------------------------------------------------------------------
(* reset_counter: the entry is erased, and a new bill begins *)

ResetBegin(t) ==
  /\ stage[t] = "idle"
  /\ \E k \in Keys :
       /\ <<t, k>> \in MayReset
       /\ call' = [call EXCEPT ![t] = [key |-> k, direction |-> "up", amount |-> 0]]
  /\ Change(t)
  /\ stage' = [stage EXCEPT ![t] = "erasing"]
  /\ UNCHANGED <<counters, reads, bill>>

\* Mutant of ResetEnd: the entry stays, and so do its packet counters.
ResetEndBytes(t) ==
  LET k == call[t].key
  IN  /\ stage[t] = "erasing"
      /\ bytes' = Cleared(bytes, k)
      /\ due' = Cleared(due, k) /\ charged' = Cleared(charged, k)
      /\ begun' = Cleared(begun, k) /\ finished' = Cleared(finished, k)
      /\ stage' = [stage EXCEPT ![t] = "idle"]
      /\ call' = [call EXCEPT ![t] = NoCall]
      /\ UNCHANGED <<present, packets, breaches, raced, reads>>

ResetEnd(t) ==
  LET k == call[t].key
  IN  /\ stage[t] = "erasing"
      /\ present' \in Survivors(present \ {k})
      /\ bytes' = Cleared(bytes, k) /\ packets' = Cleared(packets, k)
      /\ breaches' = [breaches EXCEPT ![k] = 0]
      /\ due' = Cleared(due, k) /\ charged' = Cleared(charged, k)
      /\ begun' = Cleared(begun, k) /\ finished' = Cleared(finished, k)
      /\ stage' = [stage EXCEPT ![t] = "idle"]
      /\ call' = [call EXCEPT ![t] = NoCall]
      /\ UNCHANGED <<raced, reads>>

-----------------------------------------------------------------------------
(* Reads *)

BillOf(f, ks) == SumFunctionOnSet(f, ks \X Directions)

\* A read of the keys ks begins, with the given fields to load.
BeginRead(t, ks, fields) ==
  /\ scope' = [scope EXCEPT ![t] = ks]
  /\ todo' = [todo EXCEPT ![t] = fields]
  /\ sum' = [sum EXCEPT ![t] = 0]

\* A read of one key: if it finds no counter it loads nothing.
FindRead(t, k, found) ==
  /\ Find(t, k, found)
  /\ BeginRead(t, {k}, IF found THEN {k} \X Directions ELSE {})
  /\ floor' = [floor EXCEPT ![t] = BillOf(charged, {k})]

\* get_counter and rollup.
ReadBegin(t) ==
  /\ stage[t] = "idle"
  /\ \E k \in Keys, found \in BOOLEAN : FindRead(t, k, found)
  /\ stage' = [stage EXCEPT ![t] = "read"]
  /\ UNCHANGED <<counters, call, bill>>

\* check_threshold, which returns false if there is no counter.
ThresholdBegin(t) ==
  /\ stage[t] = "idle"
  /\ \E k \in Keys, l \in Limits, found \in BOOLEAN :
       /\ breaches[k] < MaxBreaches
       /\ FindRead(t, k, found)
       /\ stage' = [stage EXCEPT ![t] = IF found THEN "check" ELSE "within"]
       /\ call' = [call EXCEPT ![t] = [key |-> k, direction |-> "up", amount |-> l]]
  /\ UNCHANGED <<counters, bill>>

\* get_total_usage and batch_rollup loop over the map as it is.
WalkBegin(t) ==
  /\ stage[t] = "idle"
  /\ Lookup(t)
  /\ BeginRead(t, {}, {})
  /\ floor' = [floor EXCEPT ![t] = BillOf(charged, present)]
  /\ stage' = [stage EXCEPT ![t] = "walk"]
  /\ UNCHANGED <<counters, call, bill>>

\* The loop goes on to another entry.
WalkNext(t) ==
  /\ stage[t] = "walk" /\ todo[t] = {}
  /\ Lookup(t)
  /\ \E k \in present \ scope[t] :
       /\ scope' = [scope EXCEPT ![t] = scope[t] \cup {k}]
       /\ todo' = [todo EXCEPT ![t] = {k} \X Directions]
  /\ UNCHANGED <<counters, calls, sum, floor, bill>>

\* Uplink is loaded before downlink.
NextLoads(t) ==
  {f \in todo[t] : f[2] = "down" => <<f[1], "up">> \notin todo[t]}

\* What a load may return: anything, once the counter is freed.
Loaded(f) == IF f[1] \in present THEN {bytes[f]} ELSE {0} \cup Amounts

\* Mutant of ReadLoad: every load is of the uplink counter.
ReadLoadUplink(t) ==
  /\ stage[t] \in {"read", "check", "walk"}
  /\ \E f \in NextLoads(t) :
       /\ sum' = [sum EXCEPT ![t] = sum[t] + bytes[<<f[1], "up">>]]
       /\ todo' = [todo EXCEPT ![t] = todo[t] \ {f}]
  /\ UNCHANGED <<counters, raced, calls, scope, floor, bill>>

\* One atomic load.
ReadLoad(t) ==
  /\ stage[t] \in {"read", "check", "walk"}
  /\ \E f \in NextLoads(t) : \E value \in Loaded(f) :
       /\ sum' = [sum EXCEPT ![t] = sum[t] + value]
       /\ todo' = [todo EXCEPT ![t] = todo[t] \ {f}]
  /\ UNCHANGED <<counters, raced, calls, scope, floor, bill>>

\* Mutant of ThresholdCheck: reaching the threshold is a breach.
ThresholdCheckReached(t) ==
  /\ stage[t] = "check" /\ todo[t] = {}
  /\ IF sum[t] >= call[t].amount
     THEN /\ breaches' = IF call[t].key \in present
                         THEN Add(breaches, call[t].key, 1) ELSE breaches
          /\ stage' = [stage EXCEPT ![t] = "breached"]
     ELSE /\ stage' = [stage EXCEPT ![t] = "within"]
          /\ UNCHANGED breaches
  /\ UNCHANGED <<present, bytes, packets, raced, call, reads, bill>>

ThresholdCheck(t) ==
  /\ stage[t] = "check" /\ todo[t] = {}
  /\ IF sum[t] > call[t].amount
     THEN /\ breaches' = IF call[t].key \in present
                         THEN Add(breaches, call[t].key, 1) ELSE breaches
          /\ stage' = [stage EXCEPT ![t] = "breached"]
     ELSE /\ stage' = [stage EXCEPT ![t] = "within"]
          /\ UNCHANGED breaches
  /\ UNCHANGED <<present, bytes, packets, raced, call, reads, bill>>

\* The call returns; a loop does when no entry is left.
ReadReturn(t) ==
  /\ \/ stage[t] = "read" /\ todo[t] = {} /\ UNCHANGED raced
     \/ stage[t] \in {"breached", "within"} /\ UNCHANGED raced
     \/ /\ stage[t] = "walk" /\ todo[t] = {}
        /\ Lookup(t)
        /\ present \subseteq scope[t] \/ raced'
  /\ stage' = [stage EXCEPT ![t] = "idle"]
  /\ call' = [call EXCEPT ![t] = NoCall]
  /\ BeginRead(t, {}, {})
  /\ floor' = [floor EXCEPT ![t] = 0]
  /\ UNCHANGED <<counters, bill>>

Next ==
  \E t \in Threads :
    \/ UpdateFind(t) \/ InsertBegin(t) \/ InsertEnd(t) \/ FindAgain(t)
    \/ UpdateBytes(t) \/ UpdatePackets(t)
    \/ ResetBegin(t) \/ ResetEnd(t)
    \/ ReadBegin(t) \/ ThresholdBegin(t) \/ WalkBegin(t) \/ WalkNext(t)
    \/ ReadLoad(t) \/ ThresholdCheck(t) \/ ReadReturn(t)

Spec == Init /\ [][Next]_vars

-----------------------------------------------------------------------------
(* Properties *)

\* How a deployment may divide the keys so that the plain map is enough for
\* the bill: no two threads update a key, and nobody else resets it.
OneUpdaterPerKey ==
  \A t, u \in Threads, k \in Keys :
    <<t, k>> \in MayUpdate /\ <<u, k>> \in MayUpdate => t = u

ResetByUpdater ==
  \A t, u \in Threads, k \in Keys :
    <<t, k>> \in MayReset /\ <<u, k>> \in MayUpdate => t = u

Stages == {"idle", "insert", "inserting", "again", "bytes", "packets",
           "erasing", "read", "check", "breached", "within", "walk"}

Calls == [key : Keys \cup {0}, direction : Directions, amount : Nat]

TypeOK ==
  /\ present \in SUBSET Keys
  /\ bytes \in [Fields -> Nat] /\ packets \in [Fields -> Nat]
  /\ breaches \in [Keys -> Nat]
  /\ raced \in BOOLEAN
  /\ stage \in [Threads -> Stages]
  /\ call \in [Threads -> Calls]
  /\ scope \in [Threads -> SUBSET Keys]
  /\ todo \in [Threads -> SUBSET Fields]
  /\ sum \in [Threads -> Nat]
  /\ due \in [Fields -> Nat] /\ charged \in [Fields -> Nat]
  /\ begun \in [Fields -> Nat] /\ finished \in [Fields -> Nat]

Counted(f, value) == IF f[1] \in present THEN value[f] ELSE 0

\* As long as no two threads were in the map while one of them changed it, a
\* counter holds the bytes and packets of every call of update_counter that
\* returned and of no call that has not begun: nothing is billed twice and
\* nothing is lost, per direction, and exactly so when no call is open.
BilledExactly ==
  ~raced =>
    \A f \in Fields :
      /\ charged[f] <= Counted(f, bytes) /\ Counted(f, bytes) <= due[f]
      /\ finished[f] <= Counted(f, packets) /\ Counted(f, packets) <= begun[f]

\* What t reads, no other thread may reset meanwhile: a loop stands in the
\* map, where a reset would race with it, a read of one key holds its counter.
ReadsItsOwn(t) ==
  \/ stage[t] = "walk"
  \/ \A u \in Threads, k \in scope[t] : <<u, k>> \in MayReset => u = t

\* t has read all it is going to read.
ReadAll(t) ==
  /\ todo[t] = {}
  /\ stage[t] \in {"read", "check"} \/ (stage[t] = "walk" /\ present \subseteq scope[t])

\* Without a race in the map, what a read sums up with separate loads
\* (get_total_usage over all the entries it comes by, rollup over one, if
\* there is one) lies between the bill when the call began and the bill when
\* it ends, unless another thread may free the counter under it.
ReadsWithinInterval ==
  ~raced =>
    \A t \in Threads :
      ReadAll(t) /\ ReadsItsOwn(t)
        => floor[t] <= sum[t] /\ sum[t] <= BillOf(due, scope[t])

\* Without a race in the map, check_threshold raises no alert before the
\* usage exceeds the threshold and misses none for usage that exceeded it
\* before the call.
AlertsJustified ==
  ~raced =>
    \A t \in {u \in Threads : ReadsItsOwn(u)} :
      /\ stage[t] = "breached" => BillOf(due, scope[t]) > call[t].amount
      /\ stage[t] = "within" => floor[t] <= call[t].amount
=============================================================================
