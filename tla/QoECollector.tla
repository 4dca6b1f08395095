---------------------------- MODULE QoECollector ----------------------------
(***************************************************************************)
(* vsg::analytics::QoECollector: one block of atomic counters per flow,    *)
(* which record_sample updates field by field and the reports load field   *)
(* by field, all without a lock.  A thread's call keeps its locals in its  *)
(* frame.  subscriber_id, service_id and the KPI fields no code assigns    *)
(* are left out, and so are the totals of get_service_kpi, which are added *)
(* to uninitialised memory.                                                *)
(*                                                                         *)
(* overlapped is what a caller cannot see: whether another call that       *)
(* writes was in progress at any moment of this one.                       *)
(***************************************************************************)
EXTENDS Integers, FiniteSets, Functions

CONSTANTS
  Recorders, Reporters,   \* threads that record, and that report and flush
  MaxFlows,               \* max_flows_, the length of flow_metrics_
  LastBucket,             \* 9
  WordSpace, ClockSpace,  \* 2^32 and 2^64, where the arithmetic wraps
  IdleTimes, Windows,     \* arguments of the reports
  SampleLimits,
  MaxSamples, MaxClock    \* bounds on the calls of record_sample and the time

ASSUME SizeAssumption ==
  /\ {MaxFlows, WordSpace, ClockSpace} \subseteq Nat \ {0}
  /\ {LastBucket, MaxSamples, MaxClock} \subseteq Nat
ASSUME ArgumentAssumption ==
  IdleTimes \cup Windows \cup SampleLimits \subseteq Nat

Threads == Recorders \cup Reporters
Flows == 0..(MaxFlows - 1)
Buckets == 0..LastBucket

VARIABLES
  now,                          \* the clock
  packet_count, loss_count,     \* flow -> count
  latency_buckets,              \* flow -> bucket -> count
  last_update_ns,               \* flow -> time, zero until the first sample
  active,                       \* flow -> BOOLEAN
  stage, frame,                 \* thread -> where its call stands, its locals
  overlapped                    \* thread -> BOOLEAN

metrics == <<packet_count, loss_count, latency_buckets, last_update_ns, active>>
vars == <<now, metrics, stage, frame, overlapped>>

\* flow: the flow, or the loop's index; at: the time read; limit: the
\* argument; packets, losses, samples: what has been loaded; result: what is
\* returned, a percentage or a set of flows.
NoFrame == [flow |-> 0, bucket |-> 0, lost |-> FALSE, at |-> 0, limit |-> 0,
            packets |-> 0, losses |-> 0, samples |-> 0, all |-> FALSE,
            percent |-> -1, flows |-> {}]

Init ==
  /\ now \in 1..MaxClock
  /\ packet_count = [f \in Flows |-> 0] /\ loss_count = [f \in Flows |-> 0]
  /\ latency_buckets = [f \in Flows |-> [b \in Buckets |-> 0]]
  /\ last_update_ns = [f \in Flows |-> 0]
  /\ active = [f \in Flows |-> TRUE]
  /\ stage = [t \in Threads |-> "idle"]
  /\ frame = [t \in Threads |-> NoFrame]
  /\ overlapped = [t \in Threads |-> FALSE]

\* A division by zero ends the process, with all its threads.
Trapped == \E t \in Threads : stage[t] = "trapped"

Writes == {"bytes", "stamp", "loss", "bucket", "age", "drop"}

\* A call begins: it overlaps with the writers that are under way.
Enter(t, s, locals) ==
  /\ ~Trapped
  /\ stage[t] = "idle"
  /\ stage' = [stage EXCEPT ![t] = s]
  /\ frame' = [frame EXCEPT ![t] = locals]
  /\ overlapped' =
       [u \in Threads |-> IF u = t THEN \E w \in Threads : stage[w] \in Writes
                          ELSE overlapped[u] \/ (s \in Writes /\ stage[u] # "idle")]

Goto(t, s, locals) ==
  /\ ~Trapped
  /\ stage' = [stage EXCEPT ![t] = s]
  /\ frame' = [frame EXCEPT ![t] = locals]
  /\ UNCHANGED overlapped

Leave(t) ==
  /\ ~Trapped
  /\ stage' = [stage EXCEPT ![t] = "idle"]
  /\ frame' = [frame EXCEPT ![t] = NoFrame]
  /\ overlapped' = [overlapped EXCEPT ![t] = FALSE]

Return(t) ==
  /\ stage[t] \in {"rated", "listed", "sampled", "flushed"}
  /\ Leave(t)
  /\ UNCHANGED <<now, metrics>>

\* The loop over flow_metrics_ moves on.
Advance(t, s) == Goto(t, s, [frame[t] EXCEPT !.flow = @ + 1])

Plus(count, f) == [count EXCEPT ![f] = @ + 1]

-----------------------------------------------------------------------------
(* record_sample; of a flow_id out of range it does nothing *)

\* packet_count and byte_count; the bytes are the payload of the former.
RecordPacket(t) ==
  /\ SumFunction(packet_count) < MaxSamples
  /\ \E f \in Flows, b \in Buckets, lost \in BOOLEAN :
       /\ Enter(t, "bytes", [NoFrame EXCEPT !.flow = f, !.bucket = b,
                                            !.lost = lost])
       /\ packet_count' = Plus(packet_count, f)
  /\ UNCHANGED <<now, loss_count, latency_buckets, last_update_ns, active>>

\* The clock is read here,
RecordClock(t) ==
  /\ stage[t] = "bytes"
  /\ Goto(t, "stamp", [frame[t] EXCEPT !.at = now])
  /\ UNCHANGED <<now, metrics>>

\* and stored here.
RecordStamp(t) ==
  /\ stage[t] = "stamp"
  /\ last_update_ns' = [last_update_ns EXCEPT ![frame[t].flow] = frame[t].at]
  /\ Goto(t, IF frame[t].lost THEN "loss" ELSE "bucket", frame[t])
  /\ UNCHANGED <<now, packet_count, loss_count, latency_buckets, active>>

RecordLoss(t) ==
  /\ stage[t] = "loss"
  /\ loss_count' = Plus(loss_count, frame[t].flow)
  /\ Goto(t, "bucket", frame[t])
  /\ UNCHANGED <<now, packet_count, latency_buckets, last_update_ns, active>>

\* Mutant of RecordBucket: the bound check leaves out the last bucket.
RecordBucketShort(t) ==
  /\ stage[t] = "bucket"
  /\ latency_buckets' =
       IF frame[t].bucket < LastBucket
       THEN [latency_buckets EXCEPT ![frame[t].flow][frame[t].bucket] = @ + 1]
       ELSE latency_buckets
  /\ Leave(t)
  /\ UNCHANGED <<now, packet_count, loss_count, last_update_ns, active>>

RecordBucket(t) ==
  /\ stage[t] = "bucket"
  /\ latency_buckets' =
       [latency_buckets EXCEPT ![frame[t].flow][frame[t].bucket] = @ + 1]
  /\ Leave(t)
  /\ UNCHANGED <<now, packet_count, loss_count, last_update_ns, active>>

-----------------------------------------------------------------------------
(* get_flow_kpi, and get_all_flow_kpis, which calls it for active flows *)

FlowKpi(t) ==
  /\ \E f \in Flows :
       Enter(t, "buckets", [NoFrame EXCEPT !.flow = f, !.packets = packet_count[f]])
  /\ UNCHANGED <<now, metrics>>

AllKpis(t) ==
  /\ Enter(t, "list", [NoFrame EXCEPT !.all = TRUE])
  /\ UNCHANGED <<now, metrics>>

\* Mutant of ListFlow: the last flow is never looked at.
ListFlowShort(t) ==
  LET f == frame[t].flow
  IN  /\ stage[t] = "list"
      /\ \/ f >= MaxFlows - 1 /\ Goto(t, "listed", frame[t])
         \/ f < MaxFlows - 1 /\ ~active[f] /\ Advance(t, "list")
         \/ /\ f < MaxFlows - 1 /\ active[f]
            /\ Goto(t, "buckets", [frame[t] EXCEPT !.packets = packet_count[f]])
      /\ UNCHANGED <<now, metrics>>

ListFlow(t) ==
  LET f == frame[t].flow
  IN  /\ stage[t] = "list"
      /\ \/ f = MaxFlows /\ Goto(t, "listed", frame[t])
         \/ f < MaxFlows /\ ~active[f] /\ Advance(t, "list")
         \/ /\ f < MaxFlows /\ active[f]
            /\ Goto(t, "buckets", [frame[t] EXCEPT !.packets = packet_count[f]])
      /\ UNCHANGED <<now, metrics>>

\* The buckets are loaded and added up one after another.
KpiBucket(t) ==
  LET fr == frame[t]
  IN  /\ stage[t] = "buckets"
      /\ Goto(t, IF fr.bucket = LastBucket THEN "rate" ELSE "buckets",
              [fr EXCEPT !.bucket = (fr.bucket + 1) % (LastBucket + 1),
                         !.samples = @ + latency_buckets[fr.flow][fr.bucket]])
      /\ UNCHANGED <<now, metrics>>

\* loss_count * 100 is a 32-bit product.
Percentage(losses, packets) == ((losses * 100) % WordSpace) \div packets

\* Where a flow's KPI is complete.
Rated(t, p) ==
  IF frame[t].all
  THEN Goto(t, "list", [frame[t] EXCEPT !.flow = @ + 1, !.samples = 0,
                                        !.flows = @ \cup {frame[t].flow}])
  ELSE Goto(t, "rated", [frame[t] EXCEPT !.percent = p])

\* Mutant of KpiRate: the division comes first.
KpiRateTruncated(t) ==
  /\ stage[t] = "rate"
  /\ IF frame[t].samples = 0 THEN Rated(t, -1)
     ELSE IF frame[t].packets = 0 THEN Goto(t, "trapped", frame[t])
     ELSE Rated(t, (loss_count[frame[t].flow] \div frame[t].packets) * 100)
  /\ UNCHANGED <<now, metrics>>

\* Without a sample loss_percent stays uninitialised (-1 here); the division
\* is by the packet count loaded before the buckets.
KpiRate(t) ==
  /\ stage[t] = "rate"
  /\ IF frame[t].samples = 0 THEN Rated(t, -1)
     ELSE IF frame[t].packets = 0 THEN Goto(t, "trapped", frame[t])
     ELSE Rated(t, Percentage(loss_count[frame[t].flow], frame[t].packets))
  /\ UNCHANGED <<now, metrics>>

-----------------------------------------------------------------------------
(* get_service_kpi: all flows updated in the window, whatever the service *)

\* Mutant of Minus: signed.
MinusSigned(a, b) == a - b

\* Unsigned subtraction.
Minus(a, b) == (a - b) % ClockSpace

ServiceKpi(t) ==
  /\ \E window \in Windows :
       Enter(t, "window", [NoFrame EXCEPT !.at = now, !.limit = Minus(now, window)])
  /\ UNCHANGED <<now, metrics>>

ServiceWindow(t) ==
  LET f == frame[t].flow
  IN  /\ stage[t] = "window" /\ f < MaxFlows
      /\ IF last_update_ns[f] < frame[t].limit THEN Advance(t, "window")
         ELSE Goto(t, "losses", [frame[t] EXCEPT !.packets = @ + packet_count[f]])
      /\ UNCHANGED <<now, metrics>>

ServiceLosses(t) ==
  LET f == frame[t].flow
  IN  /\ stage[t] = "losses"
      /\ Goto(t, "window", [frame[t] EXCEPT !.flow = @ + 1,
                                            !.losses = @ + loss_count[f],
                                            !.flows = @ \cup {f}])
      /\ UNCHANGED <<now, metrics>>

\* A 64-bit product, and no division when there is nothing to divide.
ServiceRate(t) ==
  LET fr == frame[t]
  IN  /\ stage[t] = "window" /\ fr.flow = MaxFlows
      /\ Goto(t, "rated",
              [fr EXCEPT !.percent = IF fr.packets = 0 THEN -1
                                     ELSE (fr.losses * 100) \div fr.packets])
      /\ UNCHANGED <<now, metrics>>

-----------------------------------------------------------------------------
(* get_aggregated_telemetry: every interval-th flow, up to max_samples *)

AtLeastOne(n) == IF n > 1 THEN n ELSE 1

\* Mutant of Interval: rounded up.
IntervalRoundedUp(limit) == AtLeastOne((MaxFlows \div limit) + 1)

Interval(limit) == AtLeastOne(MaxFlows \div limit)

Telemetry(t) ==
  /\ \E limit \in SampleLimits :
       Enter(t, IF limit = 0 THEN "trapped" ELSE "sample",
             [NoFrame EXCEPT !.limit = limit])
  /\ UNCHANGED <<now, metrics>>

TelemetryFlow(t) ==
  LET fr == frame[t]
      done == fr.flow >= MaxFlows \/ Cardinality(fr.flows) >= fr.limit
  IN  /\ stage[t] = "sample"
      /\ IF done THEN Goto(t, "sampled", fr)
         ELSE Goto(t, "sample",
                   [fr EXCEPT !.flow = @ + Interval(fr.limit),
                              !.flows = IF active[fr.flow] THEN @ \cup {fr.flow} ELSE @])
      /\ UNCHANGED <<now, metrics>>

-----------------------------------------------------------------------------
(* flush_expired_flows *)

Flush(t) ==
  /\ \E idle \in IdleTimes :
       Enter(t, "age", [NoFrame EXCEPT !.at = now, !.limit = idle])
  /\ UNCHANGED <<now, metrics>>

\* Mutant of FlushLoad: a flow that reached the limit has exceeded it.
FlushLoadReached(t) ==
  LET f == frame[t].flow
      expired == Minus(frame[t].at, last_update_ns[f]) >= frame[t].limit
  IN  /\ stage[t] = "age" /\ f < MaxFlows
      /\ IF expired THEN Goto(t, "drop", frame[t]) ELSE Advance(t, "age")
      /\ UNCHANGED <<now, metrics>>

FlushLoad(t) ==
  LET f == frame[t].flow
      expired == Minus(frame[t].at, last_update_ns[f]) > frame[t].limit
  IN  /\ stage[t] = "age" /\ f < MaxFlows
      /\ IF expired THEN Goto(t, "drop", frame[t]) ELSE Advance(t, "age")
      /\ UNCHANGED <<now, metrics>>

FlushDrop(t) ==
  LET f == frame[t].flow
  IN  /\ stage[t] = "drop"
      /\ active' = [active EXCEPT ![f] = FALSE]
      /\ Goto(t, "age", [frame[t] EXCEPT !.flow = f + 1, !.flows = @ \cup {f}])
      /\ UNCHANGED <<now, packet_count, loss_count, latency_buckets, last_update_ns>>

FlushEnd(t) ==
  /\ stage[t] = "age" /\ frame[t].flow = MaxFlows
  /\ Goto(t, "flushed", frame[t])
  /\ UNCHANGED <<now, metrics>>

-----------------------------------------------------------------------------

Tick ==
  /\ ~Trapped
  /\ now < MaxClock
  /\ now' = now + 1
  /\ UNCHANGED <<metrics, stage, frame, overlapped>>

Record(t) ==
  RecordPacket(t) \/ RecordClock(t) \/ RecordStamp(t) \/ RecordLoss(t)
    \/ RecordBucket(t)

Report(t) ==
  \/ FlowKpi(t) \/ AllKpis(t) \/ ListFlow(t) \/ KpiBucket(t) \/ KpiRate(t)
  \/ ServiceKpi(t) \/ ServiceWindow(t) \/ ServiceLosses(t) \/ ServiceRate(t)
  \/ Telemetry(t) \/ TelemetryFlow(t)
  \/ Flush(t) \/ FlushLoad(t) \/ FlushDrop(t) \/ FlushEnd(t)
  \/ Return(t)

Next ==
  \/ Tick
  \/ \E t \in Recorders : Record(t)
  \/ \E t \in Reporters : Report(t)

Spec == Init /\ [][Next]_vars

-----------------------------------------------------------------------------
(* Properties *)

Stages == Writes \cup
  {"idle", "list", "buckets", "rate", "window", "losses", "sample", "rated",
   "listed", "sampled", "flushed", "trapped"}

Frames ==
  [flow : Nat, bucket : Buckets, lost : BOOLEAN, at : Nat, limit : Nat,
   packets : Nat, losses : Nat, samples : Nat, all : BOOLEAN,
   percent : Nat \cup {-1}, flows : SUBSET Flows]

TypeOK ==
  /\ now \in Nat
  /\ packet_count \in [Flows -> Nat] /\ loss_count \in [Flows -> Nat]
  /\ latency_buckets \in [Flows -> [Buckets -> Nat]]
  /\ last_update_ns \in [Flows -> Nat]
  /\ active \in [Flows -> BOOLEAN]
  /\ stage \in [Threads -> Stages]
  /\ frame \in [Threads -> Frames]
  /\ overlapped \in [Threads -> BOOLEAN]

Recording(t, f) ==
  stage[t] \in {"bytes", "stamp", "loss", "bucket"} /\ frame[t].flow = f

\* At every moment, also in the middle of concurrent calls of record_sample,
\* a flow has lost no more packets than it has counted, and its histogram
\* lacks exactly the packets whose calls are still open.
CountersAgree ==
  \A f \in Flows :
    /\ loss_count[f] <= packet_count[f]
    /\ packet_count[f] = SumFunction(latency_buckets[f])
                           + Cardinality({t \in Threads : Recording(t, f)})

\* The flows a rate is about.
Scope(t) == IF frame[t].flows = {} THEN {frame[t].flow} ELSE frame[t].flows

\* get_flow_kpi multiplies the losses of its one flow in 32 bits.
Wraps(t) == frame[t].flows = {} /\ 100 * loss_count[frame[t].flow] >= WordSpace

\* A rate get_flow_kpi or get_service_kpi computes while nobody writes is the
\* loss rate of the flows it is about, rounded down; for get_flow_kpi as long
\* as 100 times the losses fits in 32 bits, for get_service_kpi always.
QuietRatesExact ==
  \A t \in Threads :
    LET losses == SumFunctionOnSet(loss_count, Scope(t))
        packets == SumFunctionOnSet(packet_count, Scope(t))
        p == frame[t].percent
    IN  stage[t] = "rated" /\ ~overlapped[t] /\ p # -1 /\ ~Wraps(t)
          => p * packets <= 100 * losses /\ 100 * losses < (p + 1) * packets

\* flush_expired_flows, when nobody else writes, drops the flows that have
\* been idle for longer than the limit and those only.
QuietFlushExact ==
  \A t \in Threads :
    stage[t] = "flushed" /\ ~overlapped[t]
      => frame[t].flows =
           {f \in Flows : frame[t].at - last_update_ns[f] > frame[t].limit}

\* get_all_flow_kpis, when nobody writes, reports every active flow.
QuietListComplete ==
  \A t \in Threads :
    stage[t] = "listed" /\ ~overlapped[t]
      => frame[t].flows = {f \in Flows : active[f]}

\* get_aggregated_telemetry returns no more samples than it was asked for,
\* and, when nobody writes, leaves no active flow out if there is room for
\* all of them.
SamplesBounded ==
  \A t \in Threads :
    stage[t] = "sampled"
      => /\ Cardinality(frame[t].flows) <= frame[t].limit
         /\ ~overlapped[t] /\ frame[t].limit >= MaxFlows
              => frame[t].flows = {f \in Flows : active[f]}

\* "Loss metrics (0-100%)"
LossIsPercentage ==
  \A t \in Threads : stage[t] = "rated" => frame[t].percent <= 100
=============================================================================
