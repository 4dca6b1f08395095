-------------------------- MODULE QoECollectorProofs --------------------------
(***************************************************************************)
(* Proofs about QoECollector, for every set of recording and reporting     *)
(* threads and every number of flows and buckets: what the counters of a   *)
(* flow have in common at every moment, and what the reports return when   *)
(* no writer was under way.                                                *)
(***************************************************************************)
EXTENDS QoECollector, SumLemmas, TLAPS

-----------------------------------------------------------------------------
(* Types, and where the index of a loop stands *)

AtFlow == {"bytes", "stamp", "loss", "bucket", "buckets", "rate", "losses", "drop"}

\* An open call is about a flow, or its loop is within the flows or at their
\* end.
Shaped(t) ==
  /\ stage[t] \in AtFlow => frame[t].flow \in Flows
  /\ stage[t] \in {"list", "window", "age"} => frame[t].flow \in 0..MaxFlows
  /\ stage[t] = "loss" => frame[t].lost
  /\ stage[t] = "list" => frame[t].all
  /\ stage[t] = "sample" => frame[t].limit >= 1
  /\ stage[t] \in {"sample", "sampled"} =>
       Cardinality(frame[t].flows) <= frame[t].limit
  /\ stage[t] \in {"buckets", "rate"} /\ ~frame[t].all => frame[t].flows = {}

Typed == TypeOK /\ \A t \in Threads : Shaped(t)

\* The constants are numbers.
LEMMA Sizes ==
  /\ MaxFlows \in Nat /\ MaxFlows >= 1 /\ WordSpace \in Nat /\ WordSpace >= 1
  /\ ClockSpace \in Nat /\ ClockSpace >= 1 /\ LastBucket \in Nat
  /\ MaxSamples \in Nat /\ MaxClock \in Nat
BY SizeAssumption

\* The flows are finitely many.
LEMMA FlowsFinite ==
  /\ IsFiniteSet(Flows) /\ Cardinality(Flows) = MaxFlows
  /\ \A F \in SUBSET Flows :
       IsFiniteSet(F) /\ Cardinality(F) \in Nat /\ Cardinality(F) <= MaxFlows
<1>1. IsFiniteSet(Flows) /\ Cardinality(Flows) = MaxFlows
  BY Sizes, FS_Interval DEF Flows
<1> QED
  BY <1>1, FS_Subset, FS_CardinalityType

\* A call enters, moves on and leaves without touching the others' frames.
LEMMA EnterFacts ==
  ASSUME Typed, NEW t \in Threads, NEW s, NEW locals, Enter(t, s, locals)
  PROVE  /\ stage[t] = "idle" /\ stage'[t] = s /\ frame'[t] = locals
         /\ \A u \in Threads : u # t => stage'[u] = stage[u] /\ frame'[u] = frame[u]
         /\ overlapped'[t] <=> \E w \in Threads : stage[w] \in Writes
         /\ \A u \in Threads : u # t =>
              (overlapped'[u] <=> overlapped[u] \/ (s \in Writes /\ stage[u] # "idle"))
         /\ overlapped' \in [Threads -> BOOLEAN]
         /\ s \in Stages => stage' \in [Threads -> Stages]
         /\ locals \in Frames => frame' \in [Threads -> Frames]
<1>1. /\ stage[t] = "idle" /\ stage' = [stage EXCEPT ![t] = s]
      /\ frame' = [frame EXCEPT ![t] = locals]
      /\ overlapped' =
           [u \in Threads |-> IF u = t THEN \E w \in Threads : stage[w] \in Writes
                              ELSE overlapped[u] \/ (s \in Writes /\ stage[u] # "idle")]
  BY DEF Enter
<1>2. /\ stage \in [Threads -> Stages] /\ frame \in [Threads -> Frames]
      /\ overlapped \in [Threads -> BOOLEAN]
  BY DEF Typed, TypeOK
<1>3. /\ overlapped'[t] <=> \E w \in Threads : stage[w] \in Writes
      /\ \A u \in Threads : u # t =>
           (overlapped'[u] <=> overlapped[u] \/ (s \in Writes /\ stage[u] # "idle"))
      /\ overlapped' \in [Threads -> BOOLEAN]
  BY <1>1, <1>2, Zenon
<1>4. /\ stage'[t] = s /\ frame'[t] = locals
      /\ \A u \in Threads : u # t => stage'[u] = stage[u] /\ frame'[u] = frame[u]
      /\ s \in Stages => stage' \in [Threads -> Stages]
      /\ locals \in Frames => frame' \in [Threads -> Frames]
  BY <1>1, <1>2
<1> QED
  BY <1>1, <1>3, <1>4

\* A call that moves on leaves the others' frames and overlaps alone.
LEMMA GotoFacts ==
  ASSUME Typed, NEW t \in Threads, NEW s, NEW locals, Goto(t, s, locals)
  PROVE  /\ stage'[t] = s /\ frame'[t] = locals /\ overlapped' = overlapped
         /\ \A u \in Threads : u # t => stage'[u] = stage[u] /\ frame'[u] = frame[u]
         /\ s \in Stages => stage' \in [Threads -> Stages]
         /\ locals \in Frames => frame' \in [Threads -> Frames]
<1>1. /\ stage' = [stage EXCEPT ![t] = s] /\ frame' = [frame EXCEPT ![t] = locals]
      /\ overlapped' = overlapped
  BY DEF Goto
<1> QED
  BY <1>1 DEF Typed, TypeOK

\* The empty frame is one.
LEMMA NoFrameType == NoFrame \in Frames
BY Sizes DEF NoFrame, Frames, Buckets

\* A call that returns leaves an empty frame.
LEMMA LeaveFacts ==
  ASSUME Typed, NEW t \in Threads, Leave(t)
  PROVE  /\ stage'[t] = "idle" /\ frame'[t] = NoFrame
         /\ \A u \in Threads : u # t =>
              /\ stage'[u] = stage[u] /\ frame'[u] = frame[u]
              /\ overlapped'[u] = overlapped[u]
         /\ overlapped' \in [Threads -> BOOLEAN]
         /\ stage' \in [Threads -> Stages] /\ frame' \in [Threads -> Frames]
<1>1. /\ stage' = [stage EXCEPT ![t] = "idle"]
      /\ frame' = [frame EXCEPT ![t] = NoFrame]
      /\ overlapped' = [overlapped EXCEPT ![t] = FALSE]
  BY DEF Leave
<1> QED
  BY <1>1, NoFrameType DEF Typed, TypeOK, Stages

\* A step of one thread keeps the types if it keeps its own.
LEMMA OwnShape ==
  ASSUME Typed, TypeOK', NEW t \in Threads, Shaped(t)',
         \A u \in Threads : u # t => stage'[u] = stage[u] /\ frame'[u] = frame[u]
  PROVE  Typed'
BY DEF Typed, Shaped

\* Before the first call no frame holds anything.
LEMMA InitTyped == Init => Typed
<1> SUFFICES ASSUME Init PROVE Typed
  OBVIOUS
<1>1. TypeOK
  <2>1. now \in Nat
    BY Sizes DEF Init
  <2> QED
    BY <2>1, NoFrameType DEF Init, TypeOK, Stages
<1>2. ASSUME NEW t \in Threads PROVE Shaped(t)
  BY <1>2 DEF Init, Shaped, AtFlow
<1> QED
  BY <1>1, <1>2 DEF Typed

-----------------------------------------------------------------------------
(* The steps of record_sample keep the types *)

\* One more in a counter.
LEMMA PlusFacts ==
  ASSUME NEW count \in [Flows -> Nat], NEW f \in Flows
  PROVE  /\ Plus(count, f) \in [Flows -> Nat]
         /\ Plus(count, f)[f] = count[f] + 1
         /\ \A g \in Flows : g # f => Plus(count, f)[g] = count[g]
BY DEF Plus

\* The frame of an open call.
LEMMA FrameType ==
  ASSUME Typed, NEW t \in Threads
  PROVE  /\ Shaped(t) /\ frame[t] \in Frames
         /\ frame[t].flow \in Nat /\ frame[t].bucket \in Buckets
         /\ frame[t].lost \in BOOLEAN /\ frame[t].at \in Nat /\ frame[t].limit \in Nat
         /\ frame[t].packets \in Nat /\ frame[t].losses \in Nat
         /\ frame[t].samples \in Nat /\ frame[t].all \in BOOLEAN
         /\ frame[t].percent \in Nat \cup {-1} /\ frame[t].flows \in SUBSET Flows
BY DEF Typed, TypeOK, Frames

\* The first step picks a flow, a bucket and whether the packet was lost.
LEMMA RecordPacketTyped ==
  ASSUME Typed, NEW t \in Threads, RecordPacket(t)
  PROVE  Typed'
<1>1. PICK f \in Flows, b \in Buckets, lost \in BOOLEAN :
        /\ Enter(t, "bytes", [NoFrame EXCEPT !.flow = f, !.bucket = b, !.lost = lost])
        /\ packet_count' = Plus(packet_count, f)
  BY DEF RecordPacket
<1> DEFINE l == [NoFrame EXCEPT !.flow = f, !.bucket = b, !.lost = lost]
<1>2. l \in Frames /\ l.flow = f
  <2>1. f \in Nat
    BY Sizes DEF Flows
  <2> QED
    BY <2>1, NoFrameType DEF Frames
<1> HIDE DEF l
<1>3. /\ stage'[t] = "bytes" /\ frame'[t] = l
      /\ stage' \in [Threads -> Stages] /\ frame' \in [Threads -> Frames]
      /\ overlapped' \in [Threads -> BOOLEAN]
      /\ \A u \in Threads : u # t => stage'[u] = stage[u] /\ frame'[u] = frame[u]
  BY <1>1, <1>2, EnterFacts, "bytes" \in Stages DEF Stages, Writes, l
<1>4. packet_count' \in [Flows -> Nat]
  BY <1>1, PlusFacts DEF Typed, TypeOK
<1>5. TypeOK'
  BY <1>3, <1>4 DEF Typed, TypeOK, RecordPacket
<1>6. Shaped(t)'
  BY <1>2, <1>3 DEF Shaped, AtFlow
<1> QED
  BY <1>3, <1>5, <1>6, OwnShape

\* The clock is read into the frame.
LEMMA RecordClockTyped ==
  ASSUME Typed, NEW t \in Threads, RecordClock(t)
  PROVE  Typed'
<1> DEFINE l == [frame[t] EXCEPT !.at = now]
<1>1. stage[t] = "bytes" /\ Goto(t, "stamp", l) /\ UNCHANGED <<now, metrics>>
  BY DEF RecordClock
<1>2. l \in Frames /\ l.flow = frame[t].flow
  BY FrameType DEF Typed, TypeOK, Frames
<1> HIDE DEF l
<1>3. /\ stage'[t] = "stamp" /\ frame'[t] = l /\ overlapped' = overlapped
      /\ stage' \in [Threads -> Stages] /\ frame' \in [Threads -> Frames]
      /\ \A u \in Threads : u # t => stage'[u] = stage[u] /\ frame'[u] = frame[u]
  BY <1>1, <1>2, GotoFacts, "stamp" \in Stages DEF Stages, Writes
<1>4. TypeOK'
  BY <1>1, <1>3 DEF Typed, TypeOK, metrics
<1>5. Shaped(t)'
  BY <1>1, <1>2, <1>3, FrameType DEF Shaped, AtFlow
<1> QED
  BY <1>3, <1>4, <1>5, OwnShape

\* Only a lost packet goes on to the loss counter.
LEMMA RecordStampTyped ==
  ASSUME Typed, NEW t \in Threads, RecordStamp(t)
  PROVE  Typed'
<1> DEFINE s == IF frame[t].lost THEN "loss" ELSE "bucket"
<1>1. /\ stage[t] = "stamp" /\ Goto(t, s, frame[t])
      /\ last_update_ns' = [last_update_ns EXCEPT ![frame[t].flow] = frame[t].at]
      /\ UNCHANGED <<now, packet_count, loss_count, latency_buckets, active>>
  BY DEF RecordStamp
<1>2. s \in Stages /\ s \in {"loss", "bucket"} /\ (s = "loss" => frame[t].lost)
  BY DEF Stages, Writes
<1> HIDE DEF s
<1>3. /\ stage'[t] = s /\ frame'[t] = frame[t] /\ overlapped' = overlapped
      /\ stage' \in [Threads -> Stages] /\ frame' \in [Threads -> Frames]
      /\ \A u \in Threads : u # t => stage'[u] = stage[u] /\ frame'[u] = frame[u]
  BY <1>1, <1>2, GotoFacts, FrameType
<1>4. last_update_ns' \in [Flows -> Nat]
  BY <1>1, FrameType DEF Typed, TypeOK
<1>5. TypeOK'
  BY <1>1, <1>3, <1>4 DEF Typed, TypeOK
<1>6. Shaped(t)'
  BY <1>1, <1>2, <1>3, FrameType DEF Shaped, AtFlow
<1> QED
  BY <1>3, <1>5, <1>6, OwnShape

\* The loss counter of a flow stays a number.
LEMMA RecordLossTyped ==
  ASSUME Typed, NEW t \in Threads, RecordLoss(t)
  PROVE  Typed'
<1>1. /\ stage[t] = "loss" /\ Goto(t, "bucket", frame[t])
      /\ loss_count' = Plus(loss_count, frame[t].flow)
      /\ UNCHANGED <<now, packet_count, latency_buckets, last_update_ns, active>>
  BY DEF RecordLoss
<1>2. /\ stage'[t] = "bucket" /\ frame'[t] = frame[t] /\ overlapped' = overlapped
      /\ stage' \in [Threads -> Stages] /\ frame' \in [Threads -> Frames]
      /\ \A u \in Threads : u # t => stage'[u] = stage[u] /\ frame'[u] = frame[u]
  BY <1>1, GotoFacts, FrameType, "bucket" \in Stages DEF Stages, Writes
<1>3. frame[t].flow \in Flows
  BY <1>1, FrameType DEF Shaped, AtFlow
<1>4. loss_count' \in [Flows -> Nat]
  BY <1>1, <1>3, PlusFacts DEF Typed, TypeOK
<1>5. TypeOK'
  BY <1>1, <1>2, <1>4 DEF Typed, TypeOK
<1>6. Shaped(t)'
  BY <1>2, <1>3 DEF Shaped, AtFlow
<1> QED
  BY <1>2, <1>5, <1>6, OwnShape

\* So does the bucket.
LEMMA RecordBucketTyped ==
  ASSUME Typed, NEW t \in Threads, RecordBucket(t)
  PROVE  Typed'
<1>1. /\ stage[t] = "bucket" /\ Leave(t)
      /\ latency_buckets' =
           [latency_buckets EXCEPT ![frame[t].flow][frame[t].bucket] = @ + 1]
      /\ UNCHANGED <<now, packet_count, loss_count, last_update_ns, active>>
  BY DEF RecordBucket
<1>2. /\ stage'[t] = "idle" /\ overlapped' \in [Threads -> BOOLEAN]
      /\ stage' \in [Threads -> Stages] /\ frame' \in [Threads -> Frames]
      /\ \A u \in Threads : u # t => stage'[u] = stage[u] /\ frame'[u] = frame[u]
  BY <1>1, LeaveFacts
<1>3. frame[t].flow \in Flows /\ frame[t].bucket \in Buckets
  BY <1>1, FrameType DEF Shaped, AtFlow
<1>4. latency_buckets' \in [Flows -> [Buckets -> Nat]]
  BY <1>1, <1>3 DEF Typed, TypeOK
<1>5. TypeOK'
  BY <1>1, <1>2, <1>4 DEF Typed, TypeOK
<1>6. Shaped(t)'
  BY <1>2 DEF Shaped, AtFlow
<1> QED
  BY <1>2, <1>5, <1>6, OwnShape

-----------------------------------------------------------------------------
(* The steps of the reports keep the types *)

\* A report changes no counter but active; where it goes and with what frame
\* decides whether the types are kept.
LEMMA ReportTyped ==
  ASSUME Typed, NEW t \in Threads, Shaped(t)',
         UNCHANGED <<now, packet_count, loss_count, latency_buckets, last_update_ns>>,
         active' \in [Flows -> BOOLEAN],
         stage' \in [Threads -> Stages], frame' \in [Threads -> Frames],
         overlapped' \in [Threads -> BOOLEAN],
         \A u \in Threads : u # t => stage'[u] = stage[u] /\ frame'[u] = frame[u]
  PROVE  Typed'
<1>1. TypeOK'
  BY DEF Typed, TypeOK
<1> QED
  BY <1>1, OwnShape

\* A call of a report enters with an empty set of flows,
LEMMA EnterTyped ==
  ASSUME Typed, NEW t \in Threads, UNCHANGED <<now, metrics>>,
         NEW s \in Stages, NEW l \in Frames, Enter(t, s, l),
         s \in AtFlow => l.flow \in Flows,
         s \in {"list", "window", "age"} => l.flow \in 0..MaxFlows,
         s # "loss", s = "list" => l.all, s = "sample" => l.limit >= 1, l.flows = {}, s # "sampled"
  PROVE  Typed'
<1>1. /\ stage'[t] = s /\ frame'[t] = l
      /\ stage' \in [Threads -> Stages] /\ frame' \in [Threads -> Frames]
      /\ overlapped' \in [Threads -> BOOLEAN]
      /\ \A u \in Threads : u # t => stage'[u] = stage[u] /\ frame'[u] = frame[u]
  BY EnterFacts
<1>2. Cardinality(l.flows) = 0 /\ l.limit \in Nat
  BY FS_EmptySet DEF Frames
<1>3. Shaped(t)'
  BY <1>1, <1>2 DEF Shaped
<1>4. active' \in [Flows -> BOOLEAN]
  BY DEF Typed, TypeOK, metrics
<1> QED
  BY <1>1, <1>3, <1>4, ReportTyped DEF metrics

\* and moves on with a frame of the new shape.
LEMMA GotoTyped ==
  ASSUME Typed, NEW t \in Threads,
         UNCHANGED <<now, packet_count, loss_count, latency_buckets, last_update_ns>>,
         active' \in [Flows -> BOOLEAN],
         NEW s \in Stages, NEW l \in Frames, Goto(t, s, l),
         s \in AtFlow => l.flow \in Flows,
         s \in {"list", "window", "age"} => l.flow \in 0..MaxFlows,
         s # "loss", s = "list" => l.all, s = "sample" => l.limit >= 1,
         s \in {"sample", "sampled"} => Cardinality(l.flows) <= l.limit,
         s \in {"buckets", "rate"} /\ ~l.all => l.flows = {}
  PROVE  Typed'
<1>1. /\ stage'[t] = s /\ frame'[t] = l /\ overlapped' = overlapped
      /\ stage' \in [Threads -> Stages] /\ frame' \in [Threads -> Frames]
      /\ \A u \in Threads : u # t => stage'[u] = stage[u] /\ frame'[u] = frame[u]
  BY GotoFacts
<1>2. Shaped(t)'
  BY <1>1 DEF Shaped
<1>3. overlapped' \in [Threads -> BOOLEAN]
  BY <1>1 DEF Typed, TypeOK
<1> QED
  BY <1>1, <1>2, <1>3, ReportTyped

\* The same for a step that moves on.
LEMMA MoveTyped ==
  ASSUME Typed, NEW t \in Threads, UNCHANGED <<now, metrics>>,
         NEW s \in Stages, NEW l \in Frames, Goto(t, s, l),
         s \in AtFlow => l.flow \in Flows,
         s \in {"list", "window", "age"} => l.flow \in 0..MaxFlows,
         s # "loss", s = "list" => l.all, s = "sample" => l.limit >= 1,
         s \in {"sample", "sampled"} => Cardinality(l.flows) <= l.limit,
         s \in {"buckets", "rate"} /\ ~l.all => l.flows = {}
  PROVE  Typed'
<1>1. active' \in [Flows -> BOOLEAN]
  BY DEF Typed, TypeOK, metrics
<1>2. UNCHANGED <<now, packet_count, loss_count, latency_buckets, last_update_ns>>
  BY DEF metrics
<1> QED
  BY <1>1, <1>2, GotoTyped

\* The next flow of a loop is a flow or the end.
LEMMA NextFlow ==
  ASSUME NEW f \in 0..MaxFlows, f # MaxFlows
  PROVE  f \in Flows /\ f + 1 \in 0..MaxFlows
BY Sizes DEF Flows

\* The frames of a loop that has collected a flow.
Collected(fr, n, F) == [fr EXCEPT !.flow = n, !.flows = F]

\* Such a frame has the type and keeps what the loop does not touch.
LEMMA LoopFrames ==
  ASSUME NEW fr \in Frames, NEW n \in Nat, NEW F \in SUBSET Flows
  PROVE  LET l == Collected(fr, n, F)
         IN  /\ l \in Frames /\ l.flow = n /\ l.flows = F /\ l.limit = fr.limit
             /\ l.at = fr.at /\ l.all = fr.all /\ l.packets = fr.packets
             /\ l.losses = fr.losses
BY DEF Frames, Collected

\* get_flow_kpi begins at a flow.
LEMMA FlowKpiTyped ==
  ASSUME Typed, NEW t \in Threads, FlowKpi(t)
  PROVE  Typed'
<1>1. PICK f \in Flows :
        Enter(t, "buckets", [NoFrame EXCEPT !.flow = f, !.packets = packet_count[f]])
  BY DEF FlowKpi
<1> DEFINE l == [NoFrame EXCEPT !.flow = f, !.packets = packet_count[f]]
<1>2. l \in Frames /\ l.flow = f /\ l.flows = {}
  <2>1. f \in Nat /\ packet_count[f] \in Nat
    BY Sizes DEF Flows, Typed, TypeOK
  <2>2. l \in Frames /\ l.flow = f
    BY <2>1, NoFrameType DEF Frames
  <2> QED
    BY <2>2 DEF NoFrame
<1>3. UNCHANGED <<now, metrics>> /\ Enter(t, "buckets", l)
  BY <1>1 DEF FlowKpi
<1> HIDE DEF l
<1>4. "buckets" \in Stages
  BY DEF Stages
<1> QED
  BY <1>2, <1>3, <1>4, EnterTyped

\* The list begins at the first flow.
LEMMA AllKpisTyped ==
  ASSUME Typed, NEW t \in Threads, AllKpis(t)
  PROVE  Typed'
<1> DEFINE l == [NoFrame EXCEPT !.all = TRUE]
<1>1. l \in Frames /\ l.flow = 0 /\ l.all /\ l.flows = {}
  <2>1. l \in Frames
    BY NoFrameType DEF Frames
  <2> QED
    BY <2>1 DEF NoFrame
<1>2. UNCHANGED <<now, metrics>> /\ Enter(t, "list", l)
  BY DEF AllKpis
<1> HIDE DEF l
<1>3. "list" \in Stages /\ 0 \in 0..MaxFlows
  BY Sizes DEF Stages
<1> QED
  BY <1>1, <1>2, <1>3, EnterTyped DEF AtFlow

\* The list ends, passes over a flow or turns to it.
LEMMA ListFlowTyped ==
  ASSUME Typed, NEW t \in Threads, ListFlow(t)
  PROVE  Typed'
<1> DEFINE f == frame[t].flow
           l == [frame[t] EXCEPT !.packets = packet_count[f]]
           next == [frame[t] EXCEPT !.flow = @ + 1]
<1>1. /\ stage[t] = "list" /\ frame[t].all /\ f \in 0..MaxFlows /\ UNCHANGED <<now, metrics>>
      /\ {"list", "buckets", "listed"} \subseteq Stages
  BY FrameType DEF ListFlow, Shaped, Stages
<1>2. CASE f = MaxFlows /\ Goto(t, "listed", frame[t])
  BY <1>1, <1>2, FrameType, MoveTyped DEF AtFlow
<1>3. CASE f < MaxFlows /\ Goto(t, "list", next)
  <2>1. next \in Frames /\ next.flow = f + 1 /\ next.all = frame[t].all
    BY FrameType DEF Frames
  <2>2. next.flow \in 0..MaxFlows
    BY <1>1, <1>3, <2>1, Sizes
  <2> HIDE DEF next, f
  <2> QED
    BY <1>1, <1>3, <2>1, <2>2, MoveTyped DEF AtFlow
<1>4. CASE f < MaxFlows /\ active[f] /\ Goto(t, "buckets", l)
  <2>1. f \in Flows
    BY <1>1, <1>4, Sizes DEF Flows
  <2>2. packet_count[f] \in Nat
    BY <2>1 DEF Typed, TypeOK
  <2>3. l \in Frames /\ l.flow = f /\ l.all = frame[t].all /\ l.flows = frame[t].flows
    BY <2>2, FrameType DEF Frames
  <2> HIDE DEF l, f
  <2> QED
    BY <1>1, <1>4, <2>1, <2>3, MoveTyped
<1> QED
  BY <1>2, <1>3, <1>4 DEF ListFlow, Advance

\* The index of a bucket wraps to the first.
LEMMA KpiBucketTyped ==
  ASSUME Typed, NEW t \in Threads, KpiBucket(t)
  PROVE  Typed'
<1> DEFINE f == frame[t].flow
           b == frame[t].bucket
           s == IF b = LastBucket THEN "rate" ELSE "buckets"
           l == [frame[t] EXCEPT !.bucket = (b + 1) % (LastBucket + 1),
                                 !.samples = @ + latency_buckets[f][b]]
<1>1. /\ stage[t] = "buckets" /\ UNCHANGED <<now, metrics>> /\ Goto(t, s, l)
      /\ f \in Flows /\ b \in Buckets /\ (~frame[t].all => frame[t].flows = {})
  BY FrameType DEF KpiBucket, Shaped, AtFlow
<1>2. s \in Stages /\ s \in {"rate", "buckets"}
  BY DEF Stages
<1>3. l \in Frames /\ l.flow = f /\ l.all = frame[t].all /\ l.flows = frame[t].flows
  <2>1. latency_buckets[f][b] \in Nat
    BY <1>1 DEF Typed, TypeOK
  <2>2. (b + 1) % (LastBucket + 1) \in Buckets
    BY <1>1, Sizes DEF Buckets
  <2>3. PICK c \in Buckets, n \in Nat :
          c = (b + 1) % (LastBucket + 1) /\ n = frame[t].samples + latency_buckets[f][b]
    BY <2>1, <2>2, FrameType
  <2>4. l = [frame[t] EXCEPT !.bucket = c, !.samples = n]
    BY <2>3
  <2> HIDE DEF l
  <2> QED
    BY <2>4, FrameType DEF Frames
<1> HIDE DEF l, s, f
<1> QED
  BY <1>1, <1>2, <1>3, MoveTyped

\* A percentage is a number if the flow had a packet.
LEMMA PercentageNat ==
  ASSUME NEW losses \in Nat, NEW packets \in Nat, packets # 0
  PROVE  Percentage(losses, packets) \in Nat
<1>1. (losses * 100) % WordSpace \in Nat
  BY Sizes
<1> QED
  BY <1>1 DEF Percentage

\* The KPI of a flow of the list is followed by the next flow.
LEMMA RatedTyped ==
  ASSUME Typed, NEW t \in Threads, stage[t] = "rate", UNCHANGED <<now, metrics>>,
         NEW p \in Nat \cup {-1}, Rated(t, p)
  PROVE  Typed'
<1> DEFINE f == frame[t].flow
           next == [frame[t] EXCEPT !.flow = @ + 1, !.samples = 0,
                                    !.flows = @ \cup {frame[t].flow}]
           done == [frame[t] EXCEPT !.percent = p]
<1>1. f \in Flows
  BY FrameType DEF Shaped, AtFlow
<1>2. f + 1 \in 0..MaxFlows
  BY <1>1, Sizes DEF Flows
<1>3. CASE frame[t].all
  <2>1. Goto(t, "list", next)
    BY <1>3 DEF Rated
  <2>2. frame[t].flows \cup {f} \in SUBSET Flows /\ f + 1 \in Nat
    BY <1>1, FrameType
  <2> DEFINE c == Collected(frame[t], f + 1, frame[t].flows \cup {f})
  <2>3. c \in Frames /\ c.flow = f + 1 /\ c.all = frame[t].all
    BY <2>2, FrameType, LoopFrames
  <2>a. next = [c EXCEPT !.samples = 0]
    BY FrameType DEF Collected, Frames
  <2> HIDE DEF c, next
  <2>4. next \in Frames /\ next.flow = f + 1 /\ next.all = frame[t].all
    BY <2>3, <2>a DEF Frames
  <2> HIDE DEF next
  <2>5. "list" \in Stages
    BY DEF Stages
  <2> HIDE DEF f
  <2> QED
    BY <1>2, <1>3, <2>1, <2>2, <2>4, <2>5, MoveTyped DEF AtFlow
<1>4. CASE ~frame[t].all
  <2>1. Goto(t, "rated", done)
    BY <1>4 DEF Rated
  <2>2. done \in Frames
    BY FrameType DEF Frames
  <2>3. "rated" \in Stages
    BY DEF Stages
  <2> HIDE DEF done
  <2> QED
    BY <2>1, <2>2, <2>3, MoveTyped DEF AtFlow
<1> QED
  BY <1>3, <1>4

\* The three outcomes of a rate.
LEMMA KpiRateTyped ==
  ASSUME Typed, NEW t \in Threads, KpiRate(t)
  PROVE  Typed'
<1> DEFINE p == Percentage(loss_count[frame[t].flow], frame[t].packets)
<1>1. stage[t] = "rate" /\ UNCHANGED <<now, metrics>>
  BY DEF KpiRate
<1>2. CASE Rated(t, -1)
  BY <1>1, <1>2, RatedTyped
<1>3. CASE frame[t].packets # 0 /\ Rated(t, p)
  <2>1. loss_count[frame[t].flow] \in Nat
    BY <1>1, FrameType DEF Shaped, AtFlow, Typed, TypeOK
  <2>2. p \in Nat
    BY <1>3, <2>1, FrameType, PercentageNat
  <2> HIDE DEF p
  <2> QED
    BY <1>1, <1>3, <2>2, RatedTyped
<1>4. CASE Goto(t, "trapped", frame[t])
  BY <1>1, <1>4, FrameType, MoveTyped, "trapped" \in Stages DEF AtFlow, Stages
<1> QED
  BY <1>2, <1>3, <1>4 DEF KpiRate

\* Unsigned subtraction gives a number.
LEMMA MinusNat ==
  ASSUME NEW a \in Nat, NEW b \in Nat
  PROVE  Minus(a, b) \in Nat
BY Sizes DEF Minus

\* get_service_kpi begins at the first flow.
LEMMA ServiceKpiTyped ==
  ASSUME Typed, NEW t \in Threads, ServiceKpi(t)
  PROVE  Typed'
<1>1. PICK window \in Windows :
        Enter(t, "window", [NoFrame EXCEPT !.at = now, !.limit = Minus(now, window)])
  BY DEF ServiceKpi
<1> DEFINE l == [NoFrame EXCEPT !.at = now, !.limit = Minus(now, window)]
<1>2. l \in Frames
  <2>1. Minus(now, window) \in Nat /\ now \in Nat
    BY MinusNat, ArgumentAssumption DEF Typed, TypeOK
  <2> QED
    BY <2>1, NoFrameType DEF Frames
<1>3. l.flow = 0 /\ l.flows = {}
  BY DEF NoFrame
<1>4. UNCHANGED <<now, metrics>> /\ Enter(t, "window", l)
  BY <1>1 DEF ServiceKpi
<1> HIDE DEF l
<1>5. "window" \in Stages /\ 0 \in 0..MaxFlows
  BY Sizes DEF Stages
<1> QED
  BY <1>2, <1>3, <1>4, <1>5, EnterTyped DEF AtFlow

\* It passes over a flow or turns to its losses.
LEMMA ServiceWindowTyped ==
  ASSUME Typed, NEW t \in Threads, ServiceWindow(t)
  PROVE  Typed'
<1> DEFINE f == frame[t].flow
           l == [frame[t] EXCEPT !.packets = @ + packet_count[f]]
           next == [frame[t] EXCEPT !.flow = @ + 1]
<1>1. /\ stage[t] = "window" /\ f \in Flows /\ f + 1 \in 0..MaxFlows
      /\ UNCHANGED <<now, metrics>> /\ {"window", "losses"} \subseteq Stages
  <2>1. /\ stage[t] = "window" /\ f \in 0..MaxFlows /\ f < MaxFlows
        /\ UNCHANGED <<now, metrics>>
    BY FrameType DEF ServiceWindow, Shaped
  <2> QED
    BY <2>1, Sizes DEF Flows, Stages
<1>2. CASE Goto(t, "window", next)
  <2>1. next \in Frames /\ next.flow = f + 1
    BY FrameType DEF Frames
  <2> HIDE DEF next, f
  <2> QED
    BY <1>1, <1>2, <2>1, MoveTyped DEF AtFlow
<1>3. CASE Goto(t, "losses", l)
  <2>1. packet_count[f] \in Nat
    BY <1>1 DEF Typed, TypeOK
  <2>2. l \in Frames /\ l.flow = f
    BY <2>1, FrameType DEF Frames
  <2> HIDE DEF l, f
  <2> QED
    BY <1>1, <1>3, <2>2, MoveTyped DEF AtFlow
<1> QED
  BY <1>2, <1>3 DEF ServiceWindow, Advance

\* It adds the losses and turns to the next flow.
LEMMA ServiceLossesTyped ==
  ASSUME Typed, NEW t \in Threads, ServiceLosses(t)
  PROVE  Typed'
<1> DEFINE f == frame[t].flow
           l == [frame[t] EXCEPT !.flow = @ + 1, !.losses = @ + loss_count[f],
                                 !.flows = @ \cup {f}]
<1>1. f \in Flows /\ f + 1 \in 0..MaxFlows /\ "window" \in Stages
  <2>1. f \in Flows
    BY FrameType DEF ServiceLosses, Shaped, AtFlow
  <2> QED
    BY <2>1, Sizes DEF Flows, Stages
<1>2. UNCHANGED <<now, metrics>> /\ Goto(t, "window", l)
  BY DEF ServiceLosses
<1>3. l \in Frames /\ l.flow = f + 1
  <2>1. loss_count[f] \in Nat
    BY <1>1 DEF Typed, TypeOK
  <2>2. /\ frame[t].flows \cup {f} \in SUBSET Flows /\ f + 1 \in Nat
        /\ frame[t].losses + loss_count[f] \in Nat
    BY <1>1, <2>1, FrameType
  <2> DEFINE c == Collected(frame[t], f + 1, frame[t].flows \cup {f})
             m == frame[t].losses + loss_count[f]
  <2>3. c \in Frames /\ c.flow = f + 1 /\ m \in Nat
    BY <2>2, FrameType, LoopFrames
  <2>4. l = [c EXCEPT !.losses = m]
    BY FrameType DEF Collected, Frames
  <2> HIDE DEF c, l, m
  <2> QED
    BY <2>3, <2>4 DEF Frames
<1> HIDE DEF l, f
<1> QED
  BY <1>1, <1>2, <1>3, MoveTyped DEF AtFlow

\* It ends with a percentage.
LEMMA ServiceRateTyped ==
  ASSUME Typed, NEW t \in Threads, ServiceRate(t)
  PROVE  Typed'
<1> DEFINE fr == frame[t]
           p == IF fr.packets = 0 THEN -1 ELSE (fr.losses * 100) \div fr.packets
           l == [fr EXCEPT !.percent = p]
<1>1. UNCHANGED <<now, metrics>> /\ Goto(t, "rated", l)
  BY DEF ServiceRate
<1>2. p \in Nat \cup {-1}
  BY FrameType
<1> HIDE DEF p
<1>3. l \in Frames
  BY <1>2, FrameType DEF Frames
<1> HIDE DEF l
<1> QED
  BY <1>1, <1>3, MoveTyped, "rated" \in Stages DEF AtFlow, Stages

\* A limit of zero traps the process, any other is at least one.
LEMMA TelemetryTyped ==
  ASSUME Typed, NEW t \in Threads, Telemetry(t)
  PROVE  Typed'
<1>1. PICK limit \in SampleLimits :
        Enter(t, IF limit = 0 THEN "trapped" ELSE "sample",
              [NoFrame EXCEPT !.limit = limit])
  BY DEF Telemetry
<1> DEFINE l == [NoFrame EXCEPT !.limit = limit]
           s == IF limit = 0 THEN "trapped" ELSE "sample"
<1>2. limit \in Nat
  BY ArgumentAssumption
<1>3. l \in Frames /\ l.limit = limit
  BY <1>2, NoFrameType DEF Frames
<1>4. l.flows = {}
  BY DEF NoFrame
<1>5. s \in Stages /\ s \in {"trapped", "sample"} /\ (s = "sample" => limit >= 1)
  BY <1>2 DEF Stages
<1>6. UNCHANGED <<now, metrics>> /\ Enter(t, s, l)
  BY <1>1 DEF Telemetry
<1> HIDE DEF l, s
<1> QED
  BY <1>3, <1>4, <1>5, <1>6, EnterTyped DEF AtFlow

\* The interval between samples is at least one.
LEMMA IntervalNat ==
  ASSUME NEW limit \in Nat, limit >= 1
  PROVE  Interval(limit) \in Nat /\ Interval(limit) >= 1
<1>1. MaxFlows \div limit \in Nat
  BY Sizes
<1> QED
  BY <1>1 DEF Interval, AtLeastOne

\* What the loop over the samples has collected after a flow.
Sampled(t) ==
  IF active[frame[t].flow] THEN frame[t].flows \cup {frame[t].flow} ELSE frame[t].flows

\* The loop ends, or it is at a flow, has room for it and moves on.
LEMMA TelemetryFlowFacts ==
  ASSUME Typed, NEW t \in Threads, TelemetryFlow(t)
  PROVE  /\ stage[t] = "sample" /\ UNCHANGED <<now, metrics>>
         /\ \/ /\ Goto(t, "sampled", frame[t])
               /\ frame[t].flow >= MaxFlows
                    \/ Cardinality(frame[t].flows) >= frame[t].limit
            \/ /\ frame[t].flow \in Flows
               /\ Cardinality(frame[t].flows) < frame[t].limit
               /\ Interval(frame[t].limit) \in Nat /\ frame[t].limit >= 1
               /\ Goto(t, "sample", Collected(frame[t],
                         frame[t].flow + Interval(frame[t].limit), Sampled(t)))
<1> DEFINE fr == frame[t]
           done == fr.flow >= MaxFlows \/ Cardinality(fr.flows) >= fr.limit
           l == [fr EXCEPT !.flow = @ + Interval(fr.limit),
                           !.flows = IF active[fr.flow] THEN @ \cup {fr.flow} ELSE @]
<1>1. /\ stage[t] = "sample" /\ UNCHANGED <<now, metrics>>
      /\ IF done THEN Goto(t, "sampled", fr) ELSE Goto(t, "sample", l)
  BY DEF TelemetryFlow
<1>2. CASE done
  BY <1>1, <1>2
<1>3. CASE ~done
  <2>1. /\ fr.flow \in Nat /\ Cardinality(fr.flows) \in Nat /\ fr.limit \in Nat
        /\ fr.limit >= 1
    BY <1>1, FrameType, FlowsFinite DEF Shaped
  <2>2. fr.flow \in Flows /\ Cardinality(fr.flows) < fr.limit
    BY <1>3, <2>1, Sizes DEF Flows
  <2>3. Interval(fr.limit) \in Nat
    BY <2>1, IntervalNat
  <2>4. l = Collected(fr, fr.flow + Interval(fr.limit), Sampled(t))
    BY FrameType DEF Collected, Sampled, Frames
  <2>5. Goto(t, "sample", l)
    BY <1>1, <1>3
  <2> HIDE DEF l
  <2> QED
    BY <1>1, <2>1, <2>2, <2>3, <2>4, <2>5
<1> QED
  BY <1>2, <1>3

\* One element more is at most one more.
LEMMA OneMore ==
  ASSUME NEW S, IsFiniteSet(S), NEW x
  PROVE  Cardinality(S \cup {x}) \in Nat /\ Cardinality(S \cup {x}) <= Cardinality(S) + 1
<1>1. Cardinality(S) \in Nat
  BY FS_CardinalityType
<1>2. Cardinality(S \cup {x}) = IF x \in S THEN Cardinality(S) ELSE Cardinality(S) + 1
  BY FS_AddElement
<1> QED
  BY <1>1, <1>2

\* The samples never exceed the limit: one is added only below it.
LEMMA TelemetryFlowTyped ==
  ASSUME Typed, NEW t \in Threads, TelemetryFlow(t)
  PROVE  Typed'
<1> DEFINE fr == frame[t]
           l == Collected(fr, fr.flow + Interval(fr.limit), Sampled(t))
<1>1. stage[t] = "sample" /\ UNCHANGED <<now, metrics>>
  BY TelemetryFlowFacts
<1>2. CASE Goto(t, "sampled", fr)
  BY <1>1, <1>2, FrameType, MoveTyped, "sampled" \in Stages DEF Shaped, AtFlow, Stages
<1>3. CASE /\ fr.flow \in Flows /\ Cardinality(fr.flows) < fr.limit
           /\ Interval(fr.limit) \in Nat /\ fr.limit >= 1
           /\ Goto(t, "sample", l)
  <2>1. Sampled(t) \in SUBSET Flows /\ fr.flow + Interval(fr.limit) \in Nat
    <3>1. fr.flow \in Nat /\ fr.flows \in SUBSET Flows
      BY FrameType
    <3>2. fr.flows \cup {fr.flow} \in SUBSET Flows
      BY <1>3, <3>1
    <3> QED
      BY <1>3, <3>1, <3>2 DEF Sampled
  <2>2. Cardinality(Sampled(t)) <= fr.limit
    <3>1. /\ IsFiniteSet(fr.flows) /\ Cardinality(fr.flows) \in Nat
          /\ fr.limit \in Nat
      BY FrameType, FlowsFinite
    <3>2. /\ Cardinality(fr.flows \cup {fr.flow}) <= Cardinality(fr.flows) + 1
          /\ Cardinality(fr.flows \cup {fr.flow}) \in Nat
      BY <3>1, OneMore
    <3> QED
      BY <1>3, <3>1, <3>2 DEF Sampled
  <2>3. l \in Frames /\ l.flows = Sampled(t) /\ l.limit = fr.limit
    BY <2>1, FrameType, LoopFrames
  <2>4. "sample" \in Stages
    BY DEF Stages
  <2> HIDE DEF l
  <2> QED
    BY <1>1, <1>3, <2>2, <2>3, <2>4, MoveTyped DEF AtFlow
<1> QED
  BY <1>2, <1>3, TelemetryFlowFacts

\* A flush begins at the first flow.
LEMMA FlushTyped ==
  ASSUME Typed, NEW t \in Threads, Flush(t)
  PROVE  Typed'
<1>1. PICK idle \in IdleTimes :
        Enter(t, "age", [NoFrame EXCEPT !.at = now, !.limit = idle])
  BY DEF Flush
<1> DEFINE l == [NoFrame EXCEPT !.at = now, !.limit = idle]
<1>2. l \in Frames
  <2>1. idle \in Nat /\ now \in Nat
    BY ArgumentAssumption DEF Typed, TypeOK
  <2> QED
    BY <2>1, NoFrameType DEF Frames
<1>3. l.flow = 0 /\ l.flows = {}
  BY DEF NoFrame
<1>4. UNCHANGED <<now, metrics>> /\ Enter(t, "age", l)
  BY <1>1 DEF Flush
<1> HIDE DEF l
<1>5. "age" \in Stages /\ 0 \in 0..MaxFlows
  BY Sizes DEF Stages, Writes
<1> QED
  BY <1>2, <1>3, <1>4, <1>5, EnterTyped DEF AtFlow

\* It passes over a flow or is about to drop it.
LEMMA FlushLoadTyped ==
  ASSUME Typed, NEW t \in Threads, FlushLoad(t)
  PROVE  Typed'
<1> DEFINE f == frame[t].flow
           next == [frame[t] EXCEPT !.flow = @ + 1]
<1>1. /\ stage[t] = "age" /\ f \in Flows /\ f + 1 \in 0..MaxFlows
      /\ UNCHANGED <<now, metrics>> /\ {"age", "drop"} \subseteq Stages
  <2>1. /\ stage[t] = "age" /\ f \in 0..MaxFlows /\ f < MaxFlows
        /\ UNCHANGED <<now, metrics>>
    BY FrameType DEF FlushLoad, Shaped
  <2> QED
    BY <2>1, Sizes DEF Flows, Stages, Writes
<1>2. CASE Goto(t, "age", next)
  <2>1. next \in Frames /\ next.flow = f + 1
    BY FrameType DEF Frames
  <2> HIDE DEF next, f
  <2> QED
    BY <1>1, <1>2, <2>1, MoveTyped DEF AtFlow
<1>3. CASE Goto(t, "drop", frame[t])
  BY <1>1, <1>3, FrameType, MoveTyped DEF AtFlow
<1> QED
  BY <1>2, <1>3 DEF FlushLoad, Advance

\* The flow is dropped and the loop moves on.
LEMMA FlushDropFacts ==
  ASSUME Typed, NEW t \in Threads, FlushDrop(t)
  PROVE  /\ stage[t] = "drop" /\ frame[t].flow \in Flows
         /\ frame[t].flow + 1 \in 0..MaxFlows
         /\ Goto(t, "age", Collected(frame[t], frame[t].flow + 1,
                                     frame[t].flows \cup {frame[t].flow}))
         /\ UNCHANGED <<now, packet_count, loss_count, latency_buckets, last_update_ns>>
         /\ active' \in [Flows -> BOOLEAN]
<1>1. stage[t] = "drop" /\ frame[t].flow \in Flows
  BY FrameType DEF FlushDrop, Shaped, AtFlow
<1>2. frame[t].flow + 1 \in 0..MaxFlows
  BY <1>1, Sizes DEF Flows
<1>3. active' \in [Flows -> BOOLEAN]
  BY DEF FlushDrop, Typed, TypeOK
<1> QED
  BY <1>1, <1>2, <1>3 DEF FlushDrop, Collected

\* A dropped flow is one of the flows.
LEMMA FlushDropTyped ==
  ASSUME Typed, NEW t \in Threads, FlushDrop(t)
  PROVE  Typed'
<1> DEFINE f == frame[t].flow
           l == Collected(frame[t], f + 1, frame[t].flows \cup {f})
<1>1. /\ f \in Flows /\ f + 1 \in 0..MaxFlows /\ Goto(t, "age", l)
      /\ UNCHANGED <<now, packet_count, loss_count, latency_buckets, last_update_ns>>
      /\ active' \in [Flows -> BOOLEAN]
  BY FlushDropFacts
<1>2. l \in Frames /\ l.flow = f + 1
  <2>1. frame[t].flows \cup {f} \in SUBSET Flows /\ f + 1 \in Nat
    BY <1>1, FrameType
  <2> QED
    BY <2>1, FrameType, LoopFrames
<1>3. "age" \in Stages
  BY DEF Stages, Writes
<1> HIDE DEF l, f
<1> QED
  BY <1>1, <1>2, <1>3, GotoTyped DEF AtFlow

\* A flush ends after the last flow.
LEMMA FlushEndTyped ==
  ASSUME Typed, NEW t \in Threads, FlushEnd(t)
  PROVE  Typed'
BY FrameType, MoveTyped, "flushed" \in Stages DEF FlushEnd, AtFlow, Stages

\* A report returns.
LEMMA ReturnTyped ==
  ASSUME Typed, NEW t \in Threads, Return(t)
  PROVE  Typed'
<1>1. Leave(t) /\ UNCHANGED <<now, packet_count, loss_count, latency_buckets,
                              last_update_ns, active>>
  BY DEF Return, metrics
<1>2. /\ stage'[t] = "idle" /\ overlapped' \in [Threads -> BOOLEAN]
      /\ stage' \in [Threads -> Stages] /\ frame' \in [Threads -> Frames]
      /\ \A u \in Threads : u # t => stage'[u] = stage[u] /\ frame'[u] = frame[u]
  BY <1>1, LeaveFacts
<1>3. Shaped(t)'
  BY <1>2 DEF Shaped, AtFlow
<1>4. active' \in [Flows -> BOOLEAN]
  BY <1>1 DEF Typed, TypeOK
<1> QED
  BY <1>1, <1>2, <1>3, <1>4, ReportTyped

\* Time passes.
LEMMA TickTyped ==
  ASSUME Typed, Tick
  PROVE  Typed'
<1>1. /\ now' = now + 1
      /\ UNCHANGED <<packet_count, loss_count, latency_buckets, last_update_ns, active,
                      stage, frame, overlapped>>
  BY DEF Tick, metrics
<1> QED
  BY <1>1 DEF Typed, TypeOK, Shaped

\* Every step keeps the types.
LEMMA NextTyped == Typed /\ [Next]_vars => Typed'
<1> SUFFICES ASSUME Typed, [Next]_vars PROVE Typed'
  OBVIOUS
<1>1. ASSUME NEW t \in Threads, Record(t) PROVE Typed'
  BY <1>1, RecordPacketTyped, RecordClockTyped, RecordStampTyped, RecordLossTyped,
     RecordBucketTyped DEF Record
<1>2. ASSUME NEW t \in Threads, Report(t) PROVE Typed'
  <2>1. CASE FlowKpi(t) \/ AllKpis(t) \/ ListFlow(t) \/ KpiBucket(t) \/ KpiRate(t)
    BY <2>1, FlowKpiTyped, AllKpisTyped, ListFlowTyped, KpiBucketTyped, KpiRateTyped
  <2>2. CASE ServiceKpi(t) \/ ServiceWindow(t) \/ ServiceLosses(t) \/ ServiceRate(t)
    BY <2>2, ServiceKpiTyped, ServiceWindowTyped, ServiceLossesTyped, ServiceRateTyped
  <2>3. CASE Telemetry(t) \/ TelemetryFlow(t) \/ Return(t)
    BY <2>3, TelemetryTyped, TelemetryFlowTyped, ReturnTyped
  <2>4. CASE Flush(t) \/ FlushLoad(t) \/ FlushDrop(t) \/ FlushEnd(t)
    BY <2>4, FlushTyped, FlushLoadTyped, FlushDropTyped, FlushEndTyped
  <2> QED
    BY <1>2, <2>1, <2>2, <2>3, <2>4 DEF Report
<1>3. CASE UNCHANGED vars
  BY <1>3 DEF Typed, TypeOK, Shaped, vars, metrics
<1> QED
  BY <1>1, <1>2, <1>3, TickTyped DEF Next, Threads

\* The counters, the clock and the frames of the calls keep their types.
THEOREM TypeCorrect == Spec => []TypeOK
<1>1. Typed /\ [Next]_vars => Typed'
  BY NextTyped
<1>2. Typed => TypeOK
  BY DEF Typed
<1> QED
  BY InitTyped, <1>1, <1>2, PTL DEF Spec

-----------------------------------------------------------------------------
(* What a step of one thread is to the calls of the others *)

RecordStages == {"bytes", "stamp", "loss", "bucket"}

\* Other frames stay; who begins to write overlaps with every open call, and
\* only a writer changes a metric.
Step(t) ==
  /\ \A u \in Threads : u # t => stage'[u] = stage[u] /\ frame'[u] = frame[u]
  /\ \A u \in Threads : u # t /\ overlapped[u] => overlapped'[u]
  /\ stage'[t] \in Writes /\ stage[t] \notin Writes =>
       \A u \in Threads : u # t /\ stage[u] # "idle" => overlapped'[u]
  /\ stage[t] \notin Writes =>
       \/ UNCHANGED metrics
       \/ \A u \in Threads : u # t /\ stage[u] # "idle" => overlapped'[u]
  /\ stage[t] # "idle" /\ stage'[t] # "idle" => overlapped'[t] = overlapped[t]
  /\ stage[t] = "idle" /\ stage'[t] # "idle" /\ ~overlapped'[t] =>
       \A w \in Threads : stage[w] \notin Writes

\* A call that begins, with a write or without a change.
LEMMA EnterStep ==
  ASSUME Typed, NEW t \in Threads, NEW s, NEW l, Enter(t, s, l),
         s \in Writes \/ UNCHANGED metrics
  PROVE  Step(t)
<1>1. /\ stage[t] = "idle" /\ stage'[t] = s
      /\ \A u \in Threads : u # t => stage'[u] = stage[u] /\ frame'[u] = frame[u]
      /\ overlapped'[t] <=> \E w \in Threads : stage[w] \in Writes
      /\ \A u \in Threads : u # t =>
           (overlapped'[u] <=> overlapped[u] \/ (s \in Writes /\ stage[u] # "idle"))
  BY EnterFacts
<1> QED
  BY <1>1 DEF Step

\* A call that moves on; it begins to write only when it enters.
LEMMA GotoStep ==
  ASSUME Typed, NEW t \in Threads, NEW s, NEW l, Goto(t, s, l),
         stage[t] # "idle", s \in Writes => stage[t] \in Writes,
         stage[t] \in Writes \/ UNCHANGED metrics
  PROVE  Step(t)
<1>1. /\ stage'[t] = s /\ overlapped' = overlapped
      /\ \A u \in Threads : u # t => stage'[u] = stage[u] /\ frame'[u] = frame[u]
  BY GotoFacts
<1> QED
  BY <1>1 DEF Step

\* A call that returns.
LEMMA LeaveStep ==
  ASSUME Typed, NEW t \in Threads, Leave(t), stage[t] \in Writes \/ UNCHANGED metrics
  PROVE  Step(t)
<1>1. /\ stage'[t] = "idle"
      /\ \A u \in Threads : u # t =>
           /\ stage'[u] = stage[u] /\ frame'[u] = frame[u]
           /\ overlapped'[u] = overlapped[u]
  BY LeaveFacts
<1>2. "idle" \notin Writes
  BY DEF Writes
<1> QED
  BY <1>1, <1>2 DEF Step

\* record_sample writes from its first step to its last.
LEMMA RecordStep ==
  ASSUME Typed, NEW t \in Threads, Record(t)
  PROVE  /\ Step(t)
         /\ stage[t] \in RecordStages \cup {"idle"}
         /\ stage'[t] \in RecordStages \cup {"idle"}
<1> USE DEF Writes, RecordStages
<1>1. CASE RecordPacket(t)
  <2>1. PICK f \in Flows, b \in Buckets, lost \in BOOLEAN :
          Enter(t, "bytes", [NoFrame EXCEPT !.flow = f, !.bucket = b, !.lost = lost])
    BY <1>1 DEF RecordPacket
  <2>2. stage[t] = "idle" /\ stage'[t] = "bytes"
    BY <2>1, EnterFacts
  <2> QED
    BY <2>1, <2>2, EnterStep
<1>2. CASE RecordClock(t)
  <2>1. stage[t] = "bytes" /\ Goto(t, "stamp", [frame[t] EXCEPT !.at = now])
    BY <1>2 DEF RecordClock
  <2> QED
    BY <2>1, GotoStep, GotoFacts
<1>3. CASE RecordStamp(t)
  <2>1. /\ stage[t] = "stamp"
        /\ Goto(t, IF frame[t].lost THEN "loss" ELSE "bucket", frame[t])
    BY <1>3 DEF RecordStamp
  <2> QED
    BY <2>1, GotoStep, GotoFacts
<1>4. CASE RecordLoss(t)
  <2>1. stage[t] = "loss" /\ Goto(t, "bucket", frame[t])
    BY <1>4 DEF RecordLoss
  <2> QED
    BY <2>1, GotoStep, GotoFacts
<1>5. CASE RecordBucket(t)
  <2>1. stage[t] = "bucket" /\ Leave(t)
    BY <1>5 DEF RecordBucket
  <2> QED
    BY <2>1, LeaveStep, LeaveFacts
<1> QED
  BY <1>1, <1>2, <1>3, <1>4, <1>5 DEF Record

\* A report never records, and no report but a flush writes.
LEMMA ReportEnter ==
  ASSUME Typed, NEW t \in Threads, NEW s, NEW l, Enter(t, s, l),
         s \notin RecordStages, UNCHANGED metrics
  PROVE  /\ Step(t) /\ stage[t] \notin RecordStages /\ stage'[t] \notin RecordStages
         /\ UNCHANGED <<packet_count, loss_count, latency_buckets, last_update_ns>>
BY EnterStep, EnterFacts DEF RecordStages, metrics

ReportStages ==
  {"list", "listed", "buckets", "rate", "rated", "trapped", "window", "losses",
   "sample", "sampled", "age", "drop", "flushed"}

\* A report moves on among its own stages.
LEMMA ReportGoto ==
  ASSUME Typed, NEW t \in Threads, NEW s, NEW l, Goto(t, s, l),
         stage[t] \in ReportStages, s \in ReportStages,
         s \in {"age", "drop"} => stage[t] = "age", UNCHANGED metrics
  PROVE  /\ Step(t) /\ stage[t] \notin RecordStages /\ stage'[t] \notin RecordStages
         /\ UNCHANGED <<packet_count, loss_count, latency_buckets, last_update_ns>>
<1>1. /\ stage[t] \notin RecordStages \cup {"idle"} /\ s \notin RecordStages
      /\ s \in Writes => s \in {"age", "drop"}
      /\ "age" \in Writes
  BY DEF ReportStages, RecordStages, Writes
<1>2. stage[t] # "idle" /\ (s \in Writes => stage[t] \in Writes)
  BY <1>1
<1>3. Step(t) /\ stage'[t] = s
  BY <1>2, GotoStep, GotoFacts
<1> QED
  BY <1>1, <1>3 DEF metrics

\* Every step of a report is one of these.
LEMMA ReportStep ==
  ASSUME Typed, NEW t \in Threads, Report(t)
  PROVE  /\ Step(t) /\ stage[t] \notin RecordStages /\ stage'[t] \notin RecordStages
         /\ UNCHANGED <<now, packet_count, loss_count, latency_buckets, last_update_ns>>
<1> DEFINE Goal == /\ Step(t) /\ stage[t] \notin RecordStages
                   /\ stage'[t] \notin RecordStages
                   /\ UNCHANGED <<packet_count, loss_count, latency_buckets,
                                  last_update_ns>>
           fr == frame[t]
           next == [fr EXCEPT !.flow = @ + 1]
<1>a. now' = now
  BY DEF Report, FlowKpi, AllKpis, ListFlow, KpiBucket, KpiRate, ServiceKpi,
     ServiceWindow, ServiceLosses, ServiceRate, Telemetry, TelemetryFlow, Flush,
     FlushLoad, FlushDrop, FlushEnd, Return
<1> SUFFICES Goal
  BY <1>a
<1>0. /\ \A s \in ReportStages : s \notin RecordStages
      /\ "age" \in Writes /\ "drop" \in Writes
      /\ "list" \in ReportStages /\ "listed" \in ReportStages
      /\ "buckets" \in ReportStages /\ "rate" \in ReportStages
      /\ "rated" \in ReportStages /\ "trapped" \in ReportStages
      /\ "window" \in ReportStages /\ "losses" \in ReportStages
      /\ "sample" \in ReportStages /\ "sampled" \in ReportStages
      /\ "age" \in ReportStages /\ "drop" \in ReportStages
      /\ "flushed" \in ReportStages
  BY DEF RecordStages, ReportStages, Writes
<1>1. CASE FlowKpi(t) \/ AllKpis(t) \/ ServiceKpi(t) \/ Telemetry(t) \/ Flush(t)
  <2>1. CASE FlowKpi(t)
    <3>1. PICK f \in Flows :
            Enter(t, "buckets", [NoFrame EXCEPT !.flow = f, !.packets = packet_count[f]])
      BY <2>1 DEF FlowKpi
    <3> QED
      BY <2>1, <3>1, <1>0, ReportEnter DEF FlowKpi
  <2>2. CASE AllKpis(t)
    BY <2>2, <1>0, ReportEnter DEF AllKpis
  <2>3. CASE ServiceKpi(t)
    <3>1. PICK w \in Windows :
            Enter(t, "window", [NoFrame EXCEPT !.at = now, !.limit = Minus(now, w)])
      BY <2>3 DEF ServiceKpi
    <3> QED
      BY <2>3, <3>1, <1>0, ReportEnter DEF ServiceKpi
  <2>4. CASE Telemetry(t)
    <3>1. PICK limit \in SampleLimits :
            Enter(t, IF limit = 0 THEN "trapped" ELSE "sample",
                  [NoFrame EXCEPT !.limit = limit])
      BY <2>4 DEF Telemetry
    <3>2. (IF limit = 0 THEN "trapped" ELSE "sample") \notin RecordStages
      BY <1>0
    <3> QED
      BY <2>4, <3>1, <3>2, ReportEnter DEF Telemetry
  <2>5. CASE Flush(t)
    <3>1. PICK idle \in IdleTimes :
            Enter(t, "age", [NoFrame EXCEPT !.at = now, !.limit = idle])
      BY <2>5 DEF Flush
    <3> QED
      BY <2>5, <3>1, <1>0, ReportEnter DEF Flush
  <2> QED
    BY <1>1, <2>1, <2>2, <2>3, <2>4, <2>5
<1>2. CASE ListFlow(t)
  <2>1. stage[t] = "list" /\ UNCHANGED metrics
    BY <1>2 DEF ListFlow
  <2>2. \/ Goto(t, "listed", fr) \/ Goto(t, "list", next)
        \/ Goto(t, "buckets", [fr EXCEPT !.packets = packet_count[fr.flow]])
    BY <1>2 DEF ListFlow, Advance
  <2> QED
    BY <2>1, <2>2, <1>0, ReportGoto
<1>3. CASE KpiBucket(t)
  <2> DEFINE s == IF fr.bucket = LastBucket THEN "rate" ELSE "buckets"
             l == [fr EXCEPT !.bucket = (fr.bucket + 1) % (LastBucket + 1),
                             !.samples = @ + latency_buckets[fr.flow][fr.bucket]]
  <2>1. stage[t] = "buckets" /\ UNCHANGED metrics /\ Goto(t, s, l)
    BY <1>3 DEF KpiBucket
  <2>2. s \in {"rate", "buckets"}
    OBVIOUS
  <2> HIDE DEF s, l
  <2> QED
    BY <2>1, <2>2, <1>0, ReportGoto
<1>4. CASE KpiRate(t)
  <2>1. stage[t] = "rate" /\ UNCHANGED metrics
    BY <1>4 DEF KpiRate
  <2>2. ASSUME NEW p, Rated(t, p) PROVE Goal
    <3> DEFINE a == [fr EXCEPT !.flow = @ + 1, !.samples = 0,
                               !.flows = @ \cup {fr.flow}]
               b == [fr EXCEPT !.percent = p]
    <3>1. Goto(t, "list", a) \/ Goto(t, "rated", b)
      BY <2>2 DEF Rated
    <3> HIDE DEF a, b
    <3> QED
      BY <2>1, <3>1, <1>0, ReportGoto
  <2>3. CASE Goto(t, "trapped", fr)
    BY <2>1, <2>3, <1>0, ReportGoto
  <2> HIDE DEF Goal
  <2> QED
    BY <1>4, <2>2, <2>3 DEF KpiRate
<1>5. CASE ServiceWindow(t)
  <2> DEFINE l == [fr EXCEPT !.packets = @ + packet_count[fr.flow]]
  <2>1. stage[t] = "window" /\ UNCHANGED metrics
    BY <1>5 DEF ServiceWindow
  <2>2. Goto(t, "window", next) \/ Goto(t, "losses", l)
    BY <1>5 DEF ServiceWindow, Advance
  <2> HIDE DEF l, next
  <2> QED
    BY <2>1, <2>2, <1>0, ReportGoto
<1>6. CASE ServiceLosses(t)
  <2> DEFINE l == [fr EXCEPT !.flow = @ + 1, !.losses = @ + loss_count[fr.flow],
                             !.flows = @ \cup {fr.flow}]
  <2>1. stage[t] = "losses" /\ UNCHANGED metrics /\ Goto(t, "window", l)
    BY <1>6 DEF ServiceLosses
  <2> HIDE DEF l
  <2> QED
    BY <2>1, <1>0, ReportGoto
<1>7. CASE ServiceRate(t)
  <2> DEFINE l == [fr EXCEPT !.percent = IF fr.packets = 0 THEN -1
                                         ELSE (fr.losses * 100) \div fr.packets]
  <2>1. stage[t] = "window" /\ UNCHANGED metrics /\ Goto(t, "rated", l)
    BY <1>7 DEF ServiceRate
  <2> HIDE DEF l
  <2> QED
    BY <2>1, <1>0, ReportGoto
<1>8. CASE TelemetryFlow(t)
  <2> DEFINE l == [fr EXCEPT !.flow = @ + Interval(fr.limit),
                             !.flows = IF active[fr.flow] THEN @ \cup {fr.flow} ELSE @]
  <2>1. stage[t] = "sample" /\ UNCHANGED metrics
    BY <1>8 DEF TelemetryFlow
  <2>2. Goto(t, "sampled", fr) \/ Goto(t, "sample", l)
    BY <1>8 DEF TelemetryFlow
  <2> HIDE DEF l
  <2> QED
    BY <2>1, <2>2, <1>0, ReportGoto
<1>9. CASE FlushLoad(t) \/ FlushEnd(t)
  <2>1. stage[t] = "age" /\ UNCHANGED metrics
    BY <1>9 DEF FlushLoad, FlushEnd
  <2>2. Goto(t, "drop", fr) \/ Goto(t, "age", next) \/ Goto(t, "flushed", fr)
    BY <1>9 DEF FlushLoad, FlushEnd, Advance
  <2> HIDE DEF next
  <2> QED
    BY <2>1, <2>2, <1>0, ReportGoto
<1>10. CASE FlushDrop(t)
  <2> DEFINE l == Collected(fr, fr.flow + 1, fr.flows \cup {fr.flow})
  <2>1. /\ stage[t] = "drop" /\ Goto(t, "age", l)
        /\ UNCHANGED <<packet_count, loss_count, latency_buckets, last_update_ns>>
    BY <1>10, FlushDropFacts
  <2> HIDE DEF l
  <2>2. Step(t) /\ stage'[t] = "age"
    BY <2>1, <1>0, GotoStep, GotoFacts
  <2> QED
    BY <2>1, <2>2, <1>0
<1>11. CASE Return(t)
  <2>1. UNCHANGED metrics /\ stage[t] \notin RecordStages /\ Leave(t)
    BY <1>11 DEF Return, RecordStages
  <2>2. Step(t) /\ stage'[t] = "idle"
    BY <2>1, LeaveStep, LeaveFacts
  <2> QED
    BY <2>1, <2>2 DEF RecordStages, metrics
<1> HIDE DEF Goal
<1> QED
  BY <1>1, <1>2, <1>3, <1>4, <1>5, <1>6, <1>7, <1>8, <1>9, <1>10, <1>11 DEF Report

-----------------------------------------------------------------------------
(* The counters of a flow *)

RecordingSet(f) == {t \in Threads : Recording(t, f)}

\* Calls that have counted their loss and not their latency.
LateLosses(f) ==
  {t \in Threads : stage[t] = "bucket" /\ frame[t].flow = f /\ frame[t].lost}

Histogram(f) == SumFunctionOnSet(latency_buckets[f], Buckets)

\* The packets of a flow are those in its histogram and one per open call; a
\* loss is counted while its packet is in the histogram or its call is about
\* to put it there.
FlowCounts(f) ==
  /\ IsFiniteSet(RecordingSet(f))
  /\ packet_count[f] = Histogram(f) + Cardinality(RecordingSet(f))
  /\ loss_count[f] <= Histogram(f) + Cardinality(LateLosses(f))
  /\ packet_count[f] <= MaxSamples

\* No stamp is later than the clock.
Clocked ==
  /\ now <= MaxClock
  /\ \A f \in Flows : last_update_ns[f] <= now
  /\ \A t \in Threads : stage[t] = "stamp" => frame[t].at <= now

Counts == Typed /\ Clocked /\ \A f \in Flows : FlowCounts(f)

\* The sums and cardinalities involved are numbers.
LEMMA CountFacts ==
  ASSUME Counts, NEW f \in Flows
  PROVE  /\ FlowCounts(f) /\ Histogram(f) \in Nat
         /\ packet_count[f] \in Nat /\ loss_count[f] \in Nat
         /\ IsFiniteSet(LateLosses(f)) /\ LateLosses(f) \subseteq RecordingSet(f)
         /\ Cardinality(LateLosses(f)) \in Nat
         /\ Cardinality(RecordingSet(f)) \in Nat
         /\ Cardinality(LateLosses(f)) <= Cardinality(RecordingSet(f))
<1>1. FlowCounts(f) /\ IsFiniteSet(RecordingSet(f))
  BY DEF Counts, FlowCounts
<1>2. LateLosses(f) \subseteq RecordingSet(f)
  BY DEF LateLosses, RecordingSet, Recording
<1>3. IsFiniteSet(Buckets)
  BY Sizes, FS_Interval DEF Buckets
<1>4. latency_buckets[f] \in [Buckets -> Nat] /\ packet_count[f] \in Nat
        /\ loss_count[f] \in Nat
  BY DEF Counts, Typed, TypeOK
<1>5. Histogram(f) \in Nat
  <2>1. \A b \in Buckets : latency_buckets[f][b] \in Nat
    BY <1>4
  <2> QED
    BY <1>3, <2>1, SumRemove DEF Histogram
<1> QED
  BY <1>1, <1>2, <1>4, <1>5, FS_Subset, FS_CardinalityType

\* The counters of every flow agree.
LEMMA CountsAgree == Counts => CountersAgree
<1> SUFFICES ASSUME Counts, NEW f \in Flows
             PROVE  /\ loss_count[f] <= packet_count[f]
                    /\ packet_count[f] = SumFunction(latency_buckets[f])
                         + Cardinality({t \in Threads : Recording(t, f)})
  BY DEF CountersAgree
<1>1. DOMAIN latency_buckets[f] = Buckets
  BY DEF Counts, Typed, TypeOK
<1>2. SumFunction(latency_buckets[f]) = Histogram(f)
  BY <1>1 DEF SumFunction, Histogram
<1> QED
  BY <1>2, CountFacts DEF FlowCounts, RecordingSet

\* Nothing is counted at first.
LEMMA InitCounts == Init => Counts
<1> SUFFICES ASSUME Init PROVE Counts
  OBVIOUS
<1>1. Typed
  BY InitTyped
<1>2. Clocked
  BY Sizes DEF Init, Clocked
<1>3. ASSUME NEW f \in Flows PROVE FlowCounts(f)
  <2>1. RecordingSet(f) = {} /\ LateLosses(f) = {}
    BY DEF Init, RecordingSet, LateLosses, Recording
  <2>3. Histogram(f) = 0
    <3>1. IsFiniteSet(Buckets)
      BY Sizes, FS_Interval DEF Buckets
    <3>2. \A b \in Buckets : latency_buckets[f][b] = 0
      BY DEF Init
    <3> QED
      BY <3>1, <3>2, SumZero DEF Histogram
  <2>4. packet_count[f] = 0 /\ loss_count[f] = 0
    BY DEF Init
  <2> QED
    BY <2>1, <2>3, <2>4, FS_EmptySet, Sizes DEF FlowCounts
<1> QED
  BY <1>1, <1>2, <1>3 DEF Counts

-----------------------------------------------------------------------------
(* The steps of record_sample keep the counts *)

\* The open calls of a flow are the same but for the thread that moves.
LEMMA OthersCalls ==
  ASSUME NEW t \in Threads, NEW f \in Flows, Counts,
         \A u \in Threads : u # t => stage'[u] = stage[u] /\ frame'[u] = frame[u]
  PROVE  /\ RecordingSet(f)' \ {t} = RecordingSet(f) \ {t}
         /\ LateLosses(f)' \ {t} = LateLosses(f) \ {t}
         /\ IsFiniteSet(RecordingSet(f)) /\ IsFiniteSet(LateLosses(f))
         /\ t \in RecordingSet(f) <=> stage[t] \in RecordStages /\ frame[t].flow = f
         /\ t \in RecordingSet(f)' <=> stage'[t] \in RecordStages /\ frame'[t].flow = f
         /\ t \in LateLosses(f) <=>
              stage[t] = "bucket" /\ frame[t].flow = f /\ frame[t].lost
         /\ t \in LateLosses(f)' <=>
              stage'[t] = "bucket" /\ frame'[t].flow = f /\ frame'[t].lost
<1>1. IsFiniteSet(RecordingSet(f)) /\ IsFiniteSet(LateLosses(f))
  BY CountFacts DEF FlowCounts
<1> QED
  BY <1>1 DEF RecordingSet, LateLosses, Recording, RecordStages

\* A step that leaves the counters and the open calls of a flow as they are.
LEMMA SameCounts ==
  ASSUME Counts, NEW t \in Threads, NEW f \in Flows,
         \A u \in Threads : u # t => stage'[u] = stage[u] /\ frame'[u] = frame[u],
         stage[t] \in RecordStages /\ frame[t].flow = f <=>
           stage'[t] \in RecordStages /\ frame'[t].flow = f,
         stage[t] = "bucket" /\ frame[t].flow = f /\ frame[t].lost <=>
           stage'[t] = "bucket" /\ frame'[t].flow = f /\ frame'[t].lost,
         packet_count'[f] = packet_count[f], loss_count'[f] = loss_count[f],
         latency_buckets'[f] = latency_buckets[f]
  PROVE  FlowCounts(f)'
<1> DEFINE S == RecordingSet(f)
           L == LateLosses(f)
<1>1. /\ S' \ {t} = S \ {t} /\ L' \ {t} = L \ {t}
      /\ IsFiniteSet(S) /\ IsFiniteSet(L)
      /\ (t \in S <=> t \in S') /\ (t \in L <=> t \in L')
  BY OthersCalls
<1>2. FlowCounts(f)
  BY CountFacts
<1> HIDE DEF S, L
<1>3. S' = S /\ L' = L
  BY <1>1
<1> QED
  BY <1>1, <1>2, <1>3 DEF FlowCounts, Histogram, S, L

\* A packet is counted, and its call is open.
LEMMA RecordPacketCounts ==
  ASSUME Counts, NEW t \in Threads, RecordPacket(t)
  PROVE  Clocked' /\ \A f \in Flows : FlowCounts(f)'
<1>1. PICK f \in Flows, b \in Buckets, lost \in BOOLEAN :
        /\ Enter(t, "bytes", [NoFrame EXCEPT !.flow = f, !.bucket = b, !.lost = lost])
        /\ packet_count' = Plus(packet_count, f)
  BY DEF RecordPacket
<1> DEFINE l == [NoFrame EXCEPT !.flow = f, !.bucket = b, !.lost = lost]
<1>2. l.flow = f
  BY DEF NoFrame
<1>3. Enter(t, "bytes", l) /\ Typed
  BY <1>1 DEF Counts
<1> HIDE DEF l
<1>4. /\ stage[t] = "idle" /\ stage'[t] = "bytes" /\ frame'[t] = l
      /\ \A u \in Threads : u # t => stage'[u] = stage[u] /\ frame'[u] = frame[u]
  BY <1>3, EnterFacts
<1>5. UNCHANGED <<now, loss_count, latency_buckets, last_update_ns>>
  BY DEF RecordPacket
<1>6. Clocked'
  BY <1>4, <1>5 DEF Counts, Clocked
<1>7. /\ packet_count \in [Flows -> Nat]
      /\ packet_count' \in [Flows -> Nat]
      /\ packet_count'[f] = packet_count[f] + 1
      /\ \A g \in Flows : g # f => packet_count'[g] = packet_count[g]
  BY <1>1, <1>3, PlusFacts DEF Typed, TypeOK
<1>8. ASSUME NEW g \in Flows, g # f PROVE FlowCounts(g)'
  <2>1. stage[t] \notin RecordStages /\ stage'[t] # "bucket" /\ stage[t] # "bucket"
    BY <1>4 DEF RecordStages
  <2>2. frame'[t].flow # g
    BY <1>2, <1>4, <1>8
  <2> QED
    BY <1>4, <1>5, <1>7, <1>8, <2>1, <2>2, SameCounts
<1>9. FlowCounts(f)'
  <2> DEFINE S == RecordingSet(f)
             L == LateLosses(f)
  <2>1. /\ S' \ {t} = S \ {t} /\ L' \ {t} = L \ {t}
        /\ IsFiniteSet(S) /\ IsFiniteSet(L)
        /\ t \notin S /\ t \in S' /\ t \notin L /\ t \notin L'
    BY <1>2, <1>4, OthersCalls DEF RecordStages
  <2>2. /\ packet_count[f] = Histogram(f) + Cardinality(S)
        /\ loss_count[f] <= Histogram(f) + Cardinality(L)
        /\ Histogram(f) \in Nat /\ Cardinality(S) \in Nat /\ packet_count[f] \in Nat
    BY CountFacts DEF FlowCounts
  <2> HIDE DEF S, L
  <2>3. IsFiniteSet(S') /\ Cardinality(S') = Cardinality(S) + 1 /\ L' = L
    BY <2>1, OneApart
  <2>4. Histogram(f)' = Histogram(f)
    BY <1>5 DEF Histogram
  <2>5. packet_count[f] < MaxSamples
    <3>1. SumFunction(packet_count) < MaxSamples
      BY DEF RecordPacket
    <3>2. SumFunction(packet_count) = SumFunctionOnSet(packet_count, Flows)
      BY <1>7 DEF SumFunction
    <3>3. \A g \in Flows : packet_count[g] \in Nat
      BY <1>7
    <3>4. IsFiniteSet(Flows) /\ IsFiniteSet(Flows \ {f})
      BY FlowsFinite, FS_RemoveElement
    <3>5. /\ SumFunctionOnSet(packet_count, Flows)
               = packet_count[f] + SumFunctionOnSet(packet_count, Flows \ {f})
          /\ SumFunctionOnSet(packet_count, Flows \ {f}) \in Nat
      <4>1. \A g \in Flows \ {f} : packet_count[g] \in Nat
        BY <3>3
      <4> QED
        BY <3>3, <3>4, <4>1, SumRemove
    <3> HIDE DEF L
    <3> QED
      BY ONLY <3>1, <3>2, <3>5, <2>2, Sizes
  <2>6. packet_count'[f] <= MaxSamples
    BY ONLY <1>7, <2>5, <2>2, Sizes
  <2>7. packet_count'[f] = Histogram(f)' + Cardinality(S')
    BY ONLY <1>7, <2>2, <2>3, <2>4
  <2>8. loss_count'[f] <= Histogram(f)' + Cardinality(L')
    BY <1>5, <2>2, <2>3, <2>4
  <2> QED
    BY <2>3, <2>6, <2>7, <2>8 DEF FlowCounts, S, L
<1> QED
  BY <1>6, <1>8, <1>9

\* The clock is read.
LEMMA RecordClockCounts ==
  ASSUME Counts, NEW t \in Threads, RecordClock(t)
  PROVE  Clocked' /\ \A f \in Flows : FlowCounts(f)'
<1> DEFINE l == [frame[t] EXCEPT !.at = now]
<1>1. /\ stage[t] = "bytes" /\ Goto(t, "stamp", l) /\ Typed
      /\ UNCHANGED <<now, packet_count, loss_count, latency_buckets, last_update_ns>>
  BY DEF RecordClock, Counts, metrics
<1>2. l.flow = frame[t].flow /\ l.at = now /\ now \in Nat
  BY <1>1, FrameType DEF Frames, Typed, TypeOK
<1> HIDE DEF l
<1>3. /\ stage'[t] = "stamp" /\ frame'[t] = l
      /\ \A u \in Threads : u # t => stage'[u] = stage[u] /\ frame'[u] = frame[u]
  BY <1>1, GotoFacts
<1>4. Clocked'
  BY <1>1, <1>2, <1>3 DEF Counts, Clocked
<1>5. ASSUME NEW f \in Flows PROVE FlowCounts(f)'
  <2>1. stage[t] \in RecordStages /\ stage'[t] \in RecordStages
        /\ stage[t] # "bucket" /\ stage'[t] # "bucket" /\ frame'[t].flow = frame[t].flow
    BY <1>1, <1>2, <1>3 DEF RecordStages
  <2> QED
    BY <1>1, <1>3, <2>1, SameCounts
<1> QED
  BY <1>4, <1>5

\* The time read is stored.
LEMMA RecordStampCounts ==
  ASSUME Counts, NEW t \in Threads, RecordStamp(t)
  PROVE  Clocked' /\ \A f \in Flows : FlowCounts(f)'
<1> DEFINE s == IF frame[t].lost THEN "loss" ELSE "bucket"
<1>1. /\ stage[t] = "stamp" /\ Goto(t, s, frame[t]) /\ Typed
      /\ last_update_ns' = [last_update_ns EXCEPT ![frame[t].flow] = frame[t].at]
      /\ UNCHANGED <<now, packet_count, loss_count, latency_buckets>>
  BY DEF RecordStamp, Counts
<1>2. s \in {"loss", "bucket"} /\ (s = "bucket" => ~frame[t].lost)
  OBVIOUS
<1> HIDE DEF s
<1>3. /\ stage'[t] = s /\ frame'[t] = frame[t]
      /\ \A u \in Threads : u # t => stage'[u] = stage[u] /\ frame'[u] = frame[u]
  BY <1>1, GotoFacts
<1>4. Clocked'
  <2>1. last_update_ns \in [Flows -> Nat]
    BY <1>1 DEF Typed, TypeOK
  <2>2. Clocked
    BY DEF Counts
  <2>3. \A f \in Flows : last_update_ns'[f] <= now
    BY <1>1, <2>1, <2>2 DEF Clocked
  <2>4. stage'[t] # "stamp"
    BY <1>2, <1>3
  <2> QED
    BY <1>1, <1>3, <2>2, <2>3, <2>4 DEF Clocked
<1>5. ASSUME NEW f \in Flows PROVE FlowCounts(f)'
  <2>1. stage[t] \in RecordStages /\ stage'[t] \in RecordStages /\ stage[t] # "bucket"
        /\ (stage'[t] = "bucket" => ~frame[t].lost)
    BY <1>1, <1>2, <1>3 DEF RecordStages
  <2> QED
    BY <1>1, <1>3, <2>1, SameCounts
<1> QED
  BY <1>4, <1>5

\* A loss is counted before its packet is in the histogram.
LEMMA RecordLossCounts ==
  ASSUME Counts, NEW t \in Threads, RecordLoss(t)
  PROVE  Clocked' /\ \A f \in Flows : FlowCounts(f)'
<1>0. PICK f \in Flows : f = frame[t].flow
  BY FrameType DEF RecordLoss, Counts, Shaped, AtFlow
<1>1. /\ stage[t] = "loss" /\ Goto(t, "bucket", frame[t]) /\ Typed
      /\ loss_count' = Plus(loss_count, f)
      /\ UNCHANGED <<now, packet_count, latency_buckets, last_update_ns>>
  BY <1>0 DEF RecordLoss, Counts
<1>2. frame[t].lost
  BY <1>1, FrameType DEF Shaped, AtFlow
<1>3. /\ stage'[t] = "bucket" /\ frame'[t] = frame[t]
      /\ \A u \in Threads : u # t => stage'[u] = stage[u] /\ frame'[u] = frame[u]
  BY <1>1, GotoFacts
<1>4. Clocked'
  BY <1>1, <1>3 DEF Counts, Clocked
<1>5. /\ loss_count \in [Flows -> Nat] /\ loss_count'[f] = loss_count[f] + 1
      /\ \A g \in Flows : g # f => loss_count'[g] = loss_count[g]
  BY <1>1, <1>2, PlusFacts DEF Typed, TypeOK
<1>6. ASSUME NEW g \in Flows, g # f PROVE FlowCounts(g)'
  <2>1. stage[t] \in RecordStages /\ stage'[t] \in RecordStages /\ frame[t].flow # g
    BY <1>0, <1>1, <1>3, <1>6 DEF RecordStages
  <2> QED
    BY <1>1, <1>3, <1>5, <1>6, <2>1, SameCounts
<1>7. FlowCounts(f)'
  <2> DEFINE S == RecordingSet(f)
             L == LateLosses(f)
  <2>1. /\ S' \ {t} = S \ {t} /\ L' \ {t} = L \ {t}
        /\ IsFiniteSet(S) /\ IsFiniteSet(L)
        /\ t \in S /\ t \in S' /\ t \notin L /\ t \in L'
    <3>1. frame[t].flow = f /\ frame'[t].flow = f
      BY <1>0, <1>3
    <3> QED
      BY <1>1, <1>2, <1>3, <3>1, OthersCalls DEF RecordStages
  <2>2. /\ FlowCounts(f) /\ Histogram(f) \in Nat
        /\ Cardinality(L) \in Nat /\ loss_count[f] \in Nat
    BY <1>2, CountFacts
  <2> HIDE DEF S, L
  <2>3. S' = S /\ Cardinality(L') = Cardinality(L) + 1
    BY <2>1, OneApart
  <2>4. Histogram(f)' = Histogram(f)
    BY <1>1 DEF Histogram
  <2>5. loss_count[f] <= Histogram(f) + Cardinality(L)
    BY <2>2 DEF FlowCounts, L
  <2>6. loss_count'[f] <= Histogram(f) + Cardinality(L')
    BY ONLY <1>5, <2>2, <2>3, <2>5
  <2> QED
    BY <1>1, <2>2, <2>3, <2>4, <2>6 DEF FlowCounts, S, L
<1> QED
  BY <1>4, <1>6, <1>7

\* The packet is in the histogram and its call is over.
LEMMA RecordBucketCounts ==
  ASSUME Counts, NEW t \in Threads, RecordBucket(t)
  PROVE  Clocked' /\ \A f \in Flows : FlowCounts(f)'
<1>0. PICK f \in Flows, b \in Buckets : f = frame[t].flow /\ b = frame[t].bucket
  BY FrameType DEF RecordBucket, Counts, Shaped, AtFlow
<1>1. /\ stage[t] = "bucket" /\ Leave(t) /\ Typed
      /\ latency_buckets' = [latency_buckets EXCEPT ![f][b] = @ + 1]
      /\ UNCHANGED <<now, packet_count, loss_count, last_update_ns>>
  BY <1>0 DEF RecordBucket, Counts
<1>2. /\ stage'[t] = "idle"
      /\ \A u \in Threads : u # t => stage'[u] = stage[u] /\ frame'[u] = frame[u]
  BY <1>1, LeaveFacts
<1>3. Clocked'
  BY <1>1, <1>2 DEF Counts, Clocked
<1>4. latency_buckets \in [Flows -> [Buckets -> Nat]]
  BY <1>1 DEF Typed, TypeOK
<1>5. ASSUME NEW g \in Flows, g # f PROVE FlowCounts(g)'
  <2>1. stage'[t] \notin RecordStages /\ stage'[t] # "bucket" /\ frame[t].flow # g
    BY <1>0, <1>2, <1>5 DEF RecordStages
  <2>2. latency_buckets'[g] = latency_buckets[g]
    BY <1>1, <1>4, <1>5
  <2> QED
    BY <1>1, <1>2, <2>1, <2>2, SameCounts
<1>6. FlowCounts(f)'
  <2> DEFINE S == RecordingSet(f)
             L == LateLosses(f)
  <2>1. /\ S' \ {t} = S \ {t} /\ L' \ {t} = L \ {t}
        /\ IsFiniteSet(S) /\ IsFiniteSet(L)
        /\ t \in S /\ t \notin S' /\ t \notin L'
    BY <1>0, <1>1, <1>2, OthersCalls DEF RecordStages
  <2>2. /\ FlowCounts(f) /\ Histogram(f) \in Nat
        /\ Cardinality(L) \in Nat /\ Cardinality(S) \in Nat
        /\ loss_count[f] \in Nat /\ packet_count[f] \in Nat
    BY CountFacts
  <2> HIDE DEF S, L
  <2>3. /\ IsFiniteSet(S') /\ Cardinality(S') = Cardinality(S) - 1
        /\ IsFiniteSet(L')
        /\ Cardinality(L') = Cardinality(L) \/ Cardinality(L') = Cardinality(L) - 1
    BY <2>1, OneApart
  <2>4. Histogram(f)' = Histogram(f) + 1
    <3> DEFINE h == latency_buckets[f]
               k == latency_buckets'[f]
    <3>1. /\ \A c \in Buckets : h[c] \in Nat /\ k[c] \in Nat
          /\ \A c \in Buckets : c # b => k[c] = h[c]
          /\ k[b] = h[b] + 1
      BY <1>1, <1>4
    <3>2. Histogram(f) = SumFunctionOnSet(h, Buckets)
          /\ Histogram(f)' = SumFunctionOnSet(k, Buckets)
      BY DEF Histogram
    <3>3. IsFiniteSet(Buckets)
      BY Sizes, FS_Interval DEF Buckets
    <3> HIDE DEF h, k
    <3>4. SumFunctionOnSet(k, Buckets) = SumFunctionOnSet(h, Buckets) + k[b] - h[b]
      BY <3>1, <3>3, SumChange
    <3>5. h[b] \in Nat
      BY <3>1
    <3> QED
      BY ONLY <3>1, <3>2, <3>4, <3>5, <2>2
  <2>5. /\ packet_count[f] = Histogram(f) + Cardinality(S)
        /\ loss_count[f] <= Histogram(f) + Cardinality(L)
    BY <2>2 DEF FlowCounts, S, L
  <2>6. /\ packet_count[f] = Histogram(f)' + Cardinality(S')
        /\ loss_count[f] <= Histogram(f)' + Cardinality(L')
    BY ONLY <2>2, <2>3, <2>4, <2>5
  <2> QED
    BY <1>1, <2>2, <2>3, <2>6 DEF FlowCounts, S, L
<1> QED
  BY <1>3, <1>5, <1>6

\* Every step keeps the counts.
LEMMA NextCounts == Counts /\ [Next]_vars => Counts'
<1> SUFFICES ASSUME Counts, [Next]_vars PROVE Counts'
  OBVIOUS
<1>0. Typed' /\ Typed
  BY NextTyped DEF Counts
<1>1. ASSUME NEW t \in Threads, Record(t) PROVE Counts'
  BY <1>0, <1>1, RecordPacketCounts, RecordClockCounts, RecordStampCounts,
     RecordLossCounts, RecordBucketCounts DEF Record, Counts
<1>2. ASSUME NEW t \in Threads, Report(t) PROVE Counts'
  <2>1. /\ Step(t) /\ stage[t] \notin RecordStages /\ stage'[t] \notin RecordStages
        /\ UNCHANGED <<now, packet_count, loss_count, latency_buckets, last_update_ns>>
    BY <1>0, <1>2, ReportStep
  <2>2. \A u \in Threads : u # t => stage'[u] = stage[u] /\ frame'[u] = frame[u]
    BY <2>1 DEF Step
  <2>3. stage'[t] # "stamp" /\ stage[t] # "bucket" /\ stage'[t] # "bucket"
    BY <2>1 DEF RecordStages
  <2>4. Clocked'
    BY <2>1, <2>2, <2>3 DEF Counts, Clocked
  <2>5. ASSUME NEW f \in Flows PROVE FlowCounts(f)'
    BY <2>1, <2>2, <2>3, SameCounts
  <2> QED
    BY <1>0, <2>4, <2>5 DEF Counts
<1>3. CASE UNCHANGED <<metrics, stage, frame>> /\ now' \in now..MaxClock
  <2>1. UNCHANGED <<packet_count, loss_count, latency_buckets, last_update_ns, stage,
                    frame>>
    BY <1>3 DEF metrics
  <2>2. ASSUME NEW f \in Flows PROVE FlowCounts(f)'
    BY <2>1, CountFacts DEF FlowCounts, Histogram, RecordingSet, LateLosses, Recording
  <2>3. Clocked'
    <3>1. now \in Nat /\ now' \in Nat /\ now <= now' /\ now' <= MaxClock
      BY <1>0, <1>3, Sizes DEF Typed, TypeOK
    <3>2. \A f \in Flows : last_update_ns[f] \in Nat
      BY <1>0 DEF Typed, TypeOK
    <3>3. \A t \in Threads : frame[t].at \in Nat
      BY <1>0, FrameType
    <3> QED
      BY <2>1, <3>1, <3>2, <3>3 DEF Counts, Clocked
  <2> QED
    BY <1>0, <2>2, <2>3 DEF Counts
<1>4. CASE Tick
  <2>1. now \in Nat /\ now < MaxClock /\ now' = now + 1
    BY <1>0, <1>4 DEF Tick, Typed, TypeOK
  <2> QED
    BY <1>3, <1>4, <2>1, Sizes DEF Tick
<1>5. CASE UNCHANGED vars
  <2>1. now \in Nat /\ now <= MaxClock
    BY <1>0 DEF Counts, Clocked, Typed, TypeOK
  <2> QED
    BY <1>3, <1>5, <2>1, Sizes DEF vars
<1> QED
  BY <1>1, <1>2, <1>4, <1>5 DEF Next, Threads

\* At every moment, also in the middle of concurrent calls of record_sample, a
\* flow has lost no more packets than it counted, and its histogram lacks
\* exactly the packets of the open calls.
THEOREM CountersAlwaysAgree == Spec => []CountersAgree
<1>1. Init => Counts
  BY InitCounts
<1>2. Counts /\ [Next]_vars => Counts'
  BY NextCounts
<1>3. Counts => CountersAgree
  BY CountsAgree
<1> QED
  BY <1>1, <1>2, <1>3, PTL DEF Spec

-----------------------------------------------------------------------------
(* What an open report has collected, as long as no writer was under way *)

ActiveBelow(n) == {f \in Flows : f < n /\ active[f]}

\* The flows listed so far are the active ones among those looked at.
Listing(t) ==
  /\ stage[t] \in {"list", "buckets", "rate"} /\ frame[t].all =>
       frame[t].flows = ActiveBelow(frame[t].flow)
  /\ stage[t] \in {"buckets", "rate"} /\ frame[t].all => active[frame[t].flow]
  /\ stage[t] = "listed" => frame[t].flows = ActiveBelow(MaxFlows)

\* Where there is room for all, no active flow has been left out.
Sampling(t) ==
  /\ stage[t] = "sample" /\ frame[t].limit >= MaxFlows =>
       frame[t].flows = ActiveBelow(frame[t].flow)
  /\ stage[t] = "sampled" /\ frame[t].limit >= MaxFlows =>
       frame[t].flows = ActiveBelow(MaxFlows)

IdleBelow(t, n) ==
  {f \in Flows : f < n /\ frame[t].at - last_update_ns[f] > frame[t].limit}

\* The flows dropped so far are the idle ones among those looked at; none was
\* updated after the flush read the clock.
Flushing(t) ==
  /\ stage[t] \in {"age", "drop"} =>
       /\ frame[t].at <= MaxClock
       /\ \A f \in Flows : last_update_ns[f] <= frame[t].at
       /\ frame[t].flows = IdleBelow(t, frame[t].flow)
  /\ stage[t] = "drop" =>
       frame[t].at - last_update_ns[frame[t].flow] > frame[t].limit
  /\ stage[t] = "flushed" => frame[t].flows = IdleBelow(t, MaxFlows)

\* p is the rate of losses among packets, rounded down.
IsRate(p, losses, packets) ==
  p * packets <= 100 * losses /\ 100 * losses < (p + 1) * packets

\* What has been loaded is what the counters of the flows add up to.
Rating(t) ==
  /\ stage[t] \in {"buckets", "rate"} /\ ~frame[t].all =>
       frame[t].packets = packet_count[frame[t].flow]
  /\ stage[t] \in {"window", "losses"} =>
       /\ \A f \in frame[t].flows : f < frame[t].flow
       /\ frame[t].losses = SumFunctionOnSet(loss_count, frame[t].flows)
       /\ frame[t].packets = SumFunctionOnSet(packet_count, frame[t].flows)
            + (IF stage[t] = "losses" THEN packet_count[frame[t].flow] ELSE 0)
  /\ stage[t] = "rated" /\ frame[t].percent # -1 /\ ~Wraps(t) =>
       IsRate(frame[t].percent, SumFunctionOnSet(loss_count, Scope(t)),
              SumFunctionOnSet(packet_count, Scope(t)))

\* The clock has not wrapped.
ClockFits == MaxClock < ClockSpace

Content(t) ==
  /\ Listing(t) /\ Sampling(t) /\ Rating(t)
  /\ ClockFits => Flushing(t)

\* A call no writer overlapped with is alone with what it reads.
Quiet(t) == stage[t] # "idle" /\ ~overlapped[t]

Undisturbed(t) ==
  Quiet(t) => /\ \A w \in Threads : w # t => stage[w] \notin Writes
              /\ Content(t)

QuietInv == \A t \in Threads : Undisturbed(t)

\* Each part is about some stages only.
LEMMA Elsewhere ==
  ASSUME NEW t
  PROVE  /\ stage'[t] \notin {"list", "buckets", "rate", "listed"} => Listing(t)'
         /\ stage'[t] \notin {"sample", "sampled"} => Sampling(t)'
         /\ stage'[t] \notin {"age", "drop", "flushed"} => Flushing(t)'
         /\ stage'[t] \notin {"buckets", "rate", "window", "losses", "rated"} => Rating(t)'
BY DEF Listing, Sampling, Flushing, Rating

\* The contents stay while neither the frame nor a metric changes.
LEMMA SameContent ==
  ASSUME NEW t, stage'[t] = stage[t], frame'[t] = frame[t], UNCHANGED metrics, Content(t)
  PROVE  Content(t)'
<1>1. UNCHANGED <<packet_count, loss_count, latency_buckets, last_update_ns, active>>
  BY DEF metrics
<1>2. Listing(t)' /\ Sampling(t)'
  BY <1>1 DEF Content, Listing, Sampling, ActiveBelow
<1>3. ClockFits => Flushing(t)'
  BY <1>1 DEF Content, Flushing, IdleBelow
<1>4. Rating(t)'
  BY <1>1 DEF Content, Rating, Scope, Wraps
<1> QED
  BY <1>2, <1>3, <1>4 DEF Content, ClockFits

\* A step keeps the contents of all if it keeps those of its own thread.
LEMMA OwnContent ==
  ASSUME Typed, Typed', QuietInv, NEW t \in Threads, Step(t),
         (stage[t] # "idle" => Content(t)) => Content(t)'
  PROVE  QuietInv'
<1>1. ASSUME NEW u \in Threads PROVE Undisturbed(u)'
  <2> SUFFICES ASSUME stage'[u] # "idle", ~overlapped'[u]
               PROVE  /\ \A w \in Threads : w # u => stage'[w] \notin Writes
                      /\ Content(u)'
    BY DEF Undisturbed, Quiet
  <2>1. CASE u = t
    <3>1. \A w \in Threads : w # t => stage'[w] = stage[w]
      BY DEF Step
    <3>2. CASE stage[t] = "idle"
      <4>1. \A w \in Threads : stage[w] \notin Writes
        BY <2>1, <3>2 DEF Step
      <4> QED
        BY <2>1, <3>1, <3>2, <4>1
    <3>3. CASE stage[t] # "idle"
      <4>1. overlapped'[t] = overlapped[t]
        BY <2>1, <3>3 DEF Step
      <4>2. Undisturbed(t)
        BY DEF QuietInv
      <4>3. /\ \A w \in Threads : w # t => stage[w] \notin Writes
            /\ Content(t)
        BY <2>1, <3>3, <4>1, <4>2 DEF Undisturbed, Quiet
      <4> QED
        BY <2>1, <3>1, <4>3
    <3> QED
      BY <3>2, <3>3
  <2>2. CASE u # t
    <3>1. stage'[u] = stage[u] /\ frame'[u] = frame[u] /\ ~overlapped[u]
      BY <2>2 DEF Step
    <3>2. Undisturbed(u)
      BY DEF QuietInv
    <3>3. /\ \A w \in Threads : w # u => stage[w] \notin Writes
          /\ Content(u)
      BY <3>1, <3>2 DEF Undisturbed, Quiet
    <3>4. stage[t] \notin Writes
      BY <2>2, <3>3
    <3>5. UNCHANGED metrics /\ stage'[t] \notin Writes
      BY <2>2, <3>1, <3>4 DEF Step
    <3>6. \A w \in Threads : w # u => stage'[w] \notin Writes
      BY <3>3, <3>5 DEF Step
    <3> QED
      BY <3>1, <3>3, <3>5, <3>6, SameContent
  <2> QED
    BY <2>1, <2>2
<1> QED
  BY <1>1 DEF QuietInv

\* No call is open at first.
LEMMA InitQuiet == Init => QuietInv
BY DEF Init, QuietInv, Undisturbed, Quiet

-----------------------------------------------------------------------------
(* The steps of the reports on one flow and on all keep their contents *)

\* The active flows below the next flow.
LEMMA ActiveSteps ==
  ASSUME Typed
  PROVE  /\ ActiveBelow(0) = {}
         /\ \A f \in Flows : active[f] => ActiveBelow(f + 1) = ActiveBelow(f) \cup {f}
         /\ \A f \in Flows : ~active[f] => ActiveBelow(f + 1) = ActiveBelow(f)
         /\ ActiveBelow(MaxFlows) = {f \in Flows : active[f]}
<1>1. \A f \in Flows : f \in Nat /\ f < MaxFlows
  BY Sizes DEF Flows
<1>2. \A f, g \in Flows : g < f + 1 <=> g < f \/ g = f
  BY <1>1
<1>3. \A g \in Flows : ~(g < 0)
  BY <1>1
<1> QED
  BY <1>1, <1>2, <1>3 DEF ActiveBelow

\* get_flow_kpi loads the packets of its flow.
LEMMA FlowKpiContent ==
  ASSUME Typed, NEW t \in Threads, FlowKpi(t)
  PROVE  Content(t)'
<1>1. PICK f \in Flows :
        Enter(t, "buckets", [NoFrame EXCEPT !.flow = f, !.packets = packet_count[f]])
  BY DEF FlowKpi
<1> DEFINE l == [NoFrame EXCEPT !.flow = f, !.packets = packet_count[f]]
<1>2. l.flow = f /\ l.packets = packet_count[f] /\ ~l.all
  BY DEF NoFrame
<1> HIDE DEF l
<1>3. UNCHANGED metrics /\ Enter(t, "buckets", l)
  BY <1>1 DEF FlowKpi, l
<1>4. stage'[t] = "buckets" /\ frame'[t] = l /\ packet_count' = packet_count
  BY <1>3, EnterFacts DEF metrics
<1>5. Listing(t)' /\ Rating(t)'
  BY <1>2, <1>4 DEF Listing, Rating
<1> QED
  BY <1>4, <1>5, Elsewhere DEF Content

\* The list is empty.
LEMMA AllKpisContent ==
  ASSUME Typed, Typed', NEW t \in Threads, AllKpis(t)
  PROVE  Content(t)'
<1> DEFINE l == [NoFrame EXCEPT !.all = TRUE]
<1>1. l.flow = 0 /\ l.flows = {} /\ l.all
  BY DEF NoFrame
<1>2. UNCHANGED metrics /\ Enter(t, "list", l)
  BY DEF AllKpis
<1> HIDE DEF l
<1>3. stage'[t] = "list" /\ frame'[t] = l /\ active' = active
  BY <1>2, EnterFacts DEF metrics
<1>4. ActiveBelow(0)' = {}
  BY <1>3, ActiveSteps DEF ActiveBelow
<1>5. Listing(t)'
  BY <1>1, <1>3, <1>4 DEF Listing, ActiveBelow
<1> QED
  BY <1>3, <1>5, Elsewhere DEF Content

\* A flow that is not active is passed over, an active one is loaded.
LEMMA ListFlowContent ==
  ASSUME Typed, NEW t \in Threads, ListFlow(t), Content(t)
  PROVE  Content(t)'
<1> DEFINE f == frame[t].flow
           l == [frame[t] EXCEPT !.packets = packet_count[f]]
           next == [frame[t] EXCEPT !.flow = @ + 1]
<1>1. /\ stage[t] = "list" /\ frame[t].all /\ f \in 0..MaxFlows
      /\ UNCHANGED <<active, packet_count>>
  BY FrameType DEF ListFlow, Shaped, metrics
<1>2. frame[t].flows = ActiveBelow(f)
  BY <1>1 DEF Content, Listing
<1>3. CASE f = MaxFlows /\ Goto(t, "listed", frame[t])
  <2>1. stage'[t] = "listed" /\ frame'[t] = frame[t]
    BY <1>3, GotoFacts
  <2>2. Listing(t)'
    BY <1>1, <1>2, <1>3, <2>1 DEF Listing, ActiveBelow
  <2> QED
    BY <2>1, <2>2, Elsewhere DEF Content
<1>4. CASE f < MaxFlows /\ ~active[f] /\ Goto(t, "list", next)
  <2>1. next.flow = f + 1 /\ next.flows = frame[t].flows
    BY FrameType DEF Frames
  <2> HIDE DEF next
  <2>2. stage'[t] = "list" /\ frame'[t] = next
    BY <1>4, GotoFacts
  <2>3. f \in Flows
    BY <1>1, <1>4, Sizes DEF Flows
  <2>4. ActiveBelow(f + 1) = ActiveBelow(f)
    BY <1>4, <2>3, ActiveSteps
  <2>5. Listing(t)'
    BY <1>2, <2>1, <2>2, <2>4, <1>1 DEF Listing, ActiveBelow
  <2> QED
    BY <2>2, <2>5, Elsewhere DEF Content
<1>5. CASE f < MaxFlows /\ active[f] /\ Goto(t, "buckets", l)
  <2>1. l.flow = f /\ l.flows = frame[t].flows /\ l.packets = packet_count[f] /\ l.all
    BY <1>1, FrameType DEF Frames
  <2> HIDE DEF l
  <2>2. stage'[t] = "buckets" /\ frame'[t] = l
    BY <1>5, GotoFacts
  <2>3. Listing(t)' /\ Rating(t)'
    BY <1>1, <1>2, <1>5, <2>1, <2>2 DEF Listing, Rating, ActiveBelow
  <2> QED
    BY <2>2, <2>3, Elsewhere DEF Content
<1> QED
  BY <1>3, <1>4, <1>5 DEF ListFlow, Advance

\* A quotient rounded down.
LEMMA Quotient ==
  ASSUME NEW losses \in Nat, NEW packets \in Nat, packets # 0
  PROVE  /\ (losses * 100) \div packets \in Nat
         /\ IsRate((losses * 100) \div packets, losses, packets)
<1> DEFINE a == losses * 100
           q == a \div packets
           m == a % packets
<1>1. a \in Nat /\ q \in Nat /\ m \in Nat /\ m < packets
  OBVIOUS
<1>2. a = packets * q + m
  OBVIOUS
<1>3. a = 100 * losses
  OBVIOUS
<1> HIDE DEF a, q, m
<1>4. q * packets = packets * q /\ (q + 1) * packets = packets * q + packets
  BY <1>1
<1>5. q * packets <= a /\ a < (q + 1) * packets
  BY <1>1, <1>2, <1>4
<1> QED
  BY <1>1, <1>3, <1>5 DEF IsRate, a, q

\* A remainder of what is below the modulus.
LEMMA SmallRemainder ==
  ASSUME NEW a \in Nat, NEW m \in Nat, a < m
  PROVE  a % m = a
OBVIOUS

\* The sum over one element.
LEMMA SumOne ==
  ASSUME NEW f, NEW x, f[x] \in Nat
  PROVE  SumFunctionOnSet(f, {x}) = f[x]
<1>1. SumFunctionOnSet(f, {} \cup {x}) = f[x] + SumFunctionOnSet(f, {})
  BY FS_EmptySet, SumInsert
<1>2. {} \cup {x} = {x}
  OBVIOUS
<1> QED
  BY <1>1, <1>2, SumEmpty

\* The counters of a flow whose call is open.
LEMMA FlowNumbers ==
  ASSUME Counts, NEW f \in Flows
  PROVE  /\ loss_count[f] \in Nat /\ packet_count[f] \in Nat
         /\ loss_count[f] <= packet_count[f] /\ packet_count[f] <= MaxSamples
<1>1. /\ FlowCounts(f) /\ Histogram(f) \in Nat
      /\ packet_count[f] \in Nat /\ loss_count[f] \in Nat
      /\ Cardinality(LateLosses(f)) \in Nat /\ Cardinality(RecordingSet(f)) \in Nat
      /\ Cardinality(LateLosses(f)) <= Cardinality(RecordingSet(f))
  BY CountFacts
<1> QED
  BY <1>1 DEF FlowCounts

\* The buckets change nothing of what has been loaded before.
LEMMA KpiBucketContent ==
  ASSUME Typed, NEW t \in Threads, KpiBucket(t), Content(t)
  PROVE  Content(t)'
<1> DEFINE fr == frame[t]
           s == IF fr.bucket = LastBucket THEN "rate" ELSE "buckets"
           b == (fr.bucket + 1) % (LastBucket + 1)
           n == fr.samples + latency_buckets[fr.flow][fr.bucket]
           l == [fr EXCEPT !.bucket = b, !.samples = n]
<1>1. /\ stage[t] = "buckets" /\ Goto(t, s, l)
      /\ UNCHANGED <<active, packet_count>>
  BY DEF KpiBucket, metrics
<1>2. s \in {"rate", "buckets"}
  OBVIOUS
<1>3. fr \in Frames
  BY FrameType
<1> HIDE DEF s, b, n, fr
<1>4. l.flow = fr.flow /\ l.flows = fr.flows /\ l.all = fr.all /\ l.packets = fr.packets
  BY <1>3 DEF Frames
<1> HIDE DEF l
<1>5. stage'[t] = s /\ frame'[t] = l
  BY <1>1, GotoFacts
<1>6. Listing(t)'
  BY <1>1, <1>2, <1>4, <1>5 DEF Content, Listing, ActiveBelow, fr
<1>7. Rating(t)'
  BY <1>1, <1>2, <1>4, <1>5 DEF Content, Rating, fr
<1> QED
  BY <1>2, <1>5, <1>6, <1>7, Elsewhere DEF Content

\* In the list of all flows the next one follows, and the rate of one flow is
\* that of its counters.
LEMMA RatedContent ==
  ASSUME Counts, NEW t \in Threads, stage[t] = "rate", UNCHANGED metrics, Content(t),
         NEW p \in Nat \cup {-1}, Rated(t, p),
         ~frame[t].all /\ p # -1 /\ 100 * loss_count[frame[t].flow] < WordSpace =>
           IsRate(p, loss_count[frame[t].flow], packet_count[frame[t].flow])
  PROVE  Content(t)'
<1> DEFINE f == frame[t].flow
           next == [frame[t] EXCEPT !.flow = @ + 1, !.samples = 0,
                                    !.flows = @ \cup {frame[t].flow}]
           done == [frame[t] EXCEPT !.percent = p]
<1>1. /\ f \in Flows /\ f \in Nat /\ Typed /\ (~frame[t].all => frame[t].flows = {})
      /\ UNCHANGED <<packet_count, loss_count, active>>
  BY FrameType DEF Counts, Shaped, AtFlow, metrics
<1>2. CASE frame[t].all
  <2>1. Goto(t, "list", next)
    BY <1>2 DEF Rated
  <2>2. next.flow = f + 1 /\ next.flows = frame[t].flows \cup {f}
    BY <1>1, FrameType DEF Frames
  <2> HIDE DEF next
  <2>3. stage'[t] = "list" /\ frame'[t] = next
    BY <1>1, <2>1, GotoFacts
  <2>4. frame[t].flows = ActiveBelow(f) /\ active[f]
    BY <1>2 DEF Content, Listing
  <2>5. ActiveBelow(f + 1) = frame[t].flows \cup {f}
    BY <1>1, <2>4, ActiveSteps
  <2>6. Listing(t)'
    BY <1>1, <2>2, <2>3, <2>5 DEF Listing, ActiveBelow
  <2> QED
    BY <2>3, <2>6, Elsewhere DEF Content
<1>3. CASE ~frame[t].all
  <2>1. Goto(t, "rated", done)
    BY <1>3 DEF Rated
  <2>2. done.percent = p /\ done.flow = f /\ done.flows = {}
    BY <1>1, <1>3, FrameType DEF Frames
  <2> HIDE DEF done
  <2>3. stage'[t] = "rated" /\ frame'[t] = done
    BY <1>1, <2>1, GotoFacts
  <2>4. /\ SumFunctionOnSet(loss_count, {f}) = loss_count[f]
        /\ SumFunctionOnSet(packet_count, {f}) = packet_count[f]
    BY <1>1, FlowNumbers, SumOne
  <2>5. Scope(t)' = {f}
    BY <2>2, <2>3 DEF Scope
  <2>6. ASSUME ~Wraps(t)' PROVE 100 * loss_count[f] < WordSpace
    <3> DEFINE c == loss_count[f]
    <3>1. ~(100 * c >= WordSpace)
      BY <1>1, <2>2, <2>3, <2>6 DEF Wraps
    <3>2. c \in Nat /\ WordSpace \in Nat
      BY <1>1, FlowNumbers, Sizes
    <3> QED
      BY <3>1, <3>2
  <2>7. Rating(t)'
    <3> SUFFICES ASSUME p # -1, ~Wraps(t)'
                 PROVE  IsRate(p, loss_count[f], packet_count[f])
      BY <1>1, <2>2, <2>3, <2>4, <2>5 DEF Rating
    <3> QED
      BY <1>3, <2>6
  <2> QED
    BY <2>3, <2>7, Elsewhere DEF Content
<1> QED
  BY <1>2, <1>3

\* The percentage is that of the packets loaded and the losses of now.
LEMMA KpiRateContent ==
  ASSUME Counts, NEW t \in Threads, KpiRate(t), Content(t)
  PROVE  Content(t)'
<1> DEFINE f == frame[t].flow
           n == frame[t].packets
           p == Percentage(loss_count[f], n)
<1>1. stage[t] = "rate" /\ UNCHANGED metrics /\ Typed
  BY DEF KpiRate, Counts
<1>2. CASE Rated(t, -1)
  BY <1>1, <1>2, RatedContent
<1>3. CASE n # 0 /\ Rated(t, p)
  <2>1. f \in Flows /\ n \in Nat
    BY <1>1, FrameType DEF Shaped, AtFlow
  <2>2. /\ loss_count[f] \in Nat /\ loss_count[f] <= packet_count[f]
        /\ packet_count[f] \in Nat /\ packet_count[f] <= MaxSamples
    BY <2>1, FlowNumbers
  <2>3. p \in Nat
    BY <1>3, <2>1, <2>2, PercentageNat
  <2>4. ASSUME 100 * loss_count[f] < WordSpace, ~frame[t].all
        PROVE  IsRate(p, loss_count[f], packet_count[f])
    <3>1. n = packet_count[f]
      BY <1>1, <2>4 DEF Content, Rating
    <3>2. (loss_count[f] * 100) % WordSpace = loss_count[f] * 100
      <4> DEFINE c == loss_count[f]
      <4>1. c \in Nat /\ c <= MaxSamples
        BY <2>2, Sizes
      <4> HIDE DEF c
      <4>2. c * 100 \in Nat /\ c * 100 < WordSpace
        BY <2>4, <4>1, Sizes DEF c
      <4> QED
        BY <4>2, Sizes, SmallRemainder DEF c
    <3>3. p = (loss_count[f] * 100) \div n
      BY <3>2 DEF Percentage
    <3> QED
      BY <1>3, <2>1, <2>2, <3>1, <3>3, Quotient
  <2> HIDE DEF p
  <2> QED
    BY <1>1, <1>3, <2>3, <2>4, RatedContent
<1>4. CASE Goto(t, "trapped", frame[t])
  <2>1. stage'[t] = "trapped"
    BY <1>1, <1>4, GotoFacts
  <2> QED
    BY <2>1, Elsewhere DEF Content
<1> QED
  BY <1>2, <1>3, <1>4 DEF KpiRate

-----------------------------------------------------------------------------
(* The steps of get_service_kpi keep its sums *)

\* The sums are empty.
LEMMA ServiceKpiContent ==
  ASSUME Typed, NEW t \in Threads, ServiceKpi(t)
  PROVE  Content(t)'
<1>1. PICK window \in Windows :
        Enter(t, "window", [NoFrame EXCEPT !.at = now, !.limit = Minus(now, window)])
  BY DEF ServiceKpi
<1> DEFINE l == [NoFrame EXCEPT !.at = now, !.limit = Minus(now, window)]
<1>2. l.flows = {} /\ l.packets = 0 /\ l.losses = 0
  BY DEF NoFrame
<1>3. Enter(t, "window", l)
  BY <1>1
<1> HIDE DEF l
<1>4. stage'[t] = "window" /\ frame'[t] = l
  BY <1>3, EnterFacts
<1>5. /\ SumFunctionOnSet(loss_count', {}) = 0
      /\ SumFunctionOnSet(packet_count', {}) = 0
  BY SumEmpty
<1>6. Rating(t)'
  BY <1>2, <1>4, <1>5 DEF Rating
<1> QED
  BY <1>4, <1>6, Elsewhere DEF Content

\* A flow outside the window is passed over, another's packets are added.
LEMMA ServiceWindowContent ==
  ASSUME Typed, NEW t \in Threads, ServiceWindow(t), Content(t)
  PROVE  Content(t)'
<1> DEFINE fr == frame[t]
           n == fr.packets + packet_count[fr.flow]
           l == [fr EXCEPT !.packets = n]
           next == [fr EXCEPT !.flow = @ + 1]
<1>1. stage[t] = "window" /\ UNCHANGED <<packet_count, loss_count>>
  BY DEF ServiceWindow, metrics
<1>2. /\ fr.flow \in Nat /\ fr.flows \in SUBSET Flows
      /\ \A f \in fr.flows : f \in Nat
  BY FrameType, Sizes DEF Flows
<1>3. CASE Goto(t, "window", next)
  <2>1. /\ next.flow = fr.flow + 1 /\ next.flows = fr.flows
        /\ next.losses = fr.losses /\ next.packets = fr.packets
    BY FrameType DEF Frames
  <2> HIDE DEF next
  <2>2. stage'[t] = "window" /\ frame'[t] = next
    BY <1>3, GotoFacts
  <2>3. Rating(t)'
    <3>1. /\ \A f \in fr.flows : f < fr.flow
          /\ fr.losses = SumFunctionOnSet(loss_count, fr.flows)
          /\ fr.packets = SumFunctionOnSet(packet_count, fr.flows) + 0
      BY <1>1 DEF Content, Rating
    <3>2. \A f \in fr.flows : f < fr.flow + 1
      BY <1>2, <3>1
    <3> HIDE DEF fr
    <3> QED
      BY <1>1, <2>1, <2>2, <3>1, <3>2 DEF Rating
  <2> QED
    BY <2>2, <2>3, Elsewhere DEF Content
<1>4. CASE Goto(t, "losses", l)
  <2>1. /\ l.flow = fr.flow /\ l.flows = fr.flows
        /\ l.losses = fr.losses /\ l.packets = n
    BY FrameType DEF Frames
  <2> HIDE DEF l
  <2>2. stage'[t] = "losses" /\ frame'[t] = l
    BY <1>4, GotoFacts
  <2>3. Rating(t)'
    <3>1. /\ \A f \in fr.flows : f < fr.flow
          /\ fr.losses = SumFunctionOnSet(loss_count, fr.flows)
          /\ fr.packets = SumFunctionOnSet(packet_count, fr.flows) + 0
      BY <1>1 DEF Content, Rating
    <3>2. fr.packets = SumFunctionOnSet(packet_count, fr.flows)
      <4>1. SumFunctionOnSet(packet_count, fr.flows) \in Nat
        BY <1>2, FlowsFinite, SumRemove DEF Typed, TypeOK
      <4> QED
        BY <3>1, <4>1
    <3>3. n = SumFunctionOnSet(packet_count, fr.flows) + packet_count[fr.flow]
      BY <3>2
    <3> HIDE DEF fr, n
    <3> QED
      BY <1>1, <2>1, <2>2, <3>1, <3>3 DEF Rating
  <2> QED
    BY <2>2, <2>3, Elsewhere DEF Content
<1> QED
  BY <1>3, <1>4 DEF ServiceWindow, Advance

\* The losses of the same flow are added.
LEMMA ServiceLossesContent ==
  ASSUME Counts, NEW t \in Threads, ServiceLosses(t), Content(t)
  PROVE  Content(t)'
<1> DEFINE fr == frame[t]
           f == fr.flow
           F == fr.flows
           m == fr.losses + loss_count[f]
           l == [fr EXCEPT !.flow = @ + 1, !.losses = @ + loss_count[f],
                           !.flows = @ \cup {f}]
<1>1. /\ stage[t] = "losses" /\ Goto(t, "window", l) /\ Typed
      /\ UNCHANGED <<packet_count, loss_count>>
  BY DEF ServiceLosses, metrics, Counts
<1>2. /\ f \in Flows /\ f \in Nat /\ F \in SUBSET Flows /\ IsFiniteSet(F)
      /\ \A g \in F : g \in Nat
  BY <1>1, FrameType, FlowsFinite, Sizes DEF Shaped, AtFlow, Flows
<1>3. l.flow = f + 1 /\ l.flows = F \cup {f} /\ l.losses = m /\ l.packets = fr.packets
  BY <1>1, FrameType DEF Frames
<1> HIDE DEF l
<1>4. stage'[t] = "window" /\ frame'[t] = l
  BY <1>1, GotoFacts
<1>5. Rating(t)'
  <2>1. /\ \A g \in F : g < f
        /\ fr.losses = SumFunctionOnSet(loss_count, F)
        /\ fr.packets = SumFunctionOnSet(packet_count, F) + packet_count[f]
    BY <1>1 DEF Content, Rating
  <2>2. \A g \in Flows : loss_count[g] \in Nat /\ packet_count[g] \in Nat
    BY FlowNumbers
  <2> HIDE DEF m, fr
  <2> HIDE DEF f, F
  <2>3. f \notin F /\ \A g \in F \cup {f} : g < f + 1
    BY <1>2, <2>1
  <2>4. /\ SumFunctionOnSet(loss_count, F \cup {f})
             = loss_count[f] + SumFunctionOnSet(loss_count, F)
        /\ SumFunctionOnSet(packet_count, F \cup {f})
             = packet_count[f] + SumFunctionOnSet(packet_count, F)
    BY <1>2, <2>2, <2>3, SumInsert
  <2>5. /\ SumFunctionOnSet(loss_count, F) \in Nat
        /\ SumFunctionOnSet(packet_count, F) \in Nat
    BY <1>2, <2>2, SumRemove
  <2>6. loss_count[f] \in Nat /\ packet_count[f] \in Nat
    BY <1>2, <2>2
  <2>7. m = SumFunctionOnSet(loss_count, F \cup {f})
    <3>1. m = SumFunctionOnSet(loss_count, F) + loss_count[f]
      BY <2>1 DEF m
    <3> QED
      BY <2>4, <2>5, <2>6, <3>1
  <2>8. fr.packets = SumFunctionOnSet(packet_count, F \cup {f}) + 0
    BY <2>1, <2>4, <2>5, <2>6
  <2> QED
    BY <1>1, <1>3, <1>4, <2>3, <2>7, <2>8 DEF Rating
<1> QED
  BY <1>4, <1>5, Elsewhere DEF Content

\* The percentage is that of the sums.
LEMMA ServiceRateContent ==
  ASSUME Counts, NEW t \in Threads, ServiceRate(t), Content(t)
  PROVE  Content(t)'
<1> DEFINE fr == frame[t]
           F == fr.flows
           p == IF fr.packets = 0 THEN -1 ELSE (fr.losses * 100) \div fr.packets
           l == [fr EXCEPT !.percent = p]
<1>1. /\ stage[t] = "window" /\ Goto(t, "rated", l) /\ Typed
      /\ UNCHANGED <<packet_count, loss_count>>
  BY DEF ServiceRate, metrics, Counts
<1>2. /\ F \in SUBSET Flows /\ IsFiniteSet(F)
      /\ fr.losses \in Nat /\ fr.packets \in Nat
  BY <1>1, FrameType, FlowsFinite
<1> HIDE DEF p
<1>3. l.flows = F /\ l.percent = p
  BY <1>1, FrameType DEF Frames
<1> HIDE DEF l
<1>4. stage'[t] = "rated" /\ frame'[t] = l
  BY <1>1, GotoFacts
<1>5. ASSUME p # -1 PROVE Rating(t)'
  <2>1. /\ fr.losses = SumFunctionOnSet(loss_count, F)
        /\ fr.packets = SumFunctionOnSet(packet_count, F) + 0
    BY <1>1 DEF Content, Rating
  <2>2. \A g \in Flows : packet_count[g] \in Nat
    BY FlowNumbers
  <2>3. SumFunctionOnSet(packet_count, F) \in Nat
    BY <1>2, <2>2, SumRemove
  <2>4. fr.packets = SumFunctionOnSet(packet_count, F)
    BY <2>1, <2>3
  <2>5. fr.packets # 0 /\ p = (fr.losses * 100) \div fr.packets
    BY <1>5 DEF p
  <2>6. F # {}
    BY <2>4, <2>5, SumEmpty
  <2>7. Scope(t)' = F
    BY <1>3, <1>4, <2>6 DEF Scope
  <2>8. IsRate(p, fr.losses, fr.packets)
    BY <1>2, <2>5, Quotient
  <2> HIDE DEF fr, F
  <2> QED
    BY <1>1, <1>3, <1>4, <2>1, <2>4, <2>7, <2>8 DEF Rating
<1>6. ASSUME p = -1 PROVE Rating(t)'
  BY <1>3, <1>4, <1>6 DEF Rating
<1> QED
  BY <1>4, <1>5, <1>6, Elsewhere DEF Content

-----------------------------------------------------------------------------
(* The steps of get_aggregated_telemetry keep what it has collected *)

\* No sample has been taken.
LEMMA TelemetryContent ==
  ASSUME Typed, NEW t \in Threads, Telemetry(t)
  PROVE  Content(t)'
<1>1. PICK limit \in SampleLimits :
        Enter(t, IF limit = 0 THEN "trapped" ELSE "sample",
              [NoFrame EXCEPT !.limit = limit])
  BY DEF Telemetry
<1> DEFINE l == [NoFrame EXCEPT !.limit = limit]
           s == IF limit = 0 THEN "trapped" ELSE "sample"
<1>2. l.flow = 0 /\ l.flows = {} /\ s \in {"trapped", "sample"}
  BY DEF NoFrame
<1>3. Enter(t, s, l) /\ active' = active
  BY <1>1 DEF Telemetry, metrics
<1> HIDE DEF l, s
<1>4. stage'[t] = s /\ frame'[t] = l
  BY <1>3, EnterFacts
<1>5. ActiveBelow(0) = {}
  BY ActiveSteps
<1>6. Sampling(t)'
  BY <1>2, <1>3, <1>4, <1>5 DEF Sampling, ActiveBelow
<1> QED
  BY <1>2, <1>4, <1>6, Elsewhere DEF Content

\* With room for all flows, every flow is looked at.
LEMMA EveryFlow ==
  ASSUME NEW limit \in Nat, limit >= MaxFlows
  PROVE  Interval(limit) = 1
<1>1. MaxFlows \div limit \in Nat /\ MaxFlows \div limit <= 1
  <2> DEFINE d == MaxFlows \div limit
             m == MaxFlows % limit
  <2>1. d \in Nat /\ m \in Nat /\ MaxFlows = limit * d + m
    BY Sizes
  <2>2. CASE d >= 2
    <3>1. limit * d >= limit * 2
      BY <2>1, <2>2, Sizes
    <3> HIDE DEF d, m
    <3>2. limit * d \in Nat
      BY <2>1
    <3> QED
      BY <2>1, <3>1, <3>2, Sizes
  <2> HIDE DEF m
  <2> QED
    BY <2>1, <2>2
<1> QED
  BY <1>1 DEF Interval, AtLeastOne

\* With room for all, an active flow is taken and none is skipped.
LEMMA TelemetryFlowContent ==
  ASSUME Typed, NEW t \in Threads, TelemetryFlow(t), Content(t)
  PROVE  Content(t)'
<1> DEFINE fr == frame[t]
           l == Collected(fr, fr.flow + Interval(fr.limit), Sampled(t))
<1>1. stage[t] = "sample" /\ active' = active
  BY TelemetryFlowFacts DEF metrics
<1>2. /\ fr \in Frames /\ fr.flow \in Nat /\ fr.limit \in Nat
      /\ fr.flows \in SUBSET Flows
  BY FrameType
<1>3. fr.limit >= MaxFlows => fr.flows = ActiveBelow(fr.flow)
  BY <1>1 DEF Content, Sampling
<1>4. CASE /\ Goto(t, "sampled", fr)
           /\ fr.flow >= MaxFlows \/ Cardinality(fr.flows) >= fr.limit
  <2>1. stage'[t] = "sampled" /\ frame'[t] = fr
    BY <1>4, GotoFacts
  <2>2. ASSUME fr.limit >= MaxFlows PROVE fr.flows = ActiveBelow(MaxFlows)
    <3>1. \A f \in Flows : f \in Nat /\ f < MaxFlows
      BY Sizes DEF Flows
    <3>2. CASE fr.flow >= MaxFlows
      <4>1. \A f \in Flows : f < fr.flow
        BY <1>2, <3>1, <3>2, Sizes
      <4> QED
        BY <1>3, <2>2, <3>1, <4>1 DEF ActiveBelow
    <3>3. CASE Cardinality(fr.flows) >= fr.limit
      <4>1. Cardinality(fr.flows) \in Nat /\ Cardinality(fr.flows) >= MaxFlows
        BY <1>2, <2>2, <3>3, Sizes, FlowsFinite
      <4>2. fr.flows = Flows
        BY <1>2, <4>1, FlowsFinite, FS_Subset, Sizes
      <4> QED
        BY <1>3, <2>2, <3>1, <4>2 DEF ActiveBelow
    <3> QED
      BY <1>4, <3>2, <3>3
  <2>3. Sampling(t)'
    BY <1>1, <2>1, <2>2 DEF Sampling, ActiveBelow
  <2> QED
    BY <2>1, <2>3, Elsewhere DEF Content
<1>5. CASE /\ fr.flow \in Flows /\ Interval(fr.limit) \in Nat
           /\ Goto(t, "sample", l)
  <2>1. /\ Sampled(t) \in SUBSET Flows
        /\ fr.flow + Interval(fr.limit) \in Nat
    <3>1. fr.flows \cup {fr.flow} \in SUBSET Flows
      BY <1>2, <1>5
    <3> QED
      BY <1>2, <1>5, <3>1 DEF Sampled
  <2>2. /\ l.flow = fr.flow + Interval(fr.limit) /\ l.flows = Sampled(t)
        /\ l.limit = fr.limit
    BY <1>2, <2>1, LoopFrames
  <2> HIDE DEF l
  <2>3. stage'[t] = "sample" /\ frame'[t] = l
    BY <1>5, GotoFacts
  <2>4. ASSUME fr.limit >= MaxFlows
        PROVE  l.flow = fr.flow + 1 /\ l.flows = ActiveBelow(fr.flow + 1)
    <3>1. Interval(fr.limit) = 1
      BY <1>2, <2>4, EveryFlow
    <3>2. Sampled(t) = ActiveBelow(fr.flow + 1)
      BY <1>3, <1>5, <2>4, ActiveSteps DEF Sampled
    <3> QED
      BY <2>2, <3>1, <3>2
  <2>5. Sampling(t)'
    <3> HIDE DEF fr
    <3> QED
      BY <1>1, <2>2, <2>3, <2>4 DEF Sampling, ActiveBelow
  <2> QED
    BY <2>3, <2>5, Elsewhere DEF Content
<1> QED
  BY <1>4, <1>5, TelemetryFlowFacts

-----------------------------------------------------------------------------
(* The steps of flush_expired_flows keep what it has dropped *)

\* The idle flows below the next flow.
LEMMA IdleSteps ==
  ASSUME Typed, NEW t \in Threads, NEW f \in Flows
  PROVE  /\ frame[t].at - last_update_ns[f] > frame[t].limit =>
              IdleBelow(t, f + 1) = IdleBelow(t, f) \cup {f}
         /\ ~(frame[t].at - last_update_ns[f] > frame[t].limit) =>
              IdleBelow(t, f + 1) = IdleBelow(t, f)
<1>1. \A g \in Flows : g \in Nat
  BY Sizes DEF Flows
<1>2. \A g \in Flows : g < f + 1 <=> g < f \/ g = f
  BY <1>1
<1>3. ~(f < f)
  BY <1>1
<1> QED
  BY <1>2, <1>3 DEF IdleBelow

\* No stamp is later than the time the flush reads.
LEMMA FlushContent ==
  ASSUME Counts, NEW t \in Threads, Flush(t)
  PROVE  Content(t)'
<1>1. PICK idle \in IdleTimes :
        Enter(t, "age", [NoFrame EXCEPT !.at = now, !.limit = idle])
  BY DEF Flush
<1> DEFINE l == [NoFrame EXCEPT !.at = now, !.limit = idle]
<1>2. l.flow = 0 /\ l.flows = {} /\ l.at = now
  BY DEF NoFrame
<1>3. Enter(t, "age", l) /\ last_update_ns' = last_update_ns /\ Typed
  BY <1>1 DEF Flush, metrics, Counts
<1> HIDE DEF l
<1>4. stage'[t] = "age" /\ frame'[t] = l
  BY <1>3, EnterFacts
<1>5. \A f \in Flows : ~(f < 0)
  BY Sizes DEF Flows
<1>6. now <= MaxClock /\ \A f \in Flows : last_update_ns[f] <= now
  BY DEF Counts, Clocked
<1>7. Flushing(t)'
  BY <1>2, <1>3, <1>4, <1>5, <1>6 DEF Flushing, IdleBelow
<1> QED
  BY <1>4, <1>7, Elsewhere DEF Content

\* While the clock has not wrapped the unsigned difference is the difference.
LEMMA PlainDifference ==
  ASSUME ClockFits, NEW a \in Nat, NEW b \in Nat, b <= a, a <= MaxClock
  PROVE  Minus(a, b) = a - b
<1>1. a - b \in Nat /\ a - b < ClockSpace
  BY Sizes DEF ClockFits
<1> QED
  BY <1>1, Sizes, SmallRemainder DEF Minus

\* A flow is about to be dropped exactly if it is idle.
LEMMA FlushLoadContent ==
  ASSUME Typed, NEW t \in Threads, FlushLoad(t), Content(t)
  PROVE  Content(t)'
<1> DEFINE fr == frame[t]
           f == fr.flow
           next == [fr EXCEPT !.flow = @ + 1]
           expired == Minus(fr.at, last_update_ns[f]) > fr.limit
<1>1. /\ stage[t] = "age" /\ f \in Flows /\ f \in Nat
      /\ last_update_ns' = last_update_ns
      /\ fr.at \in Nat /\ last_update_ns[f] \in Nat
  <2>1. /\ stage[t] = "age" /\ f \in 0..MaxFlows /\ f < MaxFlows
        /\ last_update_ns' = last_update_ns
    BY FrameType DEF FlushLoad, Shaped, metrics
  <2>2. f \in Flows /\ f \in Nat
    BY <2>1, Sizes DEF Flows
  <2> QED
    BY <2>1, <2>2, FrameType DEF Typed, TypeOK
<1>2. ASSUME ClockFits
      PROVE  /\ fr.at <= MaxClock /\ fr.flows = IdleBelow(t, f)
             /\ \A g \in Flows : last_update_ns[g] <= fr.at
             /\ expired <=> fr.at - last_update_ns[f] > fr.limit
  <2>1. /\ fr.at <= MaxClock /\ fr.flows = IdleBelow(t, f)
        /\ \A g \in Flows : last_update_ns[g] <= fr.at
    BY <1>1, <1>2 DEF Content, Flushing
  <2>2. Minus(fr.at, last_update_ns[f]) = fr.at - last_update_ns[f]
    BY <1>1, <1>2, <2>1, PlainDifference
  <2> QED
    BY <2>1, <2>2
<1>3. CASE expired /\ Goto(t, "drop", fr)
  <2>1. stage'[t] = "drop" /\ frame'[t] = fr
    BY <1>3, GotoFacts
  <2>2. ASSUME ClockFits PROVE Flushing(t)'
    BY <1>1, <1>2, <1>3, <2>1, <2>2 DEF Flushing, IdleBelow
  <2> QED
    BY <2>1, <2>2, Elsewhere DEF Content, ClockFits
<1>4. CASE ~expired /\ Goto(t, "age", next)
  <2>1. /\ next.flow = f + 1 /\ next.flows = fr.flows
        /\ next.at = fr.at /\ next.limit = fr.limit
    BY FrameType DEF Frames
  <2> HIDE DEF next
  <2>2. stage'[t] = "age" /\ frame'[t] = next
    BY <1>4, GotoFacts
  <2>3. ASSUME ClockFits PROVE Flushing(t)'
    <3>1. fr.flows = IdleBelow(t, f + 1)
      BY <1>1, <1>2, <1>4, <2>3, IdleSteps
    <3>2. IdleBelow(t, f + 1) =
            {g \in Flows : g < f + 1 /\ fr.at - last_update_ns[g] > fr.limit}
      BY DEF IdleBelow
    <3>3. /\ fr.at <= MaxClock
          /\ \A g \in Flows : last_update_ns[g] <= fr.at
      BY <1>2, <2>3
    <3> HIDE DEF expired, fr
    <3> HIDE DEF f
    <3> QED
      BY <1>1, <2>1, <2>2, <3>1, <3>2, <3>3 DEF Flushing, IdleBelow
  <2> QED
    BY <2>2, <2>3, Elsewhere DEF Content, ClockFits
<1> QED
  BY <1>3, <1>4 DEF FlushLoad, Advance

\* The idle flow is dropped.
LEMMA FlushDropContent ==
  ASSUME Typed, NEW t \in Threads, FlushDrop(t), Content(t)
  PROVE  Content(t)'
<1> DEFINE fr == frame[t]
           f == fr.flow
           F == fr.flows \cup {f}
           l == Collected(fr, f + 1, F)
<1>1. /\ stage[t] = "drop" /\ f \in Flows /\ Goto(t, "age", l)
      /\ last_update_ns' = last_update_ns
  BY FlushDropFacts
<1>2. fr \in Frames /\ f + 1 \in Nat /\ F \in SUBSET Flows
  BY <1>1, FrameType
<1>3. /\ l.flow = f + 1 /\ l.flows = F /\ l.at = fr.at /\ l.limit = fr.limit
  BY <1>2, LoopFrames
<1> HIDE DEF l
<1>4. stage'[t] = "age" /\ frame'[t] = l
  BY <1>1, GotoFacts
<1>5. ASSUME ClockFits PROVE Flushing(t)'
  <2>1. /\ fr.at <= MaxClock /\ fr.flows = IdleBelow(t, f)
        /\ \A g \in Flows : last_update_ns[g] <= fr.at
        /\ fr.at - last_update_ns[f] > fr.limit
    BY <1>1, <1>5 DEF Content, Flushing
  <2>2. F = IdleBelow(t, f + 1)
    BY <1>1, <2>1, IdleSteps
  <2>3. IdleBelow(t, f + 1) =
          {g \in Flows : g < f + 1 /\ fr.at - last_update_ns[g] > fr.limit}
    BY DEF IdleBelow
  <2> HIDE DEF F
  <2> HIDE DEF f
  <2> HIDE DEF fr
  <2> QED
    BY <1>1, <1>3, <1>4, <2>1, <2>2, <2>3 DEF Flushing, IdleBelow
<1> QED
  BY <1>4, <1>5, Elsewhere DEF Content, ClockFits

\* All flows have been looked at.
LEMMA FlushEndContent ==
  ASSUME Typed, NEW t \in Threads, FlushEnd(t), Content(t)
  PROVE  Content(t)'
<1>1. /\ stage[t] = "age" /\ frame[t].flow = MaxFlows
      /\ Goto(t, "flushed", frame[t]) /\ last_update_ns' = last_update_ns
  BY DEF FlushEnd, metrics
<1>2. stage'[t] = "flushed" /\ frame'[t] = frame[t]
  BY <1>1, GotoFacts
<1>3. ASSUME ClockFits PROVE Flushing(t)'
  BY <1>1, <1>2, <1>3 DEF Content, Flushing, IdleBelow
<1> QED
  BY <1>2, <1>3, Elsewhere DEF Content, ClockFits

-----------------------------------------------------------------------------
(* The reports nobody disturbs *)

\* Every step of a report keeps its own contents.
LEMMA ReportContent ==
  ASSUME Counts, Typed', NEW t \in Threads, Report(t), stage[t] # "idle" => Content(t)
  PROVE  Content(t)'
<1>0. Typed
  BY DEF Counts
<1>1. CASE FlowKpi(t) \/ AllKpis(t) \/ ServiceKpi(t) \/ Telemetry(t) \/ Flush(t)
  BY <1>0, <1>1, FlowKpiContent, AllKpisContent, ServiceKpiContent, TelemetryContent,
     FlushContent
<1>2. CASE Return(t)
  <2>1. stage'[t] = "idle"
    BY <1>0, <1>2, LeaveFacts DEF Return
  <2> QED
    BY <2>1, Elsewhere DEF Content
<1>3. CASE ListFlow(t) \/ KpiBucket(t) \/ KpiRate(t)
  <2>1. stage[t] # "idle"
    BY <1>3 DEF ListFlow, KpiBucket, KpiRate
  <2> QED
    BY <1>0, <1>3, <2>1, ListFlowContent, KpiBucketContent, KpiRateContent
<1>4. CASE ServiceWindow(t) \/ ServiceLosses(t) \/ ServiceRate(t)
  <2>1. stage[t] # "idle"
    BY <1>4 DEF ServiceWindow, ServiceLosses, ServiceRate
  <2> QED
    BY <1>0, <1>4, <2>1, ServiceWindowContent, ServiceLossesContent, ServiceRateContent
<1>5. CASE TelemetryFlow(t) \/ FlushLoad(t) \/ FlushDrop(t) \/ FlushEnd(t)
  <2>1. stage[t] # "idle"
    BY <1>5 DEF TelemetryFlow, FlushLoad, FlushDrop, FlushEnd
  <2> QED
    BY <1>0, <1>5, <2>1, TelemetryFlowContent, FlushLoadContent, FlushDropContent,
       FlushEndContent
<1> QED
  BY <1>1, <1>2, <1>3, <1>4, <1>5 DEF Report

\* Every step keeps the contents of every call nobody disturbs.
LEMMA NextQuiet == Counts /\ QuietInv /\ [Next]_vars => QuietInv'
<1> SUFFICES ASSUME Counts, QuietInv, [Next]_vars PROVE QuietInv'
  OBVIOUS
<1>0. Typed /\ Typed'
  BY NextTyped DEF Counts
<1>1. ASSUME NEW t \in Threads, Record(t) PROVE QuietInv'
  <2>1. Step(t) /\ stage'[t] \in RecordStages \cup {"idle"}
    BY <1>0, <1>1, RecordStep
  <2>2. Content(t)'
    BY <2>1, Elsewhere DEF Content, RecordStages
  <2> QED
    BY <1>0, <2>1, <2>2, OwnContent
<1>2. ASSUME NEW t \in Threads, Report(t) PROVE QuietInv'
  <2>1. Step(t)
    BY <1>0, <1>2, ReportStep
  <2>2. ASSUME stage[t] # "idle" => Content(t) PROVE Content(t)'
    BY <1>0, <1>2, <2>2, ReportContent
  <2> QED
    BY <1>0, <2>1, <2>2, OwnContent
<1>3. CASE UNCHANGED <<metrics, stage, frame, overlapped>>
  <2>1. ASSUME NEW u \in Threads PROVE Undisturbed(u)'
    <3>1. Undisturbed(u)
      BY DEF QuietInv
    <3>2. Content(u) => Content(u)'
      BY <1>3, SameContent
    <3> QED
      BY <1>3, <3>1, <3>2 DEF Undisturbed, Quiet
  <2> QED
    BY <2>1 DEF QuietInv
<1>4. Tick => UNCHANGED <<metrics, stage, frame, overlapped>>
  BY DEF Tick
<1> QED
  BY <1>1, <1>2, <1>3, <1>4 DEF Next, Threads, vars

\* The invariant all the reports rest on: the counters agree, and what a call
\* that no writer overlapped with has collected is what the counters hold.
THEOREM ReportsInvariance == Spec => [](Counts /\ QuietInv)
<1>1. Init => Counts /\ QuietInv
  BY InitCounts, InitQuiet
<1>2. Counts /\ QuietInv /\ [Next]_vars => Counts' /\ QuietInv'
  BY NextCounts, NextQuiet
<1> QED
  BY <1>1, <1>2, PTL DEF Spec

\* get_all_flow_kpis, when nobody writes, reports every active flow and no
\* other.
THEOREM QuietListsComplete == Spec => []QuietListComplete
<1>1. Counts /\ QuietInv => QuietListComplete
  <2> SUFFICES ASSUME Counts, QuietInv, NEW t \in Threads,
                      stage[t] = "listed", ~overlapped[t]
               PROVE  frame[t].flows = {f \in Flows : active[f]}
    BY DEF QuietListComplete
  <2>1. Listing(t)
    BY DEF QuietInv, Undisturbed, Quiet, Content
  <2> QED
    BY <2>1, ActiveSteps DEF Listing, Counts
<1> QED
  BY <1>1, ReportsInvariance, PTL

\* get_aggregated_telemetry returns no more samples than it was asked for,
\* also while others write; when nobody does and there is room, it leaves no
\* active flow out.
THEOREM SamplesAlwaysBounded == Spec => []SamplesBounded
<1>1. Counts /\ QuietInv => SamplesBounded
  <2> SUFFICES ASSUME Counts, QuietInv, NEW t \in Threads, stage[t] = "sampled"
               PROVE  /\ Cardinality(frame[t].flows) <= frame[t].limit
                      /\ ~overlapped[t] /\ frame[t].limit >= MaxFlows
                           => frame[t].flows = {f \in Flows : active[f]}
    BY DEF SamplesBounded
  <2>1. Cardinality(frame[t].flows) <= frame[t].limit
    BY FrameType DEF Counts, Shaped
  <2>2. ASSUME ~overlapped[t] PROVE Sampling(t)
    BY <2>2 DEF QuietInv, Undisturbed, Quiet, Content
  <2> QED
    BY <2>1, <2>2, ActiveSteps DEF Sampling, Counts
<1> QED
  BY <1>1, ReportsInvariance, PTL

\* flush_expired_flows, when nobody else writes and as long as the clock has
\* not wrapped, drops the flows idle for longer than the limit and no other.
THEOREM QuietFlushesExact == ClockFits /\ Spec => []QuietFlushExact
<1> SUFFICES ASSUME ClockFits PROVE Spec => []QuietFlushExact
  OBVIOUS
<1>1. Counts /\ QuietInv => QuietFlushExact
  <2> SUFFICES ASSUME Counts, QuietInv, NEW t \in Threads,
                      stage[t] = "flushed", ~overlapped[t]
               PROVE  frame[t].flows =
                        {f \in Flows : frame[t].at - last_update_ns[f] > frame[t].limit}
    BY DEF QuietFlushExact
  <2>1. Flushing(t)
    BY DEF QuietInv, Undisturbed, Quiet, Content
  <2>2. \A f \in Flows : f < MaxFlows
    BY Sizes DEF Flows
  <2> QED
    BY <2>1, <2>2 DEF Flushing, IdleBelow
<1> QED
  BY <1>1, ReportsInvariance, PTL

\* A rate that get_flow_kpi or get_service_kpi computes while nobody writes is
\* the loss rate of the flows it is about, rounded down, unless get_flow_kpi's
\* 32-bit product of the losses and 100 wraps.
THEOREM QuietRatesAreExact == Spec => []QuietRatesExact
<1>1. Counts /\ QuietInv => QuietRatesExact
  <2> SUFFICES ASSUME Counts, QuietInv, NEW t \in Threads,
                      stage[t] = "rated", ~overlapped[t], frame[t].percent # -1,
                      ~Wraps(t)
               PROVE  IsRate(frame[t].percent, SumFunctionOnSet(loss_count, Scope(t)),
                             SumFunctionOnSet(packet_count, Scope(t)))
    BY DEF QuietRatesExact, IsRate
  <2>1. Rating(t)
    BY DEF QuietInv, Undisturbed, Quiet, Content
  <2> QED
    BY <2>1 DEF Rating
<1> QED
  BY <1>1, ReportsInvariance, PTL
=============================================================================
