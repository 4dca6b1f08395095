# A verification project for the virtual service gateway (DPDK)

The repository holds a library of C++17 classes (`src/`, `include/`), a `main`
that builds some of them, a self-contained forwarding application
(`examples/minimal_dpdk.cpp`), a file of building blocks for such applications
(`examples/dpdk_common_modifications.h`), configuration, deployment files, a few
tests and much documentation.  This directory holds TLA+ models of the parts
that are concurrent or have a protocol to keep, TLC configurations that check
them, and TLAPS proofs.  Source paths below are relative to the repository.

## 1. Inventory

| Component | State | Operations | What makes it correct | Here |
|---|---|---|---|---|
| `RingQueue` (`src/dpdk/ring_queue.cpp`) | one `rte_ring`: slots, producer head and tail, consumer head and tail | `enqueue`, `enqueue_burst`, `dequeue`, `dequeue_burst`, `empty`, `available_count` | first in, first out; nothing lost, nothing twice; never more than its capacity; answers stay true until used | modelled, proved |
| Minimal forwarding application (`examples/minimal_dpdk.cpp`) | mempool, ring, ports, `force_quit`, statistics, locals of three lcores | set-up, RX, TX and stats loops, signal handler, shutdown | one owner per buffer on every path, order kept, counters consistent, a signal ends it | modelled, proved |
| `UBBMeter` (`src/metering/ubb_meter.cpp`) | map of key to four atomic counters and a breach count | `update_counter`, `get_counter`, `get_total_usage`, `rollup`, `batch_rollup`, `check_threshold`, `reset_counter` | every byte is billed once, to its key and direction; reads and alerts lie within what was billed meanwhile; nobody is in the map while another changes it | modelled, proved |
| `QoECollector` (`src/analytics/qoe_collector.cpp`) | a fixed table of flows: atomic counters, histogram, time stamp, `active` | `record_sample`, `get_flow_kpi`, `get_all_flow_kpis`, `get_service_kpi`, `get_aggregated_telemetry`, `flush_expired_flows` | counters of a flow agree, rates are rates, reports are complete, flushes drop what is idle | modelled, proved |
| `DPIClassifier` (`src/dpi/classifier_pipeline.cpp`) | vector of signatures, guardrails, `degraded_`, per-class counters | `classify`, `load_signatures`, `update_signature`, `remove_signature`, `set_guardrails` | the match within the window that has the highest priority, counters equal answers, degraded mode only where allowed | modelled, proved |
| `WorkerPipeline` (`src/dpdk/worker_pipeline.cpp`) | `running_`, a thread, a queue index that all pipelines share (a local static) | `start`, `stop`, destructor, `worker_loop`, `rx_burst` (a placeholder that returns 0) | start and stop keep their promises in any order and from any thread; the shared index stays in range; each queue is polled; `stop` comes back | modelled, proved |
| `PMDDriver` (`src/dpdk/pmd_driver.cpp`) | `initialized_`, the list of ports, each port's state in the NIC | `init_eal`, `init_ports`, `start_ports`, `stop_ports`, destructor | a failure at any port leaves nothing started that nobody will stop; ports are up while they are polled | modelled, proved |
| `MempoolManager` (`src/dpdk/mempool_manager.cpp`) | pools by NUMA node | `init_mempool`, `get_mempool`, `alloc_pkt`, `free_pkt`, `get_stats` | each node finds its own pool, in whatever order the nodes came | the table: modelled, proved |
| `BatchProcessor` (`src/dpdk/batch_processor.cpp`) | none but metadata behind `pkt->userdata` | prefetch, process | metadata of one packet stays with it | no, see section 6 |
| `main` (`src/main.cpp`) | the flag `running`, the objects | builds the parts, waits for a signal, tears down | orderly end after a failure at any step | modelled, proved |
| Building blocks (`examples/dpdk_common_modifications.h`) | bursts of buffers, header pointers, a meter, counters | `example_complete_pipeline`: header extraction, classification, meter, statistics, transmission | no buffer leaks or is sent twice; counters account for packets; headers are found | the pipeline: modelled; that no buffer leaks proved, that none is sent or freed twice refuted (section 4) |
| Empty classes | none | empty bodies | nothing to say | no |
| Configuration, deployment, tests | none at run time | none | input formats used by `DPIClassifier` only | no |

**How they interact.** In the forwarding application the RX lcore owns the
buffers `rte_eth_rx_burst` gave it, hands them to the TX lcore through a ring of
the kind `RingQueue` wraps, or frees those that do not fit; the TX lcore hands
them to the NIC or frees them; `main` talks to the lcores only through
`force_quit`, which the signal handler sets.  In the library, workers call
`DPIClassifier::classify`, `UBBMeter::update_counter` and
`QoECollector::record_sample` on shared objects, without a lock, while control
threads read reports, reset counters, flush flows and change signatures.
`src/main.cpp` builds these objects but never starts a pipeline, so which
threads call what is taken from the documentation of the classes and is a
CONSTANT of each model.  `Gateway` composes what `main` builds: the driver owns
the ports, pools are found by node, pipelines poll ports the driver must keep up,
and the destructors stop the pipelines first and the ports last.

**What is hard.** Accesses of several threads to plain and to atomic memory in
any order (ring, meter, collector, classifier); checks of values that are stale
when used; indices that wrap; bursts taken in part, rings and pools at their
limit; set-up that fails half-way; a signal at any moment; calls of `start` and
`stop` that overlap; lcores and threads that have to stop and packets that have to
move on; buffers freed and used; fields of a frame read in the wrong byte order or
through a pointer left from the packet before.  There are no messages, no timers and
nothing is persisted, so there is nothing to say of lost messages or of crash
recovery.  `PROJECT.json` lists each hazard at its line, with the property that
would catch it going wrong, or why none does.

## 2. Modules

| Module | Models | State and actions |
|---|---|---|
| `BoundedFifo` | what a ring promises its callers | a queue; `Put` appends a block, `Take` hands out the oldest packets |
| `RingQueue` | `RingQueue` over `rte_ring` | the four indices and the slots, and per thread the locals of its call; `EnqueueReserve`, `Claim`, `Copy`, `Publish` and the same for dequeue; `ObserveRoom`, `ObserveEmpty` for `available_count` and `empty` |
| `MinimalDpdk` | the forwarding application | a program counter for `main` and each lcore, the buffers wherever they are; an action per statement that touches shared state; `Arrive` and `Sent` are the NIC |
| `UBBMeter` | `UBBMeter` | counters as functions of `<<key, direction>>`; an action per lookup and per access to an atomic, and two, a beginning and an end, per insertion and erasure in the map; `WalkBegin`, `WalkNext` and `ReadReturn` are the loops of `get_total_usage` and `batch_rollup`.  `due`, `charged`, `begun` and `finished` record what callers are owed, `raced` that a call was in the map while another changed it |
| `QoECollector` | `QoECollector` | each field of `FlowMetrics` as a function of the flow, each call's locals in `frame`; an action per access.  `overlapped` records whether a call had the table for itself |
| `DPIClassifier` | `DPIClassifier` | the vector, the guardrails, the flag and the counters; an action per access to shared state.  `answered`, `raced` and `updated` (since the last load) are history, `halted` says why behaviour ceased to be defined |
| `WorkerPipeline` | `WorkerPipeline` | per pipeline `running`, `joinable` and where its loop stands, per calling thread where its call stands, the shared `queueIdx`; `start` is test, set, spawn (or throw), `stop` is test, clear, join; `rx_burst` loads and stores the index in two steps |
| `PMDDriver` | `PMDDriver` over the ethdev library | the list, the state of each port in the NIC; `InitPorts` and `StartPorts` fail at any port of the list.  `astray` remembers ports that were started and then forgotten |
| `MempoolManager` | the table of pools | `mempools` as the vector the code grows; `registered` remembers which nodes were given a pool |
| `Gateway` | `main` over these three | INSTANCEs of the three side by side; where `main` stands, the signal, the destructors; an action per operation of a part in the order of use described below |
| `PacketPipeline` | `example_complete_pipeline` and the helpers it calls | how often each place holds each buffer, the burst, the frame in each buffer, header pointers, meter, counters; an action per burst received, per packet looked at, per burst sent |
| `RingQueueProofs`, `MinimalDpdkProofs`, `UBBMeterProofs`, `QoECollectorProofs`, `DPIClassifierProofs`, `GatewayProofs`, `PacketPipelineProofs` | | theorems and proofs |
| `SumLemmas` | | lemmas on sums over finite sets and on cardinalities, for the meter, the collector and the classifier |
| `MC...` | | model values, input sets and symmetry for TLC |

A definition named after another with a suffix, under a comment that begins
"Mutant of", is a plausible bug in the definition that follows it.  No action
uses it: `PROJECT.json` pairs it with the property that finds it.

### What the models leave open or out

* **External code.** `rte_ring`, the mempool and the NIC are not in the
  repository.  `rte_ring` is modelled as the documented single-producer,
  single-consumer protocol, because those are the operations the code calls; it
  is sequentially consistent here, the acquire and release pairs inside it being
  its own affair.  The NIC takes a buffer of the pool for every frame, accepts
  any prefix of a transmit burst, and gives buffers back in any order.  In
  `PMDDriver` each call of the ethdev library on a port that exists may fail,
  except stopping and closing, whose results the code does not look at and which are
  taken to succeed.  The EAL numbers the ports from 0.
* **The application of `main`.** `main`'s loop sleeps; its comment says that a real
  implementation would drive the worker pipelines there.  `Gateway` has an
  application in its place that may call every public operation: it uses the driver
  while no pipeline runs, adds pools before it sets up ports, and starts
  pipelines when every node has its pool and the driver has answered that the ports
  are up; a second thread may start and stop some pipelines whenever `main` serves.
  Doing none of this is a behaviour of the model too, and is `main` as it stands.
  What is shown of the application is what is shown of this order of use.
* **Placeholders.** `WorkerPipeline::rx_burst` returns 0 always, so processors,
  statistics and `tx_burst` behind it are never reached and not modelled.
* **Code that does not compile as it is.** Under C++17 some of the classes are
  rejected: copies of structures of atomics in `get_counter`, `resize` of a vector
  of structures of atomics, includes that are missing.  The models follow
  what these statements evidently mean: one load or store per field.
* **Undefined behaviour.** In `DPIClassifier` changing the vector under an
  iterating worker, counting past the counters and `rand() % 0` set `halted`,
  after which the model stops.  In `QoECollector` a division by zero traps and
  the process stops.  In `UBBMeter` additions to an erased counter reach nobody,
  and a load of one returns anything.  Its map is a plain `unordered_map`: as soon as a
  call is in it while another inserts or erases (`raced`), the map may lose entries, a
  lookup may miss the entry it is after and a loop may end early; and the process may
  crash, which is a model that takes no further step.  A loop counts as in the map from
  its beginning to its end, any other call during each of its lookups.  Uninitialised results (`rollup` of an absent
  key, the totals of `get_service_kpi`) are left out, and an uninitialised
  `loss_percent` is `-1`.  In `PacketPipeline` the uninitialised meter starts with any
  of `StackValues`, an uninitialised header pointer is "wild" and what is read
  through it, or through one left from an earlier packet, is any port; a buffer freed
  twice is held twice by the pool, as in a mempool built without debug checks.
* **Data.** A packet or a buffer is a model value, a frame is its number, a
  payload and a pattern are short sequences of numbers, time is a small
  counter.  Byte counts in `MinimalDpdk` and `QoECollector` travel with the packet
  counts and are left out.  A frame of `PacketPipeline` is the record of the fields the
  code reads, and the type is compared as the host's byte order makes it.  Parsing a line of signatures is modelled by what it does:
  the class is one character, so that of a class of two digits the second is read as the
  pattern and every later field is one place off, and the line is dropped if its pattern is no number.  `std::sort` may leave equals in any order, so the lines of
  a file that parse are a set until they are sorted.
* **Out-of-range calls** that return at once (`record_sample` of a flow beyond the
  table, `check_threshold` of an absent key, operations on a ring that was not
  created, a burst of zero) change nothing and are stutters.

## 3. Runs

| Run | Shows | Bounds |
|---|---|---|
| `ring_fifo` | With one thread on each side, every interleaving of the accesses is a bounded FIFO (`RefinesFifo`, with the packets between the two tails as the queue); the indices stay ordered across the wrap, copies never race, answers stay true, nothing is lost or doubled; what is accepted is handed out in the end | 4 slots, indices modulo 8, bursts of 2, 5 interchangeable packets: the ring gets full (3) and empty, bursts are cut short and the indices wrap at every alignment |
| `forward_packets` | One owner per buffer, order, consistent counters, addresses swapped once, final statistics that are final; a signal ends the program, and the ring drains until it does | 3 buffers, ring of 2, bursts of 2, 2 descriptors, 4 frames, 2 ports, 1 to 4 lcores: the ring overflows, the pool runs dry, a buffer comes round again, each set-up step fails |
| `meter_sharded` | Two threads that update different keys and read all of them, one of them also resetting its own, with insertions, erasures, lookups and loops interleaved: until they race in the map, bills are exact and from zero after a reset, and sums and alerts within the bill during the call | 2 services, a length of 2, 3 updates, threshold 2: below, at and above it |
| `meter_first_packet` | **Violation.** Two threads that send the first packets of a key, with insertions one after the other: the second replaces the first counter and its bytes | 1 key |
| `qoe_reports` | A flow's counters agree with the open calls at every moment; rates, listings, telemetry and flushes that nobody writes during are exact | 2 flows, 2 buckets, 3 samples, clock 1 to 2, windows within and beyond the clock, limits 0 to 2, products with 100 modulo 250: a third loss makes them wrap |
| `qoe_loss` | **Violation.** "Loss metrics (0-100%)": a rate whose loss count is loaded after losses that its packet count does not include is above 100 | 1 recorder, 1 reporter |
| `dpi_classify` | Whatever was loaded, updated and removed meanwhile, matching is what the vector's order and each window say, and until an update the priorities; counters equal answers; degraded mode obeys the guardrails | 2 interchangeable workers, 1 controller, 3 signatures of which 2 share an id and one has a higher priority, two files with classes below and above ten, 2 guardrails, vector of at most 2, a second answer is begun but not returned |
| `dpi_load` | **Violation.** A signature loaded from a file has not the class the file gives it, because a `uint8_t` is read as a character | 1 worker |
| `dpi_priority` | **Violation.** "Higher = checked first": after an update, a signature with a lower priority decides | 1 worker |
| `gateway_life` | Starts and stops keep their promises, the shared index stays in range, pools are found, polled ports are up, nothing is left at the end; a lone pipeline polls each of its queues, a signal ends the process | 2 pipelines of 2 queues, 2 callers that overlap on one of them, 2 ports, 3 lists of ports of which one names a port that does not exist, 3 nodes |
| `pipeline_bursts` | No buffer leaks, and one that was never dropped has one owner; no packet escapes the statistics, which are exact while the NIC takes everything; in network byte order well-formed frames are accepted and their payload and class found | 2 interchangeable buffers, bursts of 2, 4 frames of 5 kinds, both byte orders, a quota of 130 that is crossed, byte counts modulo 1024 that start at 0 or 1000 and wrap |
| `pipeline_frees` | **Violation.** "allocated + free == total_bufs": a packet that was dropped is free and on its way to the NIC, or free twice | the same |

Two threads are enough for the races named: each is between two accesses of
one call and one access of another.  What calls only increase is bounded by a
named constant in a guard: `MaxFrames` is above the number of buffers, so
that a buffer is used again; `MaxUpdates` and `MaxSamples` let one thread finish
a call and two others be in the middle of theirs; `MaxBreaches` of 1 makes a counter
alert at most once per reset; `MaxAnswers` of 1 bounds the answers, not the
classifications begun.  Five packets for a ring of three are needed: a
consumer may be copying two of three while the producer has two more to place.
In `gateway_life` no counter needs a bound.  In `pipeline_bursts` four frames over
two buffers bring every buffer round again, as a duplicate too.  `WordSpace` and
`ClockSpace` in the collector stand for 2^32 and 2^64: 100 times the losses wraps around
the first from the third loss on, and differences wrap around the second.
`SumFunction` and `FoldFunction` are the community modules'.

**Symmetry.** Packets, workers of the classifier and buffers of the pipeline are
interchangeable in the runs that say so: nothing in the modules tells two of them apart.
`ring_fifo` also checks liveness.  That is sound there, because neither the fairness
conditions nor the state and action predicates in `EveryPacketDelivered` tell packets
apart: the property says of indices what `RefinesFifo` turns into a statement on packets.  A behaviour
of the quotient that is fair and delivers nothing would be one of the ring, and the other way round.
TLC cannot know this and prints a warning.

`CHECK_DEADLOCK FALSE` stands where a program may really stop: `MinimalDpdk` and `Gateway`
end, the pipeline runs out of frames, the classifier and the collector may trap, and the meter, the collector and the
classifier run out of the bounded number of calls.  The ring never stops: in
`ring_fifo` deadlock is checked.

**Fairness.** `RingQueue!FairSpec` is weakly fair for the steps of a call that has begun (code
without a wait in it) and for consumers, which poll in a loop; producers need
not produce.  `MinimalDpdk!FairSpec` is weakly fair for `main` and each of the three lcores, which
are threads of their own that never block; not for the signal, the arrival
of frames or the NIC's returning of buffers, and both properties hold without.
`Gateway!FairSpec` is weakly fair for `main`'s own code, for each call in progress and
for each worker thread: code without a lock or an unbounded wait but the join
in `stop`, whose end is what has to be shown; nobody has to call anything and no
signal has to come.  The classes without a loop of their own (meter, collector, classifier) promise no progress.

Two liveness properties of the gateway are as strong as the code allows and no
stronger.  `AlonePollsAll` speaks of a pipeline that runs alone: with two, one may
advance the shared index each time between two polls of the other, which then never
polls one of its queues.  `SignalEnds` exempts pipelines
on which calls overlapped: a `start` may set `running_` again between the clear and the
join of a `stop`, whose loop then goes on, and if `std::thread` throws in that `start`
nobody clears the flag and the join never returns.

### The properties that carry the most

* `RingQueue!CopiesNeverRace`, `PromiseKept`: about the unlocked copies of both
  sides, and about what a thread was told before it acts.
* `RingQueue!RefinesFifo`: the four indices, the copies and the wrap add up to a queue.
* `MinimalDpdk!OneOwner`, `InOrder`, `SentWasReceived`: about buffers and counters
  spread over two lcores, the ring, the NIC and the pool.
* `Gateway!WorkersMatch`, `PollsUsablePorts`, `LeavesNothing`: about a flag, a thread, a
  port and a caller that change at different times, through failures of any step.
* `PacketPipeline!BuffersKept`, `AllocatedOrFree`: about every place a buffer can be, over several
  bursts; `WellFormedUnderstood`: the headers against a definition of a well-formed
  frame that shares nothing with the code.
* `UBBMeter!BilledExactly`, `ReadsWithinInterval`, `AlertsJustified`: about counters
  against the calls that began and returned, while entries come and go.
* `QoECollector!CountersAgree` and the `Quiet...` properties: what remains true
  of fields updated one by one, and what is true when nobody interferes.
* `DPIClassifier!MatchesWithinWindow`: search and order against a definition that shares
  nothing with them but the window and the priorities, `HighestFirst` the same with updates; `DegradedOnlyIfEnabled`: exempts exactly one race,
  which is listed as a hazard.

## 4. Findings

1. `src/metering/ubb_meter.cpp:23` inserts without looking again, so two first packets of
   a key lose one; `docs/metering.md:486` has a test of two threads that expects
   both (`meter_first_packet`).
2. `src/analytics/qoe_collector.cpp:55` computes a loss rate above 100 per cent;
   `include/qoe_analytics.h:21` says 0 to 100 (`qoe_loss`).
3. `src/dpi/classifier_pipeline.cpp:66` reads the class as a character;
   `config/dpi_signatures.conf:2` gives a number (`dpi_load`).
4. `src/dpi/classifier_pipeline.cpp:96` appends or replaces a signature without sorting;
   `docs/dpi.md:65` says of priorities "Higher = checked first", `docs/dpi.md:349` shows
   `update_signature` ending in a sort, and `docs/architecture.md:90` promises matching by
   priority (`dpi_priority`).
5. `examples/dpdk_common_modifications.h:495` transmits the whole burst, dropped packets
   included, and line 499 frees them again; the comments say "Drop" (line 481) and "Free unshipped
   packets" (line 497), and `tests/test_pipeline.cpp:39` asserts that what is allocated and
   what is free make up the total (`pipeline_frees`).

Five more disagreements have no run of their own.  The models follow the code in each, and the
property nearby says for which cases it is claimed:

* `examples/dpdk_common_modifications.h:50` compares the type field with constants in host
  order, so that a little-endian host rejects every IP frame, while line 27 and the comments
  at lines 34 to 40 and 107 to 118 say that such frames are extracted and classified.
  `WellFormedUnderstood` speaks of hosts in network byte order.
* Line 124 of the same file uses `hdrs->tcp` whenever it is set; nothing clears it, and a UDP packet
  after a TCP packet is classified by stale ports.  `WellFormedUnderstood` claims the
  class of UDP packets before the first TCP packet.
* `tests/test_pipeline.cpp:26` asserts that what was received less what was sent is what was
  dropped.  The pipeline counts a packet as sent before the NIC is asked, and again as dropped
  if it is refused.  `StatsComplete` is the assertion as long as nothing is
  refused, and from then on says only that no packet escapes the counters.
* `docs/analytics.md:140` multiplies losses by 100 in 64 bits; `get_flow_kpi` does so in 32
  (`src/analytics/qoe_collector.cpp:55`), so that a flow with 2^32 / 100 losses or more gets a wrong rate.
  `QuietRatesExact` excepts exactly those; the run reaches the wrap.
* `docs/metering.md:486` calls concurrent updates safe; `src/metering/ubb_meter.cpp` leaves the map
  unguarded (lines 16 to 24, 79, 100, 123), so that even updates of different keys may
  lose an entry or crash.  What the meter promises it promises until `raced`, and
  `WarmForGood` says how a deployment keeps it from happening.

Where the code does something surprising that nothing in the repository denies (the shared
index, ports that are forgotten, a flow that stays unlisted after a flush), the model does it too and
the hazard list says what that means.

## 5. Proofs

| Theorem | Says, for all values of the constants |
|---|---|
| `RingQueueProofs!Invariance` | `Inv` is an invariant of every ring with one thread per side |
| `RingQueueProofs!TypeCorrect`, `IndicesOrderedAlways`, `PromiseKeptAlways` | its three conjuncts |
| `RingQueueProofs!RaceFree` | `CopiesNeverRace`, which follows from `Inv` |
| `RingQueueProofs!HeldAlways` | the slots between the tails hold what was accepted and not handed out, each packet once |
| `RingQueueProofs!Refinement` | `RefinesFifo`: every behaviour of the ring is one of `BoundedFifo` |
| `RingQueueProofs!NothingLostOrDoubled` | `NoLossNoDuplicate` |
| `MinimalDpdkProofs!Invariance` | `Inv` is an invariant for every finite pool, ring, burst size, number of frames and descriptors, ports and mask |
| `MinimalDpdkProofs!TypeCorrect`, `OrderKept`, `EveryBufferOwned`, `CountersConsistent`, `OnlySwappedSent`, `FinalIsFinal` | the six invariants of `forward_packets` |
| `UBBMeterProofs!CounterKeyInjective` | different subscriber and service ids have different keys |
| `UBBMeterProofs!TypeCorrect` | `TypeOK`, whoever updates and resets what |
| `UBBMeterProofs!Invariance`, `BillExact` | `Inv`, and so `BilledExactly`, where each key has one thread that updates and resets it |
| `UBBMeterProofs!WarmForGood` | without resets, a map that has every key and is not being changed stays so, and no call races in it any more |
| `UBBMeterProofs!ReadInvariance` | `ReadInv`: what an open read has summed, against the bills, over the keys it has come by |
| `UBBMeterProofs!ReadsBracketed`, `AlertsJustifiedAlways` | `ReadsWithinInterval` and `AlertsJustified` follow from it |
| `QoECollectorProofs!TypeCorrect`, `CountersAlwaysAgree` | `TypeOK` and `CountersAgree`, for any threads, flows and buckets |
| `QoECollectorProofs!ReportsInvariance` | what an undisturbed report has gathered at each step of its loop |
| `QoECollectorProofs!QuietListsComplete`, `SamplesAlwaysBounded` | `QuietListComplete` and `SamplesBounded` |
| `QoECollectorProofs!QuietFlushesExact`, `QuietRatesAreExact` | `QuietFlushExact` while the clock has not wrapped, `QuietRatesExact` for every width of a word |
| `DPIClassifierProofs!Invariance` | `Inv` is an invariant for any workers, controllers, signatures, files, payloads and guardrails |
| `DPIClassifierProofs!TypeCorrect`, `AnswersCounted`, `SkipsAreAllowed`, `MatchesInOrder` | the four invariants of `dpi_classify` |
| `GatewayProofs!Invariance` | `Inv` is an invariant for all pipelines, callers, queue counts, ports, lists and nodes |
| `GatewayProofs!TypeCorrect`, `StartStopPromise`, `IndexNeverOut`, `PoolsAlwaysFound`, `PortsUpWhilePolled`, `NothingLeft` | the six invariants of `gateway_life` |
| `PacketPipelineProofs!Invariance`, `TypeCorrect` | `Inv` and the types, for all buffers, frames, burst sizes, quotas and widths |
| `PacketPipelineProofs!BuffersAccounted`, `StatsAccounted`, `HeadersUnderstood` | the three invariants of `pipeline_bursts` |

**RingQueue.** Assumptions: the named ASSUMEs of `RingQueue` (the index width is a multiple
of the size and at least twice it, as 2^32 is for every power of two up to 2^31; no thread is on both sides) and
`OneThreadPerSide`, the hypothesis of each theorem: `ring_queue.cpp` always
calls the single-producer and single-consumer operations (lines 35, 41, 49), whatever `sp` and
`sc` the constructor was given, so a second thread on a side would break the ring.  `IndicesOrdered` is inductive together with the types and `PromiseKept`: besides the
cyclic order consumer tail, consumer head, producer tail, producer head within
the capacity it says, for every thread, which two indices its call stands
between and that the burst it decided on still fits, though the other side has moved since.  The
argument uses eight lemmas on wrapping indices (`AdvanceHead`, `AdvanceTail`,
`DistanceSplit` and others).  `RaceFree` needs one more fact, that indices less
than a ring apart have different slots (`SlotsDistinct`), which is arithmetic on
remainders.

The refinement has the same assumptions.  The queue is the window of slots between
the two tails.  Three lemmas say what happens to a window when its leading end
moves (`Extended`), its trailing end moves (`Shortened`) and a slot beyond it is
written (`Untouched`).  `Held` is the invariant on data: the window is injective and
is what is owed, a producer's burst is new and its copied part lies behind its
tail, a consumer's copied part is the front of the queue.  Every action but the two
publishing ones then leaves the queue alone; publishing by a producer is `Put`, by a
consumer `Take`.

**MinimalDpdk.** Assumptions: sizes are positive, ports are numbers and the pool is
finite (`BufferAssumption`), without which buffers cannot be counted.  The packets on
their way are four sequences, the TX lcore's array, the ring, the RX lcore's array
and the NIC's queue.  `InOrder` is about their concatenation; the proof is about
each of them and each pair (`Ordered`), because a step moves the front of one to the
end of the next, drops the front, or appends a frame with a new stamp.  `Owned`
says that the pool, the NIC's sending side and these four are disjoint and together
the pool that was created; that no buffer is there twice follows from the order,
since stamps rise strictly (`NoRepetition`), so that `OneOwner`, which counts, is a
consequence.  `Lifetimes` ties the lcores to where `main` stands, and `Sized`
says that a burst that was sized still fits though the other lcore has moved since.

**UBBMeter.** Assumptions: the named ASSUMEs of `UBBMeter` and `Divided`, that no two threads
update the same key and that only the thread that updates a key resets it: without it the
statement is false, as `meter_first_packet` shows.  The map races in divided
deployments, too, and what is proved is proved until it does: `Inv` is `Orderly` unless `raced`.
`BilledExactly` is not inductive: it does not say where an open call stands.  `Orderly` does: for a thread
inside `update_counter` the key is absent, being inserted or present as its stage says, and
the counter is what was charged, or after the first addition what is due (`CallOpen`); a
field nobody is updating agrees with its bill exactly (`Settled`); while a thread stands in a loop
nobody changes the map (`Exclusive`), and whoever erases a key may reset it (`Erasures`).  This is
what lets an insertion or erasure be taken apart into a beginning and an end.  `raced`
is never reset, so the premise only ever gets lost (`RacedStays`).

`WarmForGood` is the use of this for a deployment: if nothing is reset, then from the
state on in which every key has its counter and nobody is inserting, nobody ever inserts
again, and the premise holds for good.

A read loads one counter after the other while others bill.  `ReadInv` says, for every
read that is open, that what it has summed and what has been *charged* for the fields to
come is at least the bill when it began, and what it has summed and what is *due* for
them at most the bill now (`Bracketed`): loading a field moves its amount from the
second term to the first, and billing only raises the right sides.  The fields to come of
a loop are those of the entry it stands at and of every entry it has not come by yet
(`ToCome`).  When nothing is left to load these are the two bounds of `ReadsWithinInterval`.  `Bracketed` holds
only for a read of one key that nobody else resets, which the property says, too; a
loop and a reset by another thread would race.

**QoECollector.** Assumptions: the sizes are positive and the arguments numbers.
`CountersAgree` is about a histogram and the calls under way; with it, losses need
to be told from losses whose packet is not in the histogram yet (`LateLosses`),
because only in the last step of a call can the loss count be ahead.  Nothing is assumed
about how many threads there are: at most `MaxSamples` packets are counted, and so at most
that many calls are open.  For the reports, `QuietInv` says of
each report during which no writer was under way what it has collected up to the flow
its loop is at (`Listing`, `Sampling`, `Flushing`, `Rating`).  `QuietFlushesExact` has a
hypothesis that leaves out a wrap the code does have: `ClockFits`, the
clock has not reached 2^64 ns, where ages would be differences modulo 2^64, which the
run's bounds satisfy.  The wrap of `100 * losses` is not left out: the property itself says
for which reports it claims the rate (`Wraps`).

**DPIClassifier.** Assumptions: signatures, files, payloads and guardrails are records
and sequences of numbers; there is at least one class.  `CountsAreAnswers`
is inductive once the stage of a call says what result it holds (`Held`).
`DegradedOnlyIfEnabled` needs that a worker about to store its verdict has the one of
the present guardrails unless `raced` (`Verdicts`).  `MatchesInOrder` is about data:
`FoundOccurs` shows, for every payload, pattern, offset and depth, that the loop's test
of each position the code tries and the definition by the window, its suffixes and prefixes
agree, an empty pattern and a window cut short by the payload's end included; then the least
index that is found is the first that occurs.  A load sorts the vector and a removal
keeps it sorted (`Ordered`), so until an update the first has the highest priority.

**Sums.** `SumLemmas` shows that the community modules' fold over a set adds one element
at a time, in any order, and so what sums of changed functions and of
united sets are.  These are inductions; a theorem with an operator as parameter cannot
be used, so the property to prove is given as the *set* of the numbers, or of the
subsets of a finite set, that have it (`NatSetInduction`, `SubsetInduction`), and a
minimal counterexample refuted.

**Gateway.** Assumptions: the ASSUMEs of `Gateway` (`main` may call every pipeline;
queue counts are natural numbers; ports are numbered from 0; a list of configurations is
a sequence of numbers; node 0, which `main` uses, is a node).  The properties are not
inductive, because calls take several steps.  `WorkerInv` adds that a thread is
joinable exactly while its loop exists (`Joined`), what a call that is alone on a
pipeline may rely on at each of its steps (`Calls`), that a pipeline in its
destructor is stopped or being stopped (`StopPending`) and what the local copy of the shared index
may be (`Indices`).  `MainInv` says when ports are needed (`PortsNeeded`: a pipeline
is running, starting or still looping) and that they are up then, and where the
pipelines stand when `main` is past its loop (`MainStands`).  Each operation of a part
is proved to keep that part's invariant once, whatever `main` does, and each action of
`Gateway` cites these lemmas.

**PacketPipeline.** Assumptions: `FrameAssumption`, the widths of the fields, and
`SizeAssumption`.  `BuffersAccounted` follows from
`CopiesExplained`, a buffer is in circulation once and once more for each drop, which needs lemmas on how often a buffer occurs in a
sequence that is extended (`TimesAppend`) or split (`TimesSplit`), because bursts are
received from and handed on as sequences, in part.  `StatsAccounted` follows from a
statement about the middle of a burst (`Counted`: packets looked at are counted, the others are
in the array).  `HeadersUnderstood` rests on the layout of a
well-formed frame (`Layout`), from which in network byte order the headers are found (`FoundIfBigEndian`), and the wrapping
subtraction of lengths is exact (`PayloadExact`).

**Only model-checked.** Liveness, which is beyond the prover: `EveryPacketDelivered`,
`SignalStops`, `RingDrains`, `AlonePollsAll`, `SignalEnds`.  What the
violation runs find is where theorems end: the meter's need `Divided`
(`meter_first_packet`), the collector's rates a report nobody writes during (`qoe_loss`),
the priorities a vector without updates (`dpi_priority`), and the pipeline's buffers one that
was never dropped (`pipeline_frees`).
Every other property of a passing
run is a theorem.  No module of the project declares a RECURSIVE operator.  The inductive
invariants of the application, the meter, the collector and the classifier also pass
TLC within the bounds of their runs.

## 6. Not modelled

* `BatchProcessor`: it reads and writes through `pkt->userdata`, a field current versions
  of `rte_mbuf` do not have, which nothing in the repository sets, in pools created
  without a private area.  No call of it has an effect that could be modelled.
* `MempoolManager::alloc_pkt`, `free_pkt` and `get_stats`: they look a pool up, which is
  modelled, and hand on.  The life of a buffer is in `MinimalDpdk` and `PacketPipeline`.
* The helpers of `dpdk_common_modifications.h` that `example_complete_pipeline` does not call,
  and its address swap.
* The rest of header parsing, rewriting, hashing and printing: pure functions of data.
* Time stamps and byte totals in the meter and the collector beyond those
  named; CPU affinity, NUMA placement, prefetching: no effect on results.
* `heuristic_classify`, `max_subscribers_`, `stateless` and `max_payloads`: never
  used by the code.

Hazards seen and left out of the list, because no model here would show more than the
line does: a port set up with a pool that is NULL (`src/dpdk/pmd_driver.cpp:68`); the
length of a packet cut to 16 bits (`src/dpdk/mempool_manager.cpp:57`); port 0 polled
whatever the port mask (`examples/minimal_dpdk.cpp:472`); uninitialised counts in the
rollup of an absent key (`src/metering/ubb_meter.cpp:57`); the limit on subscribers that is
never read (`include/ubb_meter.h:96`); degraded mode that nothing but `set_guardrails` ends
(`src/dpi/classifier_pipeline.cpp:119`).

## 7. Plan

Done, in the order of importance: `RingQueue` with `BoundedFifo`, its invariants and the refinement
proved; `MinimalDpdk`, `UBBMeter`, `QoECollector` and `DPIClassifier` with their proofs;
`WorkerPipeline`, `PMDDriver` and `MempoolManager`, composed in `Gateway`, and its proofs;
`PacketPipeline` and its proofs.  Left:

1. A composition of workers with the shared meter, collector and classifier, once the
   code has one: `WorkerPipeline` calls no processor as it stands.
2. `MinimalDpdk` over `RingQueue` itself in place of the queue it implements.
3. A proof that the lcores of `MinimalDpdk` implement a bounded queue with drops, from `Ordered` and `Owned`.
4. Violation runs for the disagreements of section 4 that have none, and for duplicate ids
   (`docs/dpi.md:59`).
