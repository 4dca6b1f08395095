---------------------------- MODULE MinimalDpdk ----------------------------
(***************************************************************************)
(* examples/minimal_dpdk.cpp, the forwarding application: an RX lcore      *)
(* passes packet buffers through a single-producer single-consumer ring to *)
(* a TX lcore, a stats lcore prints, and main sets everything up, waits    *)
(* for the lcores and takes the ports down after a signal.                 *)
(*                                                                         *)
(* The ring is the queue module RingQueue implements; an enqueue or a      *)
(* dequeue sizes its burst in one step and moves it in a later one, as     *)
(* there.  Sleeping and printing have no state; of a print only the final  *)
(* statistics are kept.  The NIC and the mempool are outside the           *)
(* repository: the NIC takes a buffer of the pool for each frame it        *)
(* receives and gives it back when a frame is on the wire.                 *)
(***************************************************************************)
EXTENDS Integers, FiniteSets, SequencesExt

CONSTANTS
  Mbufs,          \* the buffers of pktmbuf_pool
  RingCapacity,   \* packets rx_to_tx_ring can hold (2047)
  BurstSize,      \* BURST_SIZE (64)
  RxDescriptors,  \* frames the NIC can hold for rx_burst
  MaxFrames,      \* bound on the frames that arrive
  Ports,          \* ports the EAL finds
  Enabled         \* enabled_portmask, as the set of its ports

ASSUME SizeAssumption ==
  /\ RingCapacity \in Nat \ {0} /\ BurstSize \in Nat \ {0}
  /\ RxDescriptors \in Nat \ {0} /\ MaxFrames \in Nat
ASSUME BufferAssumption == IsFiniteSet(Mbufs)
ASSUME PortAssumption == Ports \subseteq Nat /\ Enabled \subseteq Nat

VARIABLES
  main,           \* what main does next
  lcores,         \* rte_lcore_count(); they are numbered from 0
  port,           \* port -> its state
  forceQuit,
  pool,           \* buffers nobody holds
  frames,         \* frames received so far
  stamp,          \* buffer -> number of the frame in it
  swapped,        \* buffers whose MAC addresses are swapped
  nicRx, nicTx,   \* frames waiting for rx_burst; buffers being sent
  ring,           \* rx_to_tx_ring
  rx, rxBufs, rxCount,   \* RX lcore: step, bufs, nb_enqueued
  tx, txBufs, txCount,   \* TX lcore: step, bufs, nb_dequeued then nb_tx
  stats,                 \* stats lcore: step
  rxPackets, txPackets,  \* rx_packets, tx_packets
  shown                  \* the final statistics

setup == <<lcores, port>>
nic == <<frames, stamp, nicRx, nicTx>>
rxVars == <<rx, rxBufs, rxCount, rxPackets>>
txVars == <<tx, txBufs, txCount, txPackets>>
vars == <<main, setup, forceQuit, pool, nic, swapped, ring, rxVars, txVars,
          stats, shown>>

AtMost(n, m) == IF n <= m THEN n ELSE m

Init ==
  /\ main = "eal"
  /\ lcores \in 1..4
  /\ port = [p \in Ports |-> "down"]
  /\ forceQuit = FALSE
  /\ pool = {} /\ swapped = {}
  /\ frames = 0 /\ stamp = [m \in Mbufs |-> 0]
  /\ nicRx = <<>> /\ nicTx = {}
  /\ ring = <<>>
  /\ rx = "off" /\ rxBufs = <<>> /\ rxCount = 0 /\ rxPackets = 0
  /\ tx = "off" /\ txBufs = <<>> /\ txCount = 0 /\ txPackets = 0
  /\ stats = "off"
  /\ shown = [rx |-> 0, tx |-> 0, ring |-> 0, available |-> 0]

-----------------------------------------------------------------------------
(* main *)

\* rte_exit: the process ends.
Exit == main' = "exited"

\* Each of these calls may fail; main then exits at once.
MainSetup ==
  \/ /\ main = "eal" /\ (main' = "args" \/ Exit)
     /\ UNCHANGED pool
  \/ /\ main = "args"
     /\ IF Enabled = {} THEN Exit ELSE main' = "mempool" \/ Exit
     /\ UNCHANGED pool
  \/ /\ main = "mempool"
     /\ \/ main' = "ring" /\ pool' = Mbufs
        \/ Exit /\ UNCHANGED pool
  \/ /\ main = "ring" /\ (main' = "ports" \/ Exit)
     /\ UNCHANGED pool

NextPorts == {p \in Ports \cap Enabled : port[p] = "down"}

\* init_ports and configure_port, one port at a time; a failure leaves the
\* ports before it started.
InitPort ==
  /\ main = "ports"
  /\ NextPorts # {}
  /\ \/ /\ port' = [port EXCEPT ![CHOOSE p \in NextPorts :
                                     \A q \in NextPorts : p <= q] = "started"]
        /\ UNCHANGED main
     \/ Exit /\ UNCHANGED port
  /\ UNCHANGED lcores

\* The check on the number of lcores, after the ports.
PortsDone ==
  /\ main = "ports"
  /\ IF Ports = {} THEN Exit
     ELSE /\ NextPorts = {}
          /\ IF lcores < 3 THEN Exit ELSE main' = "launch"
  /\ UNCHANGED setup

\* rte_eal_remote_launch on lcores 1, 2 and, whenever there are three lcores,
\* 3: with exactly three, numbered from 0, that launch fails and is ignored.
Launch ==
  /\ main = "launch"
  /\ main' = "wait"
  /\ rx' = "poll" /\ tx' = "poll"
  /\ stats' = IF lcores > 3 THEN "loop" ELSE "off"
  /\ UNCHANGED <<lcores, port>>

Stopped(pc) == pc \in {"off", "exited"}

\* Mutant of WaitLcores: main waits for the receiving lcore only.
WaitRxOnly ==
  /\ main = "wait"
  /\ Stopped(rx)
  /\ main' = "final"

\* rte_eal_mp_wait_lcore
WaitLcores ==
  /\ main = "wait"
  /\ Stopped(rx) /\ Stopped(tx) /\ Stopped(stats)
  /\ main' = "final"

\* The last print_stats.
FinalStats ==
  /\ main = "final"
  /\ main' = "cleanup"
  /\ shown' = [rx |-> rxPackets, tx |-> txPackets, ring |-> Len(ring),
               available |-> Cardinality(pool)]

\* Stop and close every enabled port.
Cleanup ==
  /\ main = "cleanup"
  /\ main' = "done"
  /\ port' = [p \in Ports |-> IF p \in Enabled THEN "closed" ELSE port[p]]
  /\ UNCHANGED lcores

Main ==
  \/ MainSetup /\ UNCHANGED <<setup, forceQuit, nic, swapped, ring, rxVars,
                              txVars, stats, shown>>
  \/ (InitPort \/ PortsDone \/ Cleanup)
     /\ UNCHANGED <<forceQuit, pool, nic, swapped, ring, rxVars, txVars,
                    stats, shown>>
  \/ Launch /\ UNCHANGED <<forceQuit, pool, nic, swapped, ring, rxBufs,
                           rxCount, rxPackets, txBufs, txCount, txPackets, shown>>
  \/ WaitLcores /\ UNCHANGED <<setup, forceQuit, pool, nic, swapped, ring,
                               rxVars, txVars, stats, shown>>
  \/ FinalStats /\ UNCHANGED <<setup, forceQuit, pool, nic, swapped, ring,
                               rxVars, txVars, stats>>

Running == main \notin {"done", "exited"}

\* SIGINT or SIGTERM, at any time.
SignalHandler ==
  /\ Running
  /\ ~forceQuit /\ forceQuit' = TRUE
  /\ UNCHANGED <<main, setup, pool, nic, swapped, ring, rxVars, txVars, stats,
                 shown>>

-----------------------------------------------------------------------------
(* The RX lcore *)

RxSame == UNCHANGED <<main, setup, forceQuit, txVars, stats, shown>>

\* The loop test and rte_eth_rx_burst.
RxPoll ==
  /\ rx = "poll"
  /\ \/ /\ forceQuit
        /\ rx' = "exited"
        /\ UNCHANGED <<rxBufs, nicRx>>
     \/ /\ ~forceQuit
        /\ nicRx # <<>>
        /\ \E n \in 1..AtMost(BurstSize, Len(nicRx)) :
             /\ rxBufs' = SubSeq(nicRx, 1, n)
             /\ nicRx' = SubSeq(nicRx, n + 1, Len(nicRx))
        /\ rx' = "count"
  /\ RxSame
  /\ UNCHANGED <<pool, frames, stamp, nicTx, swapped, ring, rxCount, rxPackets>>

\* rx_packets += nb_rx
RxCounted ==
  /\ rx = "count"
  /\ rxPackets' = rxPackets + Len(rxBufs)
  /\ rx' = "reserve"
  /\ RxSame
  /\ UNCHANGED <<pool, nic, swapped, ring, rxBufs, rxCount>>

\* rte_ring_sp_enqueue_burst sizes the burst by the room it sees
RxReserve ==
  /\ rx = "reserve"
  /\ rxCount' = AtMost(Len(rxBufs), RingCapacity - Len(ring))
  /\ rx' = "enqueue"
  /\ RxSame
  /\ UNCHANGED <<pool, nic, swapped, ring, rxBufs, rxPackets>>

\* Mutant of RxEnqueue: the whole burst stays in the array it is freed from.
RxEnqueueKeeps ==
  /\ rx = "enqueue"
  /\ ring' = ring \o SubSeq(rxBufs, 1, rxCount)
  /\ rx' = "free"
  /\ RxSame
  /\ UNCHANGED <<pool, nic, swapped, rxBufs, rxCount, rxPackets>>

\* Mutant of RxEnqueue: the newest packets of the burst are the ones kept.
RxEnqueueNewest ==
  /\ rx = "enqueue"
  /\ ring' = ring \o SubSeq(rxBufs, Len(rxBufs) - rxCount + 1, Len(rxBufs))
  /\ rxBufs' = SubSeq(rxBufs, 1, Len(rxBufs) - rxCount)
  /\ rx' = "free"
  /\ RxSame
  /\ UNCHANGED <<pool, nic, swapped, rxCount, rxPackets>>

\* and moves it; what did not fit is left in bufs.
RxEnqueue ==
  /\ rx = "enqueue"
  /\ ring' = ring \o SubSeq(rxBufs, 1, rxCount)
  /\ rxBufs' = SubSeq(rxBufs, rxCount + 1, Len(rxBufs))
  /\ rx' = "free"
  /\ RxSame
  /\ UNCHANGED <<pool, nic, swapped, rxCount, rxPackets>>

\* The packets the ring did not take are dropped.
RxFree ==
  /\ rx = "free"
  /\ pool' = pool \cup ToSet(rxBufs)
  /\ rxBufs' = <<>>
  /\ rxCount' = 0
  /\ rx' = "poll"
  /\ RxSame
  /\ UNCHANGED <<nic, swapped, ring, rxPackets>>

RxStep == RxPoll \/ RxCounted \/ RxReserve \/ RxEnqueue \/ RxFree

-----------------------------------------------------------------------------
(* The TX lcore *)

TxSame == UNCHANGED <<main, setup, forceQuit, rxVars, stats, shown>>

\* Mutant of TxPoll: the ring is drained in full bursts only.
TxPollFullBurst ==
  /\ tx = "poll"
  /\ \/ /\ forceQuit
        /\ tx' = "exited"
        /\ UNCHANGED txCount
     \/ /\ ~forceQuit
        /\ Len(ring) >= BurstSize
        /\ txCount' = BurstSize
        /\ tx' = "dequeue"
  /\ TxSame
  /\ UNCHANGED <<pool, nic, swapped, ring, txBufs, txPackets>>

\* The loop test, and rte_ring_sc_dequeue_burst sizing its burst
TxPoll ==
  /\ tx = "poll"
  /\ \/ /\ forceQuit
        /\ tx' = "exited"
        /\ UNCHANGED txCount
     \/ /\ ~forceQuit
        /\ ring # <<>>
        /\ txCount' = AtMost(BurstSize, Len(ring))
        /\ tx' = "dequeue"
  /\ TxSame
  /\ UNCHANGED <<pool, nic, swapped, ring, txBufs, txPackets>>

\* and moving it to bufs.
TxDequeue ==
  /\ tx = "dequeue"
  /\ txBufs' = SubSeq(ring, 1, txCount)
  /\ ring' = SubSeq(ring, txCount + 1, Len(ring))
  /\ tx' = "swap"
  /\ TxSame
  /\ UNCHANGED <<pool, nic, swapped, txCount, txPackets>>

\* Mutant of TxSwap: the loop stops one packet early.
TxSwapShort ==
  /\ tx = "swap"
  /\ LET turned == {txBufs[i] : i \in 1..(Len(txBufs) - 1)}
     IN  swapped' = (swapped \ turned) \cup (turned \ swapped)
  /\ tx' = "send"
  /\ TxSame
  /\ UNCHANGED <<pool, nic, ring, txBufs, txCount, txPackets>>

\* The MAC addresses of every packet trade places.
TxSwap ==
  /\ tx = "swap"
  /\ LET turned == ToSet(txBufs)
     IN  swapped' = (swapped \ turned) \cup (turned \ swapped)
  /\ tx' = "send"
  /\ TxSame
  /\ UNCHANGED <<pool, nic, ring, txBufs, txCount, txPackets>>

\* Mutant of TxSend: what the NIC does not take is deducted once more.
TxSendDeducted ==
  /\ tx = "send"
  /\ \E n \in 0..Len(txBufs) :
       /\ nicTx' = nicTx \cup {txBufs[i] : i \in 1..n}
       /\ txBufs' = SubSeq(txBufs, n + 1, Len(txBufs))
       /\ txCount' = n - (Len(txBufs) - n)
  /\ tx' = "free"
  /\ TxSame
  /\ UNCHANGED <<pool, frames, stamp, nicRx, swapped, ring, txPackets>>

\* rte_eth_tx_burst takes a prefix of the burst.
TxSend ==
  /\ tx = "send"
  /\ \E n \in 0..Len(txBufs) :
       /\ nicTx' = nicTx \cup {txBufs[i] : i \in 1..n}
       /\ txBufs' = SubSeq(txBufs, n + 1, Len(txBufs))
       /\ txCount' = n
  /\ tx' = "free"
  /\ TxSame
  /\ UNCHANGED <<pool, frames, stamp, nicRx, swapped, ring, txPackets>>

\* What the NIC did not take is freed,
TxFree ==
  /\ tx = "free"
  /\ pool' = pool \cup ToSet(txBufs)
  /\ txBufs' = <<>>
  /\ tx' = "count"
  /\ TxSame
  /\ UNCHANGED <<nic, swapped, ring, txCount, txPackets>>

\* Mutant of TxCounted: a whole burst is counted as sent.
TxCountedBurst ==
  /\ tx = "count"
  /\ txPackets' = txPackets + BurstSize
  /\ txCount' = 0
  /\ tx' = "poll"
  /\ TxSame
  /\ UNCHANGED <<pool, nic, swapped, ring, txBufs>>

\* and the rest is counted as sent.
TxCounted ==
  /\ tx = "count"
  /\ txPackets' = txPackets + txCount
  /\ txCount' = 0
  /\ tx' = "poll"
  /\ TxSame
  /\ UNCHANGED <<pool, nic, swapped, ring, txBufs>>

TxStep ==
  TxPoll \/ TxDequeue \/ TxSwap \/ TxSend \/ TxFree \/ TxCounted

-----------------------------------------------------------------------------
(* The stats lcore, and the NIC *)

StatsRest ==
  UNCHANGED <<main, setup, forceQuit, pool, nic, swapped, ring, rxVars,
              txVars, shown>>

\* Mutant of StatsStep: the thread never looks at force_quit again.
StatsStepForever ==
  /\ \/ stats = "loop" /\ stats' = "print"
     \/ stats = "print" /\ stats' = "loop"
  /\ StatsRest

\* The loop test, then sleep and print.
StatsStep ==
  /\ \/ stats = "loop" /\ stats' = IF forceQuit THEN "exited" ELSE "print"
     \/ stats = "print" /\ stats' = "loop"
  /\ StatsRest

\* A frame arrives on port 0, which is the port both lcores use, while it is
\* started and a buffer and a descriptor are left.
Arrive ==
  /\ Running
  /\ 0 \in Ports /\ port[0] = "started"
  /\ frames < MaxFrames
  /\ Len(nicRx) < RxDescriptors
  /\ \E m \in pool :
       /\ pool' = pool \ {m}
       /\ nicRx' = Append(nicRx, m)
       /\ stamp' = [stamp EXCEPT ![m] = frames + 1]
       /\ swapped' = swapped \ {m}
  /\ frames' = frames + 1
  /\ UNCHANGED <<main, setup, forceQuit, nicTx, ring, rxVars, txVars, stats, shown>>

\* A sent frame's buffer goes back to the pool.
Sent ==
  /\ Running
  /\ \E m \in nicTx : nicTx' = nicTx \ {m} /\ pool' = pool \cup {m}
  /\ UNCHANGED <<main, setup, forceQuit, frames, stamp, nicRx, swapped, ring,
                 rxVars, txVars, stats, shown>>

Next == Main \/ SignalHandler \/ RxStep \/ TxStep \/ StatsStep \/ Arrive \/ Sent

Spec == Init /\ [][Next]_vars

\* The threads of main and the three lcores keep running.
Fairness ==
  WF_vars(Main) /\ WF_vars(RxStep) /\ WF_vars(TxStep) /\ WF_vars(StatsStep)

FairSpec == Spec /\ Fairness

-----------------------------------------------------------------------------
(* Properties *)

TypeOK ==
  /\ main \in {"eal", "args", "mempool", "ring", "ports", "launch", "wait",
               "final", "cleanup", "done", "exited"}
  /\ lcores \in 1..4
  /\ port \in [Ports -> {"down", "started", "closed"}]
  /\ forceQuit \in BOOLEAN
  /\ pool \in SUBSET Mbufs /\ swapped \in SUBSET Mbufs /\ nicTx \in SUBSET Mbufs
  /\ frames \in Nat /\ stamp \in [Mbufs -> Nat]
  /\ nicRx \in Seq(Mbufs) /\ ring \in Seq(Mbufs)
  /\ rxBufs \in Seq(Mbufs) /\ txBufs \in Seq(Mbufs)
  /\ rx \in {"off", "poll", "count", "reserve", "enqueue", "free", "exited"}
  /\ tx \in {"off", "poll", "dequeue", "swap", "send", "free", "count", "exited"}
  /\ stats \in {"off", "loop", "print", "exited"}
  /\ rxCount \in Nat /\ txCount \in Nat /\ rxPackets \in Nat /\ txPackets \in Nat
  /\ shown \in [rx : Nat, tx : Nat, ring : Nat, available : Nat]

\* The packets between the NIC's two sides, oldest first.
Pipeline == txBufs \o ring \o rxBufs \o nicRx

\* Every buffer has one owner from rx_burst to rte_pktmbuf_free: none is
\* leaked, freed while in use or freed twice on the drop and error paths.
OneOwner ==
  main \notin {"eal", "args", "mempool", "exited"} =>
    /\ pool \cup nicTx \cup ToSet(Pipeline) = Mbufs
    /\ Cardinality(pool) + Cardinality(nicTx) + Len(Pipeline) = Cardinality(Mbufs)

\* Packets leave in the order they came, whichever of them are dropped.
InOrder ==
  \A i, j \in 1..Len(Pipeline) : i < j => stamp[Pipeline[i]] < stamp[Pipeline[j]]

\* Packets the RX lcore has in hand and has counted.
RxCountedInHand ==
  IF rx \in {"reserve", "enqueue", "free"} THEN Len(rxBufs) ELSE 0

\* Packets the TX lcore has in hand or has sent and not counted.
TxUncounted ==
  CASE tx \in {"swap", "send"} -> Len(txBufs)
    [] tx = "free"  -> Len(txBufs) + txCount
    [] tx = "count" -> txCount
    [] OTHER -> 0

\* What was transmitted and what is still on its way was received first: the
\* counters of the two lcores never disagree on more than drops explain.
SentWasReceived ==
  txPackets + TxUncounted + Len(ring) + RxCountedInHand <= rxPackets

\* Only frames with their addresses swapped are sent, even when a buffer
\* comes round again.
SentSwapped == nicTx \subseteq swapped

\* When the final statistics are printed nothing moves any more: they are
\* what the counters stay at, and no lcore went away with packets in hand.
FinalStatsFinal ==
  main \in {"cleanup", "done"} =>
    /\ shown.rx = rxPackets /\ shown.tx = txPackets /\ shown.ring = Len(ring)
    /\ shown.tx + shown.ring <= shown.rx
    /\ rxBufs = <<>> /\ txBufs = <<>>

\* A signal ends the program.
SignalStops == forceQuit ~> ~Running

\* A packet in the ring is always taken out in the end, unless the program is
\* told to quit.
RingDrains == \A m \in Mbufs : []<>(m \notin ToSet(ring) \/ forceQuit)
=============================================================================
