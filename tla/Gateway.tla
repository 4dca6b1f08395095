------------------------------ MODULE Gateway ------------------------------
(***************************************************************************)
(* src/main.cpp over the driver, the pools and the pipelines: what main    *)
(* does from the EAL to the destructors, with a signal at any moment.      *)
(*                                                                         *)
(* main's loop only waits; its comment says that a real implementation     *)
(* would drive the worker pipelines there, and docs/architecture.md draws  *)
(* such a gateway.  The model has that application: while it serves, main  *)
(* adds pools, brings ports up and down and starts and stops pipelines     *)
(* through the public calls, and another thread may also start and stop    *)
(* some.  It uses the driver while no pipeline runs, and starts pipelines  *)
(* when every node has its pool and the driver has answered that the ports *)
(* are up.  Doing nothing is among its choices, which is main as it stands.*)
(***************************************************************************)
EXTENDS Integers, FiniteSets, Sequences

CONSTANTS
  Workers, Controllers, MayControl, QueueCount,   \* see WorkerPipeline
  Ports, ConfigLists,                             \* see PMDDriver
  Nodes,                                          \* see MempoolManager
  Main                                            \* the controller main is

ASSUME ControlAssumption ==
  /\ Main \in Controllers
  /\ MayControl \subseteq Controllers \X Workers
  /\ \A w \in Workers : <<Main, w>> \in MayControl
ASSUME QueueAssumption == QueueCount \in [Workers -> Nat]
ASSUME PortAssumption == Ports = 0..(Cardinality(Ports) - 1)
ASSUME ListAssumption == ConfigLists \subseteq Seq(Nat)
ASSUME NodeAssumption == Nodes \subseteq Nat /\ 0 \in Nodes

VARIABLES running, joinable, loop, left, at, queueIdx, stage, target,
          spawnFailed, overlapped, terminated
VARIABLES eal, configs, dev, initAnswer, startAnswer, astray
VARIABLES registered, mempools
VARIABLES
  main,           \* where main stands
  signalled,      \* the running flag of main.cpp is false
  ended           \* pipelines whose destructor has begun

W == INSTANCE WorkerPipeline
D == INSTANCE PMDDriver
P == INSTANCE MempoolManager

workerVars == <<running, joinable, loop, left, at, queueIdx, stage, target,
                spawnFailed, overlapped, terminated>>
driverVars == <<eal, configs, dev, initAnswer, startAnswer, astray>>
poolVars == <<registered, mempools>>
mainVars == <<main, signalled, ended>>
vars == <<workerVars, driverVars, poolVars, mainVars>>

Init ==
  /\ W!Init /\ D!Init /\ P!Init
  /\ main = "eal" /\ signalled = FALSE /\ ended = {}

ProcessRuns == main # "done" /\ ~terminated

AllIdle == \A c \in Controllers : stage[c] = "idle"

-----------------------------------------------------------------------------
(* main before its loop *)

\* return 1: no pipeline has been built.
Fail == main' = "return" /\ ended' = Workers

MainEal ==
  /\ main = "eal"
  /\ \/ D!InitEal /\ main' = "mempool" /\ UNCHANGED ended
     \/ Fail /\ UNCHANGED driverVars
  /\ UNCHANGED <<workerVars, poolVars, signalled>>

MainMempool ==
  /\ main = "mempool"
  /\ \/ P!InitMempool(0) /\ main' = "serve" /\ UNCHANGED ended
     \/ Fail /\ UNCHANGED poolVars
  /\ UNCHANGED <<workerVars, driverVars, signalled>>

\* SIGINT or SIGTERM.
SignalHandler ==
  /\ ProcessRuns /\ ~signalled
  /\ signalled' = TRUE
  /\ UNCHANGED <<workerVars, driverVars, poolVars, main, ended>>

-----------------------------------------------------------------------------
(* The loop: the application *)

Serving == main = "serve" /\ ~signalled /\ ~terminated

NoneRuns == AllIdle /\ \A w \in Workers : ~running[w]

AddPool ==
  /\ Serving /\ configs = <<>>
  /\ \E node \in Nodes : P!InitMempool(node)
  /\ UNCHANGED <<workerVars, driverVars, mainVars>>

UseDriver ==
  /\ Serving /\ NoneRuns
  /\ \/ \E l \in ConfigLists : D!InitPorts(l)
     \/ configs # <<>> /\ (D!StartPorts \/ D!StopPorts)
  /\ UNCHANGED <<workerVars, poolVars, mainVars>>

StartPipeline ==
  /\ Serving /\ D!PortsUp /\ registered = Nodes
  /\ \E c \in Controllers, w \in Workers : W!StartTest(c, w)
  /\ UNCHANGED <<driverVars, poolVars, mainVars>>

StopPipeline ==
  /\ Serving
  /\ \E c \in Controllers, w \in Workers : W!StopClear(c, w)
  /\ UNCHANGED <<driverVars, poolVars, mainVars>>

CallStep(c) ==
  /\ ProcessRuns
  /\ W!CallStep(c)
  /\ UNCHANGED <<driverVars, poolVars, mainVars>>

LoopStep(w) ==
  /\ ProcessRuns
  /\ W!LoopStep(w)
  /\ UNCHANGED <<driverVars, poolVars, mainVars>>

-----------------------------------------------------------------------------
(* After the loop *)

\* The loop is left when main and the other callers are through.
LeaveLoop ==
  /\ main = "serve" /\ signalled /\ ~terminated /\ AllIdle
  /\ main' = "return"
  /\ UNCHANGED <<workerVars, driverVars, poolVars, signalled, ended>>

\* ~WorkerPipeline stops the pipeline,
DestroyPipeline ==
  /\ main = "return"
  /\ \E w \in Workers \ ended : W!StopClear(Main, w) /\ ended' = ended \cup {w}
  /\ UNCHANGED <<driverVars, poolVars, main, signalled>>

\* ~MempoolManager keeps the pools, and ~PMDDriver, the first object made and
\* the last destroyed, stops the ports.
DestroyDriver ==
  /\ main = "return" /\ ended = Workers /\ AllIdle /\ ~terminated
  /\ D!StopPorts
  /\ main' = "done"
  /\ UNCHANGED <<workerVars, poolVars, signalled, ended>>

MainStep ==
  MainEal \/ MainMempool \/ LeaveLoop \/ DestroyPipeline \/ DestroyDriver

Next ==
  \/ MainStep \/ SignalHandler
  \/ AddPool \/ UseDriver \/ StartPipeline \/ StopPipeline
  \/ \E c \in Controllers : CallStep(c)
  \/ \E w \in Workers : LoopStep(w)

Spec == Init /\ [][Next]_vars

\* main's own code goes on, a call that has begun goes on, and so does each
\* worker thread; nobody has to call anything, and no signal has to come.
FairSpec ==
  /\ Spec
  /\ WF_vars(MainStep)
  /\ \A c \in Controllers : WF_vars(CallStep(c))
  /\ \A w \in Workers : WF_vars(LoopStep(w))

-----------------------------------------------------------------------------
(* Properties *)

TypeOK ==
  /\ W!TypeOK /\ D!TypeOK /\ P!TypeOK
  /\ main \in {"eal", "mempool", "serve", "return", "done"}
  /\ signalled \in BOOLEAN /\ ended \subseteq Workers

WorkersMatch == W!WorkersMatch

IndexInRange == W!IndexInRange

AlonePollsAll == W!AlonePollsAll

PoolsFound == P!PoolsFound

\* While a worker polls, the ports are up with all their queues: nobody stops
\* or reconfigures one under it, though stop only asks the loop to end.
PollsUsablePorts ==
  \A w \in Workers : W!Polling(w) => D!PortsUp /\ D!PortsUsable

\* Whatever failed and whenever the signal came, the process ends with no
\* worker thread, and with no port started but those init_ports had forgotten.
LeavesNothing ==
  main = "done" =>
    /\ D!Started \subseteq astray
    /\ \A w \in Workers : ~joinable[w] /\ loop[w] = "none"

\* A signal ends the process, unless calls on one pipeline overlapped: a
\* start that throws under a stop leaves that stop waiting for ever.
SignalEnds == signalled ~> ~ProcessRuns \/ overlapped # {}
=============================================================================
