--------------------------- MODULE GatewayProofs ---------------------------
(***************************************************************************)
(* The safety of Gateway for all pipelines, controllers, queue counts,     *)
(* ports, configuration lists and nodes.  The inductive invariant Inv adds *)
(* to the properties what open calls and running loops have in common, and *)
(* which of them need the ports.                                           *)
(***************************************************************************)
EXTENDS Gateway, SequenceTheorems, TLAPS

-----------------------------------------------------------------------------
(* The inductive invariant *)

CallsTyped == \A c \in Controllers : stage[c] # "idle" => target[c] \in Workers

\* A thread object is joinable from its creation until its join.
Joined == \A w \in Workers : joinable[w] <=> loop[w] # "none"

\* Nobody has called w but one controller at most, which has got to where
\* running_, the thread and the last failure say.
Alone(w) ==
  /\ \A c, d \in W!InCall(w) : c = d
  /\ w \in spawnFailed => running[w]
  /\ \A c \in W!InCall(w) :
       /\ stage[c] \in {"set", "test", "join"} => ~running[w]
       /\ stage[c] \in {"set", "spawn"} => loop[w] = "none"
       /\ stage[c] = "spawn" => running[w] /\ w \notin spawnFailed
       /\ stage[c] = "join" => loop[w] # "none"
  /\ W!InCall(w) = {} =>
       IF running[w] /\ w \notin spawnFailed THEN W!Live(w) ELSE loop[w] = "none"

Calls ==
  /\ \A w \in Workers \ overlapped : Alone(w)
  /\ terminated => overlapped # {}

\* A loop that goes on although running_ is false has a stop waiting for it.
StopPending ==
  \A w \in Workers :
    W!Polling(w) /\ ~running[w] =>
      \E c \in W!InCall(w) : stage[c] \in {"test", "join"}

Indices ==
  /\ \A w \in Workers : W!Polling(w) => QueueCount[w] > 0 /\ left[w] > 0
  /\ (\A v, w \in Workers : QueueCount[v] = QueueCount[w]) =>
       \A w \in Workers :
         /\ QueueCount[w] > 0 => queueIdx < QueueCount[w]
         /\ loop[w] = "store" => at[w] < QueueCount[w]

WorkerInv ==
  W!TypeOK /\ CallsTyped /\ Joined /\ Calls /\ StopPending /\ Indices

\* Listed ports are usable unless closed once init_ports succeeded, and a
\* started port is listed or was forgotten.
DriverInv ==
  /\ D!TypeOK
  /\ initAnswer => \A p \in D!Listed :
                     p \in Ports /\ dev[p] \in {"ready", "started", "closed"}
  /\ D!PortsUsable
  /\ D!Started \subseteq astray \cup D!Listed

PoolInv == P!TypeOK /\ P!PoolsFound

\* Some pipeline runs, or is about to.
PortsNeeded ==
  \/ \E w \in Workers : running[w] \/ W!Polling(w)
  \/ \E c \in Controllers : stage[c] \in {"set", "spawn"}

\* Before main serves nothing runs and before it returns no
\* destructor does; when it returns only its own stops do,
\* and a pipeline whose destructor is through has no thread.
MainStands ==
  /\ main \in {"eal", "mempool", "serve", "return", "done"}
  /\ signalled \in BOOLEAN /\ ended \subseteq Workers
  /\ main \in {"eal", "mempool", "serve"} => ended = {}
  /\ main \in {"eal", "mempool"} =>
       /\ AllIdle
       /\ \A w \in Workers : ~running[w] /\ ~joinable[w]
  /\ main = "return" =>
       /\ \A c \in Controllers \ {Main} : stage[c] = "idle"
       /\ stage[Main] \in {"idle", "test", "join"}
       /\ stage[Main] # "idle" => target[Main] \in ended
       /\ \A w \in ended : /\ ~running[w]
                           /\ joinable[w] => stage[Main] # "idle" /\ target[Main] = w
  /\ LeavesNothing

MainInv == (PortsNeeded => D!PortsUp) /\ MainStands

Inv == WorkerInv /\ DriverInv /\ PoolInv /\ MainInv

-----------------------------------------------------------------------------
(* Calls of start and stop *)

\* A start that has seen running_ false keeps the invariant.
LEMMA StartTestKeeps ==
  ASSUME WorkerInv, NEW c \in Controllers, NEW w \in Workers, W!StartTest(c, w)
  PROVE  WorkerInv'
  <1> USE DEF WorkerInv, W!StartTest, W!Begin, W!loops, W!InCall
  <1>1. stage' = [stage EXCEPT ![c] = "set"] /\ target' = [target EXCEPT ![c] = w]
    OBVIOUS
  <1>2. W!TypeOK' /\ CallsTyped'
    BY <1>1 DEF W!TypeOK, CallsTyped
  <1>3. Joined' /\ Indices'
    BY DEF Joined, Indices, W!Polling
  <1>4. Calls'
    BY <1>1 DEF Calls, Alone, W!TypeOK, W!Live
  <1>5. StopPending'
    BY <1>1 DEF StopPending, W!Polling, W!TypeOK
  <1> QED BY <1>2, <1>3, <1>4, <1>5

\* A stop that has cleared running_ keeps the invariant.
LEMMA StopClearKeeps ==
  ASSUME WorkerInv, NEW c \in Controllers, NEW w \in Workers, W!StopClear(c, w)
  PROVE  WorkerInv'
  <1> USE DEF WorkerInv, W!StopClear, W!Begin, W!loops, W!InCall
  <1>1. /\ stage' = [stage EXCEPT ![c] = "test"] /\ target' = [target EXCEPT ![c] = w]
        /\ running' = [running EXCEPT ![w] = FALSE]
    OBVIOUS
  <1>2. W!TypeOK' /\ CallsTyped'
    BY <1>1 DEF W!TypeOK, CallsTyped
  <1>3. Joined' /\ Indices'
    BY DEF Joined, Indices, W!Polling
  <1>4. Calls'
    BY <1>1 DEF Calls, Alone, W!TypeOK, W!Live
  <1>5. StopPending'
    BY <1>1 DEF StopPending, W!Polling, W!TypeOK
  <1> QED BY <1>2, <1>3, <1>4, <1>5

\* Setting running_ keeps the invariant.
LEMMA StartRunKeeps ==
  ASSUME WorkerInv, NEW c \in Controllers, W!StartRun(c)
  PROVE  WorkerInv'
  <1> USE DEF WorkerInv, W!StartRun, W!Goes, W!loops, W!InCall
  <1>1. /\ stage[c] = "set" /\ target[c] \in Workers
        /\ stage' = [stage EXCEPT ![c] = "spawn"] /\ target' = target
        /\ running' = [running EXCEPT ![target[c]] = TRUE]
    BY DEF CallsTyped, W!TypeOK
  <1>2. W!TypeOK' /\ CallsTyped'
    BY <1>1 DEF W!TypeOK, CallsTyped
  <1>3. Joined' /\ Indices'
    BY DEF Joined, Indices, W!Polling
  <1>4. Calls'
    BY <1>1 DEF Calls, Alone, W!TypeOK, W!Live
  <1>5. StopPending'
    BY <1>1 DEF StopPending, W!Polling, W!TypeOK
  <1> QED BY <1>2, <1>3, <1>4, <1>5

\* Creating the thread keeps the invariant; the process terminates only if
\* calls overlapped.
LEMMA StartSpawnKeeps ==
  ASSUME WorkerInv, NEW c \in Controllers, W!StartSpawn(c)
  PROVE  WorkerInv'
  <1> USE DEF WorkerInv, W!StartSpawn, W!Goes, W!loops, W!InCall
  <1>1. /\ stage[c] = "spawn" /\ target[c] \in Workers
        /\ stage' = [stage EXCEPT ![c] = "idle"]
        /\ target' = [target EXCEPT ![c] = W!NoPipeline]
    BY DEF CallsTyped, W!TypeOK
  <1>2. W!TypeOK' /\ CallsTyped'
    BY <1>1 DEF W!TypeOK, CallsTyped
  <1>3. Joined' /\ Indices'
    BY <1>1 DEF Joined, Indices, W!Polling, W!TypeOK
  <1>4. Calls'
    BY <1>1 DEF Calls, Alone, Joined, W!TypeOK, W!Live
  <1>5. StopPending'
    BY <1>1 DEF StopPending, W!Polling, W!TypeOK
  <1> QED BY <1>2, <1>3, <1>4, <1>5

\* So does a thread that could not be created,
LEMMA StartThrowKeeps ==
  ASSUME WorkerInv, NEW c \in Controllers, W!StartThrow(c)
  PROVE  WorkerInv'
  <1> USE DEF WorkerInv, W!StartThrow, W!Goes, W!loops, W!InCall
  <1>1. /\ stage[c] = "spawn" /\ target[c] \in Workers
        /\ stage' = [stage EXCEPT ![c] = "idle"]
        /\ target' = [target EXCEPT ![c] = W!NoPipeline]
    BY DEF CallsTyped, W!TypeOK
  <1>2. W!TypeOK' /\ CallsTyped'
    BY <1>1 DEF W!TypeOK, CallsTyped
  <1>3. Joined' /\ Indices'
    BY DEF Joined, Indices, W!Polling
  <1>4. Calls'
    BY <1>1 DEF Calls, Alone, W!TypeOK, W!Live
  <1>5. StopPending'
    BY <1>1 DEF StopPending, W!Polling, W!TypeOK
  <1> QED BY <1>2, <1>3, <1>4, <1>5

\* a stop that has asked whether there is a thread,
LEMMA StopTestKeeps ==
  ASSUME WorkerInv, NEW c \in Controllers, W!StopTest(c)
  PROVE  WorkerInv'
  <1> USE DEF WorkerInv, W!StopTest, W!Goes, W!loops, W!InCall
  <1>1. /\ stage[c] = "test" /\ target[c] \in Workers
        /\ IF joinable[target[c]]
           THEN stage' = [stage EXCEPT ![c] = "join"] /\ target' = target
           ELSE /\ stage' = [stage EXCEPT ![c] = "idle"]
                /\ target' = [target EXCEPT ![c] = W!NoPipeline]
    BY DEF CallsTyped, W!TypeOK
  <1>2. W!TypeOK' /\ CallsTyped'
    BY <1>1 DEF W!TypeOK, CallsTyped
  <1>3. Joined' /\ Indices'
    BY DEF Joined, Indices, W!Polling
  <1>4. Calls'
    BY <1>1 DEF Calls, Alone, Joined, W!TypeOK, W!Live
  <1>5. StopPending'
    BY <1>1 DEF StopPending, Joined, W!Polling, W!TypeOK
  <1> QED BY <1>2, <1>3, <1>4, <1>5

\* one whose join returned,
LEMMA StopJoinKeeps ==
  ASSUME WorkerInv, NEW c \in Controllers, W!StopJoin(c)
  PROVE  WorkerInv'
  <1> USE DEF WorkerInv, W!StopJoin, W!Goes, W!loops, W!InCall
  <1>1. /\ stage[c] = "join" /\ target[c] \in Workers
        /\ stage' = [stage EXCEPT ![c] = "idle"]
        /\ target' = [target EXCEPT ![c] = W!NoPipeline]
    BY DEF CallsTyped, W!TypeOK
  <1>2. W!TypeOK' /\ CallsTyped'
    BY <1>1 DEF W!TypeOK, CallsTyped
  <1>3. Joined' /\ Indices'
    BY <1>1 DEF Joined, Indices, W!Polling, W!TypeOK
  <1>4. Calls'
    BY <1>1 DEF Calls, Alone, Joined, W!TypeOK, W!Live
  <1>5. StopPending'
    BY <1>1 DEF StopPending, W!Polling, W!TypeOK
  <1> QED BY <1>2, <1>3, <1>4, <1>5

\* and one that finds the thread joined by another call.
LEMMA StopJoinTwiceKeeps ==
  ASSUME WorkerInv, NEW c \in Controllers, W!StopJoinTwice(c)
  PROVE  WorkerInv'
  <1> USE DEF WorkerInv, W!StopJoinTwice, W!Goes, W!loops, W!InCall
  <1>1. /\ stage[c] = "join" /\ target[c] \in Workers
        /\ stage' = [stage EXCEPT ![c] = "idle"]
        /\ target' = [target EXCEPT ![c] = W!NoPipeline]
    BY DEF CallsTyped, W!TypeOK
  <1>2. W!TypeOK' /\ CallsTyped'
    BY <1>1 DEF W!TypeOK, CallsTyped
  <1>3. Joined' /\ Indices'
    BY DEF Joined, Indices, W!Polling
  <1>4. Calls'
    BY <1>1 DEF Calls, Alone, Joined, W!TypeOK, W!Live
  <1>5. StopPending'
    BY <1>1 DEF StopPending, Joined, W!Polling, W!TypeOK
  <1> QED BY <1>2, <1>3, <1>4, <1>5

-----------------------------------------------------------------------------
(* The loop *)

\* A test of running_ keeps the invariant.
LEMMA LoopTestKeeps ==
  ASSUME WorkerInv, NEW w \in Workers, W!LoopTest(w)
  PROVE  WorkerInv'
  <1> USE QueueAssumption
          DEF WorkerInv, W!LoopTest, W!calls, W!history, W!InCall
  <1>1. W!TypeOK' /\ CallsTyped'
    BY DEF W!TypeOK, CallsTyped
  <1>2. Joined'
    BY DEF Joined, W!TypeOK
  <1>3. Indices'
    BY DEF Indices, W!Polling, W!TypeOK
  <1>4. Calls'
    BY DEF Calls, Alone, W!TypeOK, W!Live
  <1>5. StopPending'
    BY DEF StopPending, W!Polling, W!TypeOK
  <1> QED BY <1>1, <1>2, <1>3, <1>4, <1>5

\* So does loading the shared index,
LEMMA LoadIndexKeeps ==
  ASSUME WorkerInv, NEW w \in Workers, W!LoadIndex(w)
  PROVE  WorkerInv'
  <1> USE QueueAssumption
          DEF WorkerInv, W!LoadIndex, W!calls, W!history, W!InCall
  <1>1. W!TypeOK' /\ CallsTyped'
    BY DEF W!TypeOK, CallsTyped
  <1>2. Joined'
    BY DEF Joined, W!TypeOK
  <1>3. Indices'
    BY DEF Indices, W!Polling, W!TypeOK
  <1>4. Calls'
    BY DEF Calls, Alone, W!TypeOK, W!Live
  <1>5. StopPending'
    BY DEF StopPending, W!Polling, W!TypeOK
  <1> QED BY <1>1, <1>2, <1>3, <1>4, <1>5

\* and storing its successor, whichever value was incremented.
LEMMA StoreIndexKeeps ==
  ASSUME WorkerInv, NEW w \in Workers, W!StoreIndex(w)
  PROVE  WorkerInv'
  <1> USE QueueAssumption
          DEF WorkerInv, W!StoreIndex, W!calls, W!history, W!InCall
  <1>1. QueueCount[w] \in Nat /\ QueueCount[w] > 0 /\ left[w] > 0
    BY DEF Indices, W!Polling
  <1>2. left[w] \in 1..QueueCount[w] /\ at[w] \in Nat /\ queueIdx \in Nat
    BY <1>1 DEF W!TypeOK
  <1>3. PICK seen \in Nat : queueIdx' = (seen + 1) % QueueCount[w]
    BY <1>2
  <1>4. queueIdx' \in Nat /\ queueIdx' < QueueCount[w]
    BY <1>1, <1>3
  <1>5. W!TypeOK' /\ CallsTyped'
    BY <1>1, <1>2, <1>4 DEF W!TypeOK, CallsTyped
  <1>6. Joined'
    BY DEF Joined, W!TypeOK
  <1>7. Indices'
    BY <1>1, <1>2, <1>4 DEF Indices, W!Polling, W!TypeOK
  <1>8. Calls'
    BY DEF Calls, Alone, W!TypeOK, W!Live
  <1>9. StopPending'
    BY DEF StopPending, W!Polling, W!TypeOK
  <1> QED BY <1>5, <1>6, <1>7, <1>8, <1>9

\* Every step of the pipelines, and one that leaves them alone, keeps it.
LEMMA WorkersKeep ==
  ASSUME WorkerInv, W!Next \/ UNCHANGED workerVars
  PROVE  WorkerInv'
  <1>1. ASSUME NEW c \in Controllers, W!CallStep(c) PROVE WorkerInv'
    BY <1>1, StartRunKeeps, StartSpawnKeeps, StartThrowKeeps, StopTestKeeps,
       StopJoinKeeps, StopJoinTwiceKeeps DEF W!CallStep
  <1>2. ASSUME NEW w \in Workers, W!LoopStep(w) PROVE WorkerInv'
    BY <1>2, LoopTestKeeps, LoadIndexKeeps, StoreIndexKeeps DEF W!LoopStep
  <1>3. CASE UNCHANGED workerVars
    BY <1>3 DEF workerVars, WorkerInv, W!TypeOK, CallsTyped, Joined, Calls, Alone,
                StopPending, Indices, W!InCall, W!Polling, W!Live
  <1> QED BY <1>1, <1>2, <1>3, StartTestKeeps, StopClearKeeps DEF W!Next

-----------------------------------------------------------------------------
(* The driver and the pools *)

\* The members of a list, by their places.
LEMMA SetOfList ==
  ASSUME NEW list \in Seq(Nat)
  PROVE  D!ToSet(list) = {list[j] : j \in 1..Len(list)}
  BY DEF D!ToSet

\* init_ports keeps the driver's invariant, however far it gets.
LEMMA InitPortsKeeps ==
  ASSUME DriverInv, NEW list \in ConfigLists, D!InitPorts(list)
  PROVE  DriverInv'
  <1> USE DEF DriverInv, D!TypeOK, D!InitPorts
  <1>1. list \in Seq(Nat)
    BY ListAssumption
  <1>2. D!Listed' = D!ToSet(list)
    BY DEF D!Listed
  <1>3. PICK k \in 0..Len(list), failed \in {"new", "configured"} :
          LET done == {list[j] : j \in 1..k}
          IN  /\ \A p \in done : D!Configurable(p)
              /\ dev' = [p \in Ports |->
                           IF /\ failed = "configured" /\ k < Len(list)
                              /\ p = list[k + 1] /\ D!Configurable(p)
                           THEN "configured"
                           ELSE IF p \in done THEN "ready" ELSE dev[p]]
              /\ initAnswer' = (k = Len(list) /\ D!PortsAvailable > 0)
    OBVIOUS
  <1>4. D!TypeOK'
    BY <1>3 DEF D!Started
  <1>5. initAnswer' => \A p \in D!Listed' : p \in Ports /\ dev'[p] = "ready"
    <2> SUFFICES ASSUME initAnswer', NEW p \in D!Listed'
                 PROVE  p \in Ports /\ dev'[p] = "ready"
      OBVIOUS
    <2>1. k = Len(list)
      BY <1>3
    <2>2. PICK j \in 1..k : p = list[j]
      BY <1>1, <1>2, <2>1, SetOfList
    <2>3. D!Configurable(p)
      BY <1>3, <2>2
    <2>4. p \in Ports /\ ~(k < Len(list))
      BY <1>1, <2>1, <2>3 DEF D!Configurable
    <2> QED BY <1>3, <2>2, <2>4
  <1>6. D!PortsUsable'
    BY DEF D!PortsUsable, D!PortsUp
  <1>7. D!Started' \subseteq D!Started
    BY <1>3 DEF D!Started
  <1>8. D!Started' \subseteq astray' \cup D!Listed'
    BY <1>2, <1>7
  <1> QED BY <1>4, <1>5, <1>6, <1>8

\* So does start_ports,
LEMMA StartPortsKeeps ==
  ASSUME DriverInv, D!StartPorts
  PROVE  DriverInv'
  <1> USE DEF DriverInv, D!TypeOK, D!StartPorts
  <1>1. configs \in Seq(Nat)
    <2>1. <<>> \in Seq(Nat)
      OBVIOUS
    <2> QED BY <2>1, ListAssumption
  <1>2. D!Listed' = D!Listed
    BY DEF D!Listed
  <1>3. PICK k \in 0..Len(configs) :
          LET done == {configs[j] : j \in 1..k}
          IN  /\ \A p \in done : D!Startable(p)
              /\ dev' = [p \in Ports |->
                           IF p \notin done THEN dev[p]
                           ELSE IF dev[p] = "ready" THEN "started"
                           ELSE IF dev[p] = "configured" THEN "bare" ELSE dev[p]]
              /\ startAnswer' = (k = Len(configs))
    OBVIOUS
  <1>4. \A j \in 1..k : configs[j] \in D!Listed
    BY <1>1 DEF D!Listed, D!ToSet
  <1>5. D!TypeOK'
    BY <1>3
  <1>6. initAnswer' => \A p \in D!Listed' :
                         p \in Ports /\ dev'[p] \in {"ready", "started", "closed"}
    BY <1>2, <1>3
  <1>7. D!PortsUsable'
    BY <1>1, <1>2, <1>3 DEF D!PortsUsable, D!PortsUp, D!Listed, D!ToSet, D!Startable
  <1>8. D!Started' \subseteq astray' \cup D!Listed'
    BY <1>2, <1>3, <1>4 DEF D!Started
  <1> QED BY <1>5, <1>6, <1>7, <1>8

\* and stop_ports, after which every port that is still started was forgotten.
LEMMA StopPortsKeeps ==
  ASSUME DriverInv, D!StopPorts
  PROVE  DriverInv' /\ D!Started' \subseteq astray'
  <1> USE DEF DriverInv, D!TypeOK, D!StopPorts
  <1>1. D!Listed' = D!Listed
    BY DEF D!Listed
  <1>2. D!TypeOK'
    OBVIOUS
  <1>3. initAnswer' => \A p \in D!Listed' :
                         p \in Ports /\ dev'[p] \in {"ready", "started", "closed"}
    BY <1>1
  <1>4. D!PortsUsable'
    BY DEF D!PortsUsable, D!PortsUp
  <1>5. D!Started' \subseteq astray'
    BY DEF D!Started
  <1> QED BY <1>2, <1>3, <1>4, <1>5

\* Creating a pool keeps every pool where it is found.
LEMMA InitMempoolKeeps ==
  ASSUME PoolInv, NEW node \in Nodes, P!InitMempool(node)
  PROVE  PoolInv'
  <1> USE NodeAssumption DEF PoolInv, P!InitMempool, P!TypeOK, P!NoPool
  <1> DEFINE all == Nodes \cup {P!NoPool}
             long == P!Resized(mempools, node + 1)
  <1>1. node \in Nat /\ mempools \in Seq(all) /\ Len(mempools) \in Nat
    OBVIOUS
  <1>2. /\ long \in Seq(all) /\ Len(long) > node /\ Len(long) \in Nat
        /\ \A n \in Nat : (IF n >= Len(long) THEN P!NoPool ELSE long[n + 1])
                            = P!GetMempool(n)
    <2>1. CASE Len(mempools) >= node + 1
      BY <1>1, <2>1 DEF P!Resized, P!GetMempool
    <2>2. CASE Len(mempools) < node + 1
      <3>1. long = [i \in 1..(node + 1) |->
                      IF i <= Len(mempools) THEN mempools[i] ELSE P!NoPool]
        BY <1>1, <2>2 DEF P!Resized
      <3>2. long \in Seq(all) /\ Len(long) = node + 1
        BY <1>1, <3>1
      <3> QED BY <1>1, <2>2, <3>1, <3>2 DEF P!GetMempool
    <2> QED BY <1>1, <2>1, <2>2
  <1>3. mempools' = [long EXCEPT ![node + 1] = node]
    OBVIOUS
  <1> HIDE DEF long, all
  <1>4. /\ mempools' \in Seq(all) /\ Len(mempools') = Len(long)
        /\ \A n \in Nat : n < Len(long) =>
             mempools'[n + 1] = IF n = node THEN node ELSE long[n + 1]
    <2>1. node + 1 \in 1..Len(long) /\ node \in all
      BY <1>1, <1>2 DEF all
    <2>2. /\ mempools' \in Seq(all) /\ Len(mempools') = Len(long)
          /\ \A j \in 1..Len(long) : mempools'[j] = IF j = node + 1 THEN node ELSE long[j]
      <3> DEFINE put == [long EXCEPT ![node + 1] = node]
      <3>1. /\ put \in Seq(all) /\ Len(put) = Len(long)
            /\ \A j \in 1..Len(long) : put[j] = IF j = node + 1 THEN node ELSE long[j]
        BY ONLY <1>2, <2>1, ExceptSeq
      <3> QED BY <1>3, <3>1
    <2> QED BY <1>1, <1>2, <2>2
  <1>5. P!TypeOK'
    BY <1>4 DEF all
  <1>6. P!PoolsFound'
    BY <1>2, <1>4 DEF P!PoolsFound, P!GetMempool
  <1> QED BY <1>5, <1>6

-----------------------------------------------------------------------------
(* The gateway *)

\* Every step of main, the callers and the loops keeps the pipelines'
\* invariant, and those that touch them are steps of theirs.
LEMMA GatewayWorkers ==
  ASSUME WorkerInv, [Next]_vars
  PROVE  WorkerInv'
  <1>1. W!Next \/ UNCHANGED workerVars
    BY ControlAssumption
       DEF Next, vars, MainStep, MainEal, MainMempool, LeaveLoop, DestroyPipeline,
           DestroyDriver, SignalHandler, AddPool, UseDriver, StartPipeline,
           StopPipeline, CallStep, LoopStep, W!Next
  <1> QED BY <1>1, WorkersKeep

\* The driver's invariant is kept by its own calls and by all other steps.
LEMMA GatewayDriver ==
  ASSUME DriverInv, [Next]_vars
  PROVE  DriverInv'
  <1>1. ASSUME UNCHANGED driverVars PROVE DriverInv'
    BY <1>1 DEF driverVars, DriverInv, D!TypeOK, D!Listed, D!Started, D!PortsUsable,
                D!PortsUp, D!ToSet
  <1>2. ASSUME D!InitEal PROVE DriverInv'
    BY <1>2 DEF D!InitEal, DriverInv, D!TypeOK, D!Listed, D!Started, D!PortsUsable,
                D!PortsUp, D!ToSet
  <1>3. \/ UNCHANGED driverVars \/ D!InitEal \/ D!StartPorts \/ D!StopPorts
        \/ \E l \in ConfigLists : D!InitPorts(l)
    BY DEF Next, vars, MainStep, MainEal, MainMempool, LeaveLoop, DestroyPipeline,
           DestroyDriver, SignalHandler, AddPool, UseDriver, StartPipeline,
           StopPipeline, CallStep, LoopStep
  <1> QED BY <1>1, <1>2, <1>3, InitPortsKeeps, StartPortsKeeps, StopPortsKeeps

\* So is the pools'.
LEMMA GatewayPools ==
  ASSUME PoolInv, [Next]_vars
  PROVE  PoolInv'
  <1>1. ASSUME UNCHANGED poolVars PROVE PoolInv'
    BY <1>1 DEF poolVars, PoolInv, P!TypeOK, P!PoolsFound, P!GetMempool
  <1>2. UNCHANGED poolVars \/ \E node \in Nodes : P!InitMempool(node)
    BY NodeAssumption
       DEF Next, vars, MainStep, MainEal, MainMempool, LeaveLoop, DestroyPipeline,
           DestroyDriver, SignalHandler, AddPool, UseDriver, StartPipeline,
           StopPipeline, CallStep, LoopStep
  <1> QED BY <1>1, <1>2, InitMempoolKeeps

\* While all callers are idle and no pipeline is to run, no loop is left that
\* could poll a port.
LEMMA NoneNeeded ==
  ASSUME WorkerInv, AllIdle, \A w \in Workers : ~running[w]
  PROVE  ~PortsNeeded
  BY DEF WorkerInv, StopPending, AllIdle, PortsNeeded, W!InCall

\* Ports are needed only by what was started when they were up.
LEMMA PortsStayNeeded ==
  ASSUME Inv, [Next]_vars
  PROVE  (PortsNeeded => D!PortsUp)'
  <1> USE DEF Inv, WorkerInv, W!TypeOK
  <1>1. ASSUME UNCHANGED workerVars PROVE PortsNeeded' <=> PortsNeeded
    BY <1>1 DEF workerVars, PortsNeeded, W!Polling
  <1>2. ASSUME UNCHANGED driverVars PROVE D!PortsUp' <=> D!PortsUp
    BY <1>2 DEF driverVars, D!PortsUp
  <1>3. CASE UNCHANGED workerVars /\ UNCHANGED driverVars
    BY <1>1, <1>2, <1>3 DEF MainInv
  <1>4. CASE MainEal
    BY <1>1, <1>4, NoneNeeded DEF MainEal, MainInv, MainStands
  <1>5. CASE UseDriver
    BY <1>1, <1>5, NoneNeeded DEF UseDriver, NoneRuns
  <1>6. CASE DestroyDriver
    <2>1. \A w \in Workers : ~running[w]
      BY <1>6 DEF DestroyDriver, MainInv, MainStands
    <2> QED BY <1>1, <1>6, <2>1, NoneNeeded DEF DestroyDriver
  <1>7. CASE StartPipeline
    BY <1>2, <1>7 DEF StartPipeline
  <1>8. ASSUME NEW c \in Controllers, NEW w \in Workers, W!StopClear(c, w)
        PROVE  PortsNeeded' => PortsNeeded
    BY <1>8 DEF W!StopClear, W!Begin, W!loops, PortsNeeded, W!Polling
  <1>9. ASSUME NEW c \in Controllers, W!CallStep(c)
        PROVE  PortsNeeded' => PortsNeeded
    <2> USE DEF W!Goes, W!loops, PortsNeeded, W!Polling, CallsTyped
    <2>1. CASE W!StartRun(c)
      BY <2>1 DEF W!StartRun
    <2>2. CASE W!StartSpawn(c)
      BY <2>2 DEF W!StartSpawn
    <2>3. CASE W!StartThrow(c)
      BY <2>3 DEF W!StartThrow
    <2>4. CASE W!StopTest(c)
      BY <2>4 DEF W!StopTest
    <2>5. CASE W!StopJoin(c)
      BY <2>5 DEF W!StopJoin
    <2>6. CASE W!StopJoinTwice(c)
      BY <2>6 DEF W!StopJoinTwice
    <2> QED BY <1>9, <2>1, <2>2, <2>3, <2>4, <2>5, <2>6 DEF W!CallStep
  <1>10. ASSUME NEW w \in Workers, W!LoopStep(w)
         PROVE  PortsNeeded' => PortsNeeded
    BY <1>10 DEF W!LoopStep, W!LoopTest, W!LoadIndex, W!StoreIndex, W!calls,
                 W!history, PortsNeeded, W!Polling
  <1>11. \/ UNCHANGED workerVars /\ UNCHANGED driverVars
         \/ MainEal \/ UseDriver \/ DestroyDriver \/ StartPipeline
         \/ /\ UNCHANGED driverVars
            /\ \/ \E c \in Controllers, w \in Workers : W!StopClear(c, w)
               \/ \E c \in Controllers : W!CallStep(c)
               \/ \E w \in Workers : W!LoopStep(w)
    BY ControlAssumption
       DEF Next, vars, MainStep, MainMempool, LeaveLoop, DestroyPipeline,
           SignalHandler, AddPool, StopPipeline, CallStep, LoopStep
  <1> QED
    BY <1>2, <1>3, <1>4, <1>5, <1>6, <1>7, <1>8, <1>9, <1>10, <1>11 DEF MainInv

\* Where main stands follows from where it stood, step by step.
LEMMA MainKeeps ==
  ASSUME Inv, [Next]_vars
  PROVE  MainStands'
  <1> USE ControlAssumption DEF Inv, MainInv, WorkerInv, W!TypeOK
  <1>1. CASE UNCHANGED vars
    BY <1>1 DEF vars, workerVars, driverVars, mainVars, MainStands, AllIdle,
                LeavesNothing, D!Started
  <1>2. CASE MainEal
    BY <1>2 DEF MainEal, Fail, workerVars, MainStands, AllIdle, LeavesNothing
  <1>3. CASE MainMempool
    BY <1>3 DEF MainMempool, Fail, workerVars, MainStands, AllIdle, LeavesNothing
  <1>4. CASE LeaveLoop
    BY <1>4 DEF LeaveLoop, workerVars, MainStands, AllIdle, LeavesNothing
  <1>5. CASE DestroyPipeline
    <2>1. PICK w \in Workers \ ended : W!StopClear(Main, w) /\ ended' = ended \cup {w}
      BY <1>5 DEF DestroyPipeline
    <2> QED
      BY <1>5, <2>1
         DEF DestroyPipeline, W!StopClear, W!Begin, MainStands, AllIdle, LeavesNothing
  <1>6. CASE DestroyDriver
    <2>1. D!Started' \subseteq astray'
      BY <1>6, StopPortsKeeps DEF DestroyDriver
    <2>2. \A w \in Workers : ~joinable[w] /\ loop[w] = "none"
      BY <1>6 DEF DestroyDriver, MainStands, AllIdle, Joined
    <2> QED
      BY <1>6, <2>1, <2>2 DEF DestroyDriver, workerVars, MainStands, LeavesNothing
  <1>7. CASE SignalHandler
    BY <1>7 DEF SignalHandler, ProcessRuns, workerVars, MainStands, AllIdle, LeavesNothing
  <1>8. CASE AddPool \/ UseDriver \/ StartPipeline \/ StopPipeline
    BY <1>8 DEF AddPool, UseDriver, StartPipeline, StopPipeline, Serving, mainVars,
                MainStands, LeavesNothing
  <1>9. ASSUME NEW c \in Controllers, CallStep(c) PROVE MainStands'
    <2>1. main # "done" /\ UNCHANGED <<main, signalled, ended>>
      BY <1>9 DEF CallStep, ProcessRuns, mainVars
    <2>2. stage[c] # "idle" /\ target[c] \in Workers
      BY <1>9 DEF CallStep, W!CallStep, W!StartRun, W!StartSpawn, W!StartThrow,
                  W!StopTest, W!StopJoin, W!StopJoinTwice, W!Goes, CallsTyped
    <2>3. CASE main = "return"
      <3>1. c = Main /\ stage[Main] \in {"test", "join"}
        BY <2>2, <2>3 DEF MainStands
      <3>2. W!StopTest(Main) \/ W!StopJoin(Main) \/ W!StopJoinTwice(Main)
        BY <1>9, <3>1 DEF CallStep, W!CallStep, W!StartRun, W!StartSpawn,
                          W!StartThrow, W!Goes
      <3> QED
        BY <2>1, <2>3, <3>1, <3>2
           DEF W!StopTest, W!StopJoin, W!StopJoinTwice, W!Goes, W!loops,
               MainStands, LeavesNothing
    <2>4. CASE main = "serve"
      BY <2>1, <2>4 DEF MainStands, LeavesNothing
    <2> QED BY <2>1, <2>2, <2>3, <2>4 DEF MainStands, AllIdle
  <1>10. ASSUME NEW w \in Workers, LoopStep(w) PROVE MainStands'
    <2>1. /\ main # "done" /\ UNCHANGED <<main, signalled, ended>>
          /\ UNCHANGED <<running, joinable, stage, target>>
      BY <1>10 DEF LoopStep, ProcessRuns, mainVars, W!LoopStep, W!LoopTest,
                   W!LoadIndex, W!StoreIndex, W!calls
    <2> QED BY <2>1 DEF MainStands, AllIdle, LeavesNothing
  <1> QED
    BY <1>1, <1>2, <1>3, <1>4, <1>5, <1>6, <1>7, <1>8, <1>9, <1>10
       DEF Next, MainStep

-----------------------------------------------------------------------------
(* The theorems *)

\* The initial states satisfy the invariant.
LEMMA Initially == Init => Inv
  <1> SUFFICES ASSUME Init PROVE Inv
    OBVIOUS
  <1> USE DEF Init, W!Init, D!Init, P!Init
  <1>1. WorkerInv
    <2>1. W!TypeOK
      <3>1. \A w \in Workers : 0 \in 0..QueueCount[w]
        BY QueueAssumption
      <3> QED BY <3>1 DEF W!TypeOK, W!NoPipeline
    <2>2. CallsTyped /\ Joined
      BY DEF CallsTyped, Joined
    <2>3. Calls /\ StopPending
      BY DEF Calls, Alone, StopPending, W!InCall, W!Polling, W!Live
    <2>4. Indices
      BY QueueAssumption DEF Indices, W!Polling
    <2> QED BY <2>1, <2>2, <2>3, <2>4 DEF WorkerInv
  <1>2. DriverInv
    BY DEF DriverInv, D!TypeOK, D!Listed, D!PortsUsable, D!PortsUp, D!Started
  <1>3. PoolInv
    BY NodeAssumption DEF PoolInv, P!TypeOK, P!PoolsFound, P!GetMempool
  <1>4. MainInv
    BY DEF MainInv, MainStands, AllIdle, LeavesNothing, PortsNeeded, W!Polling
  <1> QED BY <1>1, <1>2, <1>3, <1>4 DEF Inv

\* Inv holds in every state of the gateway, whatever its pipelines, callers,
\* queue numbers, ports, lists and nodes.
THEOREM Invariance == Spec => []Inv
  <1>1. Inv /\ [Next]_vars => Inv'
    BY GatewayWorkers, GatewayDriver, GatewayPools, PortsStayNeeded, MainKeeps
       DEF Inv, MainInv
  <1> QED BY Initially, <1>1, PTL DEF Spec

\* The variables keep their types.
THEOREM TypeCorrect == Spec => []TypeOK
  <1>1. Inv => TypeOK
    BY DEF Inv, WorkerInv, DriverInv, PoolInv, MainInv, MainStands, TypeOK
  <1> QED BY Invariance, <1>1, PTL

\* start and stop keep their promises to callers that do not overlap, and the
\* process terminates only if some do.
THEOREM StartStopPromise == Spec => []WorkersMatch
  <1>1. Inv => WorkersMatch
    <2> SUFFICES ASSUME WorkerInv PROVE W!WorkersMatch
      BY DEF Inv, WorkersMatch
    <2>1. ASSUME NEW w \in Workers \ overlapped, W!InCall(w) = {}
          PROVE  IF running[w] /\ w \notin spawnFailed
                 THEN joinable[w] /\ W!Live(w) ELSE ~joinable[w] /\ loop[w] = "none"
      BY <2>1 DEF WorkerInv, Calls, Alone, Joined, W!Live
    <2> QED BY <2>1 DEF W!WorkersMatch, WorkerInv, Calls
  <1> QED BY Invariance, <1>1, PTL

\* rx_burst stays within its queues where all pipelines have equally many.
THEOREM IndexNeverOut == Spec => []IndexInRange
  <1>1. Inv => IndexInRange
    BY DEF Inv, WorkerInv, Indices, IndexInRange, W!IndexInRange
  <1> QED BY Invariance, <1>1, PTL

\* Each pool is found under its own node.
THEOREM PoolsAlwaysFound == Spec => []PoolsFound
  <1>1. Inv => PoolsFound
    BY DEF Inv, PoolInv, PoolsFound
  <1> QED BY Invariance, <1>1, PTL

\* No worker polls a port that is closed or being set up.
THEOREM PortsUpWhilePolled == Spec => []PollsUsablePorts
  <1>1. Inv => PollsUsablePorts
    BY DEF Inv, MainInv, PortsNeeded, DriverInv, PollsUsablePorts
  <1> QED BY Invariance, <1>1, PTL

\* The end leaves no worker thread and no listed port started.
THEOREM NothingLeft == Spec => []LeavesNothing
  <1>1. Inv => LeavesNothing
    BY DEF Inv, MainInv, MainStands
  <1> QED BY Invariance, <1>1, PTL
=============================================================================
