--------------------------- MODULE WorkerPipeline ---------------------------
(***************************************************************************)
(* vsg::dpdk::WorkerPipeline: start and stop, which any thread may call,   *)
(* against the worker thread they create and join, and the round-robin     *)
(* index of rx_burst, a function-local static all workers share.           *)
(*                                                                         *)
(* rx_burst is a placeholder: it moves the index and returns 0, so of the  *)
(* loop only the tests of running_ and the calls of rx_burst are reached;  *)
(* no statistic changes and no processor is called.                        *)
(***************************************************************************)
EXTENDS Integers

CONSTANTS
  Workers,        \* the pipelines
  Controllers,    \* threads that start and stop them
  MayControl,     \* which controllers call which pipelines, as pairs
  QueueCount      \* pipeline -> config_.rx_queues.size()

VARIABLES
  running,        \* pipeline -> running_
  joinable,       \* pipeline -> worker_thread_.joinable()
  loop,           \* pipeline -> where its worker_loop stands
  left,           \* pipeline -> rx queues left in this pass of the loop
  at,             \* pipeline -> the index its rx_burst has loaded
  queueIdx,       \* queue_idx
  stage, target,  \* controller -> where its call stands; the pipeline called
  spawnFailed,    \* pipelines whose last start threw
  overlapped,     \* pipelines on which two calls were in progress at once
  terminated      \* std::terminate was called

loops == <<loop, left, at, queueIdx>>
calls == <<stage, target>>
history == <<spawnFailed, overlapped>>
vars == <<running, joinable, loops, calls, history, terminated>>

NoPipeline == "none"

Init ==
  /\ running = [w \in Workers |-> FALSE]
  /\ joinable = [w \in Workers |-> FALSE]
  /\ loop = [w \in Workers |-> "none"]
  /\ left = [w \in Workers |-> 0]
  /\ at = [w \in Workers |-> 0]
  /\ queueIdx = 0
  /\ stage = [c \in Controllers |-> "idle"]
  /\ target = [c \in Controllers |-> NoPipeline]
  /\ spawnFailed = {} /\ overlapped = {}
  /\ terminated = FALSE

InCall(w) == {c \in Controllers : stage[c] # "idle" /\ target[c] = w}

\* c calls pipeline w and gets to s.
Begin(c, w, s) ==
  /\ ~terminated
  /\ stage[c] = "idle" /\ <<c, w>> \in MayControl
  /\ stage' = [stage EXCEPT ![c] = s]
  /\ target' = [target EXCEPT ![c] = w]
  /\ overlapped' = IF InCall(w) = {} THEN overlapped ELSE overlapped \cup {w}

\* c's call gets from one step to another.
Goes(c, from, to) ==
  /\ ~terminated
  /\ stage[c] = from
  /\ stage' = [stage EXCEPT ![c] = to]
  /\ target' = [target EXCEPT ![c] = IF to = "idle" THEN NoPipeline ELSE target[c]]
  /\ UNCHANGED overlapped

-----------------------------------------------------------------------------
(* start *)

\* The test of running_; a start of a running pipeline returns at once.
StartTest(c, w) ==
  /\ ~running[w]
  /\ Begin(c, w, "set")
  /\ UNCHANGED <<running, joinable, loops, spawnFailed, terminated>>

StartRun(c) ==
  /\ Goes(c, "set", "spawn")
  /\ running' = [running EXCEPT ![target[c]] = TRUE]
  /\ UNCHANGED <<joinable, loops, spawnFailed, terminated>>

\* The thread is created and assigned; assigning to a thread that was not
\* joined terminates the process.
StartSpawn(c) ==
  LET w == target[c]
  IN  /\ Goes(c, "spawn", "idle")
      /\ IF joinable[w]
         THEN terminated' = TRUE /\ UNCHANGED <<joinable, loop>>
         ELSE /\ joinable' = [joinable EXCEPT ![w] = TRUE]
              /\ loop' = [loop EXCEPT ![w] = "test"]
              /\ UNCHANGED terminated
      /\ UNCHANGED <<running, left, at, queueIdx, spawnFailed>>

\* The system has no thread to give: std::thread throws, and so does start.
StartThrow(c) ==
  /\ Goes(c, "spawn", "idle")
  /\ spawnFailed' = spawnFailed \cup {target[c]}
  /\ UNCHANGED <<running, joinable, loops, terminated>>

-----------------------------------------------------------------------------
(* stop, which is also what the destructor does *)

StopClear(c, w) ==
  /\ Begin(c, w, "test")
  /\ running' = [running EXCEPT ![w] = FALSE]
  /\ spawnFailed' = spawnFailed \ {w}
  /\ UNCHANGED <<joinable, loops, terminated>>

StopTest(c) ==
  /\ Goes(c, "test", IF joinable[target[c]] THEN "join" ELSE "idle")
  /\ UNCHANGED <<running, joinable, loops, spawnFailed, terminated>>

\* Mutant of StopJoin: stop does not wait for the loop to end.
StopDetach(c) ==
  /\ Goes(c, "join", "idle")
  /\ joinable' = [joinable EXCEPT ![target[c]] = FALSE]
  /\ UNCHANGED <<running, loops, spawnFailed, terminated>>

\* join returns when the loop has.
StopJoin(c) ==
  LET w == target[c]
  IN  /\ Goes(c, "join", "idle")
      /\ joinable[w] /\ loop[w] = "exited"
      /\ joinable' = [joinable EXCEPT ![w] = FALSE]
      /\ loop' = [loop EXCEPT ![w] = "none"]
      /\ UNCHANGED <<running, left, at, queueIdx, spawnFailed, terminated>>

\* Another call joined the thread meanwhile: join returns or throws.
StopJoinTwice(c) ==
  /\ Goes(c, "join", "idle")
  /\ ~joinable[target[c]]
  /\ terminated' \in BOOLEAN
  /\ UNCHANGED <<running, joinable, loops, spawnFailed>>

CallStep(c) ==
  \/ StartRun(c) \/ StartSpawn(c) \/ StartThrow(c)
  \/ StopTest(c) \/ StopJoin(c) \/ StopJoinTwice(c)

-----------------------------------------------------------------------------
(* worker_loop *)

\* Mutant of LoopTest: a worker that has no packets goes on polling.
LoopForever(w) ==
  /\ ~terminated
  /\ loop[w] = "test" /\ QueueCount[w] > 0
  /\ loop' = [loop EXCEPT ![w] = "load"]
  /\ left' = [left EXCEPT ![w] = QueueCount[w]]
  /\ UNCHANGED <<running, joinable, at, queueIdx, calls, history, terminated>>

\* Mutant of LoopTest: the pass goes one past the last queue.
LoopTestInclusive(w) ==
  /\ ~terminated
  /\ loop[w] = "test"
  /\ loop' = [loop EXCEPT ![w] = IF running[w] THEN "load" ELSE "exited"]
  /\ left' = [left EXCEPT ![w] = IF running[w] THEN QueueCount[w] + 1 ELSE left[w]]
  /\ UNCHANGED <<running, joinable, at, queueIdx, calls, history, terminated>>

\* running_ is looked at once per pass over the queues.
LoopTest(w) ==
  /\ ~terminated
  /\ loop[w] = "test"
  /\ \/ /\ running[w] /\ QueueCount[w] > 0
        /\ loop' = [loop EXCEPT ![w] = "load"]
        /\ left' = [left EXCEPT ![w] = QueueCount[w]]
     \/ /\ ~running[w]
        /\ loop' = [loop EXCEPT ![w] = "exited"]
        /\ UNCHANGED left
  /\ UNCHANGED <<running, joinable, at, queueIdx, calls, history, terminated>>

LoadIndex(w) ==
  /\ ~terminated
  /\ loop[w] = "load"
  /\ at' = [at EXCEPT ![w] = queueIdx]
  /\ loop' = [loop EXCEPT ![w] = "store"]
  /\ UNCHANGED <<running, joinable, left, queueIdx, calls, history, terminated>>

\* Mutant of StoreIndex: the index is wrapped one too late.
StoreIndexLate(w) ==
  /\ ~terminated
  /\ loop[w] = "store"
  /\ \E seen \in {at[w], queueIdx} :
       queueIdx' = (seen + 1) % (QueueCount[w] + 1)
  /\ left' = [left EXCEPT ![w] = left[w] - 1]
  /\ loop' = [loop EXCEPT ![w] = IF left[w] = 1 THEN "test" ELSE "load"]
  /\ at' = [at EXCEPT ![w] = 0]
  /\ UNCHANGED <<running, joinable, calls, history, terminated>>

\* Mutant of StoreIndex: the last queue is never polled.
StoreIndexShort(w) ==
  /\ ~terminated
  /\ loop[w] = "store"
  /\ queueIdx' = (at[w] + 1) % (QueueCount[w] - 1)
  /\ left' = [left EXCEPT ![w] = left[w] - 1]
  /\ loop' = [loop EXCEPT ![w] = IF left[w] = 1 THEN "test" ELSE "load"]
  /\ at' = [at EXCEPT ![w] = 0]
  /\ UNCHANGED <<running, joinable, calls, history, terminated>>

\* Whether the increment reads the index again or keeps the value loaded for
\* the subscript is the compiler's choice; other workers write it meanwhile.
StoreIndex(w) ==
  /\ ~terminated
  /\ loop[w] = "store"
  /\ \E seen \in {at[w], queueIdx} :
       queueIdx' = (seen + 1) % QueueCount[w]
  /\ left' = [left EXCEPT ![w] = left[w] - 1]
  /\ loop' = [loop EXCEPT ![w] = IF left[w] = 1 THEN "test" ELSE "load"]
  /\ at' = [at EXCEPT ![w] = 0]
  /\ UNCHANGED <<running, joinable, calls, history, terminated>>

LoopStep(w) == LoopTest(w) \/ LoadIndex(w) \/ StoreIndex(w)

Next ==
  \/ \E c \in Controllers, w \in Workers : StartTest(c, w) \/ StopClear(c, w)
  \/ \E c \in Controllers : CallStep(c)
  \/ \E w \in Workers : LoopStep(w)

Spec == Init /\ [][Next]_vars

-----------------------------------------------------------------------------
(* Properties *)

TypeOK ==
  /\ running \in [Workers -> BOOLEAN] /\ joinable \in [Workers -> BOOLEAN]
  /\ loop \in [Workers -> {"none", "test", "load", "store", "exited"}]
  /\ left \in [Workers -> Nat] /\ at \in [Workers -> Nat] /\ queueIdx \in Nat
  /\ \A w \in Workers : left[w] \in 0..QueueCount[w]
  /\ stage \in [Controllers -> {"idle", "set", "spawn", "test", "join"}]
  /\ target \in [Controllers -> Workers \cup {NoPipeline}]
  /\ spawnFailed \subseteq Workers /\ overlapped \subseteq Workers
  /\ terminated \in BOOLEAN

Live(w) == loop[w] \in {"test", "load", "store"}

Polling(w) == loop[w] \in {"load", "store"}

\* What start and stop promise a caller whose calls never overlap another's:
\* after start a loop is running unless start threw, after stop there is no
\* thread, a second start or stop does no harm and the process goes on.
WorkersMatch ==
  /\ \A w \in Workers \ overlapped :
       InCall(w) = {} =>
         IF running[w] /\ w \notin spawnFailed THEN joinable[w] /\ Live(w)
         ELSE ~joinable[w] /\ loop[w] = "none"
  /\ terminated => overlapped # {}

\* rx_burst never reads past its pipeline's queues, however the increments of
\* the shared index race, if all pipelines have equally many queues.
IndexInRange ==
  (\A v, w \in Workers : QueueCount[v] = QueueCount[w]) =>
    \A w \in Workers : loop[w] = "store" => at[w] < QueueCount[w]

\* A pipeline whose loop is the only one polls each of its queues again and
\* again; with others the shared index may skip one for ever.
AlonePollsAll ==
  \A w \in Workers : \A q \in 0..(QueueCount[w] - 1) :
    []<>(\/ loop[w] = "store" /\ at[w] = q
         \/ ~running[w] \/ ~Live(w) \/ terminated
         \/ \E v \in Workers \ {w} : loop[v] # "none")
=============================================================================
