----------------------------- MODULE PMDDriver -----------------------------
(***************************************************************************)
(* vsg::dpdk::PMDDriver: the EAL, and the ports of its configuration list  *)
(* through configuration, start, stop and close, with a failure at any     *)
(* call.  One thread uses the driver, so each call is one step.  A         *)
(* configuration is its port id; MTU, queue numbers and offloads are left  *)
(* out.                                                                    *)
(*                                                                         *)
(* What ethdev does is not in the repository: a started or closed port     *)
(* cannot be configured, a port that was never configured cannot be        *)
(* started, starting a started port succeeds, closed ports are no longer   *)
(* counted, and any call may fail besides.                                 *)
(***************************************************************************)
EXTENDS Integers, FiniteSets, SequencesExt

CONSTANTS
  Ports,          \* ports the EAL finds, numbered from 0
  ConfigLists     \* lists of port ids init_ports is called with

VARIABLES
  eal,            \* eal_initialized_
  configs,        \* port_configs_, as port ids
  dev,            \* port -> what ethdev has done with it
  initAnswer, startAnswer,  \* the latest answers of init_ports, start_ports
  astray          \* ports started when init_ports dropped them from the list

vars == <<eal, configs, dev, initAnswer, startAnswer, astray>>

Init ==
  /\ eal = FALSE
  /\ configs = <<>>
  /\ dev = [p \in Ports |-> "new"]
  /\ initAnswer = FALSE /\ startAnswer = FALSE
  /\ astray = {}

Listed == ToSet(configs)

\* "bare" is a port started without its queues.
Started == {p \in Ports : dev[p] \in {"started", "bare"}}

\* rte_eth_dev_count_avail
PortsAvailable == Cardinality({p \in Ports : dev[p] # "closed"})

InitEal ==
  /\ ~eal /\ eal' = TRUE
  /\ UNCHANGED <<configs, dev, initAnswer, startAnswer, astray>>

\* The id is compared with the number of ports; then ethdev decides.
Configurable(p) ==
  /\ p < PortsAvailable
  /\ p \in Ports /\ dev[p] \in {"new", "configured", "ready"}

\* The list is taken over before anything is tried.  The first k ports get
\* their queues; if one is left, it fails before or after its configuration.
InitPorts(list) ==
  /\ eal
  /\ configs' = list
  /\ \E k \in 0..Len(list), failed \in {"new", "configured"} :
       LET done == {list[j] : j \in 1..k}
       IN  /\ \A p \in done : Configurable(p)
           /\ dev' = [p \in Ports |->
                        IF /\ failed = "configured" /\ k < Len(list)
                           /\ p = list[k + 1] /\ Configurable(p)
                        THEN "configured"
                        ELSE IF p \in done THEN "ready" ELSE dev[p]]
           /\ initAnswer' = (k = Len(list) /\ PortsAvailable > 0)
  /\ startAnswer' = FALSE
  /\ astray' = (astray \cup Started) \ ToSet(list)
  /\ UNCHANGED eal

Startable(p) == p \in Ports /\ dev[p] \notin {"new", "closed"}

\* Mutant of StartPorts: a port that does not start is passed over.
StartPortsAnyway ==
  /\ \E k \in 0..Len(configs) :
       LET done == {configs[j] : j \in 1..k}
       IN  /\ \A p \in done : Startable(p)
           /\ dev' = [p \in Ports |->
                        IF p \notin done THEN dev[p]
                        ELSE IF dev[p] = "ready" THEN "started"
                        ELSE IF dev[p] = "configured" THEN "bare" ELSE dev[p]]
           /\ startAnswer' = TRUE
  /\ UNCHANGED <<eal, configs, initAnswer, astray>>

\* The first port that does not start ends the call; those before it stay up.
StartPorts ==
  /\ \E k \in 0..Len(configs) :
       LET done == {configs[j] : j \in 1..k}
       IN  /\ \A p \in done : Startable(p)
           /\ dev' = [p \in Ports |->
                        IF p \notin done THEN dev[p]
                        ELSE IF dev[p] = "ready" THEN "started"
                        ELSE IF dev[p] = "configured" THEN "bare" ELSE dev[p]]
           /\ startAnswer' = (k = Len(configs))
  /\ UNCHANGED <<eal, configs, initAnswer, astray>>

\* Mutant of StopPorts: only the ports of a successful start are closed.
StopPortsUp ==
  /\ dev' = [p \in Ports |-> IF p \in Listed /\ startAnswer THEN "closed"
                                                           ELSE dev[p]]
  /\ startAnswer' = FALSE
  /\ UNCHANGED <<eal, configs, initAnswer, astray>>

\* Every listed port is stopped and closed, whatever became of it.
StopPorts ==
  /\ dev' = [p \in Ports |-> IF p \in Listed THEN "closed" ELSE dev[p]]
  /\ startAnswer' = FALSE
  /\ UNCHANGED <<eal, configs, initAnswer, astray>>

Next == InitEal \/ StartPorts \/ StopPorts \/ \E l \in ConfigLists : InitPorts(l)

Spec == Init /\ [][Next]_vars

-----------------------------------------------------------------------------
(* Properties *)

TypeOK ==
  /\ eal \in BOOLEAN /\ initAnswer \in BOOLEAN /\ startAnswer \in BOOLEAN
  /\ configs \in ConfigLists \cup {<<>>}
  /\ dev \in [Ports -> {"new", "configured", "ready", "started", "bare", "closed"}]
  /\ astray \subseteq Ports

\* What the caller takes for ports that are up.
PortsUp == initAnswer /\ startAnswer

\* When init_ports and start_ports both said so, every listed port is started
\* and has its queues, whatever failed or was stopped before.
PortsUsable == PortsUp => \A p \in Listed : p \in Ports /\ dev[p] = "started"
=============================================================================
