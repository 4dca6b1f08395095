--------------------------- MODULE MempoolManager ---------------------------
(***************************************************************************)
(* vsg::dpdk::MempoolManager: one packet pool per NUMA node, created by    *)
(* name in the EAL, and the vector that finds a node's pool.  A pool is    *)
(* known by the node it is named after.  Allocation is left out.           *)
(***************************************************************************)
EXTENDS Integers, Sequences

CONSTANT Nodes            \* NUMA nodes, numbered from 0

VARIABLES
  registered,             \* pools the EAL has
  mempools                \* mempools_

vars == <<registered, mempools>>

NoPool == -1              \* nullptr

Init == registered = {} /\ mempools = <<>>

\* Mutant of Resized: the vector is resized whether it is too short or not.
ResizedAlways(pools, size) ==
  [i \in 1..size |-> IF i <= Len(pools) THEN pools[i] ELSE NoPool]

\* mempools_ made long enough.
Resized(pools, size) ==
  IF Len(pools) >= size THEN pools
  ELSE [i \in 1..size |-> IF i <= Len(pools) THEN pools[i] ELSE NoPool]

\* A pool whose name is taken is not created again: the call changes nothing.
InitMempool(node) ==
  /\ node \notin registered
  /\ registered' = registered \cup {node}
  /\ mempools' = [Resized(mempools, node + 1) EXCEPT ![node + 1] = node]

GetMempool(node) ==
  IF node >= Len(mempools) THEN NoPool ELSE mempools[node + 1]

Next == \E node \in Nodes : InitMempool(node)

Spec == Init /\ [][Next]_vars

-----------------------------------------------------------------------------
(* Properties *)

TypeOK ==
  /\ registered \subseteq Nodes
  /\ mempools \in Seq(Nodes \cup {NoPool})

\* Each pool that was created is found under its own node for good, whatever
\* nodes were added in whatever order, and other nodes have none.
PoolsFound ==
  \A node \in Nodes :
    GetMempool(node) = IF node \in registered THEN node ELSE NoPool
=============================================================================
