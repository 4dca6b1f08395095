---------------------------- MODULE BoundedFifo ----------------------------
(***************************************************************************)
(* What a RingQueue promises its callers: a first-in first-out queue of    *)
(* bounded length.  An enqueue burst appends a block of packets that are   *)
(* not queued already; a dequeue burst hands the oldest packets, in        *)
(* order, to the consumer.  How many packets of a burst are accepted is    *)
(* left open, because a producer may decide on an older view of the        *)
(* consumer's progress; that the bound is never exceeded is not.           *)
(***************************************************************************)
EXTENDS Naturals, SequencesExt

CONSTANT Capacity

VARIABLES queue,      \* the packets accepted and not yet handed out
          delivered   \* the burst the last dequeue handed out

vars == <<queue, delivered>>

Init == queue = <<>> /\ delivered = <<>>

Put ==
  /\ IsStrictPrefix(queue, queue')
  /\ Len(queue') <= Capacity
  /\ IsInjective(queue')
  /\ UNCHANGED delivered

Take ==
  \E n \in 1..Len(queue) :
    /\ delivered' = SubSeq(queue, 1, n)
    /\ queue' = SubSeq(queue, n + 1, Len(queue))

Next == Put \/ Take

Spec == Init /\ [][Next]_vars
=============================================================================
