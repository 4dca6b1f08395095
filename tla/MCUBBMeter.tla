----------------------------- MODULE MCUBBMeter -----------------------------
(* Who updates and who resets which counters, in each of the runs. *)
EXTENDS UBBMeter, TLC

CONSTANTS t1, t2

\* Each thread owns the counters of one service and reads them all.
Sharded == {<<t1, CounterKey(1, 100)>>, <<t2, CounterKey(1, 101)>>}

\* The first also resets its own.
ItsOwn == {<<t1, CounterKey(1, 100)>>}

Everything == Threads \X Keys

Nothing == {}
=============================================================================
