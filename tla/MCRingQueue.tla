---------------------------- MODULE MCRingQueue ----------------------------
(* A ring of four slots whose indices wrap every eight packets, bursts of  *)
(* two and two packets more than the ring stores.                          *)
EXTENDS RingQueue, TLC

\* Packets are only stored and compared for equality, and no fairness
\* condition and no predicate of a temporal property tells them apart: what
\* is true of a run is true of the run with the packets exchanged, for
\* liveness as for safety.
PacketSymmetry == Permutations(Packets)
=============================================================================
