--------------------------- MODULE MCQoECollector ---------------------------
(* Two flows with two latency buckets each; a thread that records and one   *)
(* that reports and, in the run of the reports, records, too.               *)
EXTENDS QoECollector, TLC

CONSTANTS r, q
=============================================================================
