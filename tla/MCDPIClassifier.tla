-------------------------- MODULE MCDPIClassifier ---------------------------
(* A payload of three symbols, the digits 2, 1 and 2; three signatures to   *)
(* update, of which two share an id and one has a higher priority; a file   *)
(* with a class below ten, and one with two greater classes, of which only  *)
(* the line whose pattern is a number parses.                               *)
EXTENDS DPIClassifier

CONSTANTS w1, w2, ctl

WorkerSymmetry == Permutations({w1, w2})

SomePayloads == {<<>>, <<50, 49, 50>>}

Sig(id, class, pattern, offset, depth, priority) ==
  [signature_id |-> id, classification |-> class, pattern |-> pattern,
   offset |-> offset, depth |-> depth, priority |-> priority]

SomeSignatures ==
  {Sig(1, 1, <<49, 50>>, 0, 9, 0), Sig(1, 2, <<49>>, 1, 1, 0), Sig(2, 3, <<50>>, 2, 9, 1)}

Line(id, class, pattern, number, offset, depth) ==
  [signature_id |-> id, classification |-> class, pattern |-> pattern,
   number |-> number, offset |-> offset, depth |-> depth]

SomeFiles ==
  {<<Line(3, 3, <<50, 49>>, 21, 0, 2)>>,
   <<Line(10, 10, <<77>>, NoNumber, 0, 4), Line(12, 12, <<49>>, 1, 2, 4)>>}

SomeGuardrails ==
  {[timeout_us |-> 1, sample_rate |-> 10, degradation_enabled |-> TRUE],
   [timeout_us |-> 1, sample_rate |-> 0, degradation_enabled |-> FALSE]}
=============================================================================
