SPECIFICATION Spec
CONSTANTS
  w1 = w1
  w2 = w2
  ctl = ctl
  Workers = {w1}
  Controllers = {ctl}
  Payloads <- SomePayloads
  Signatures <- SomeSignatures
  Files <- SomeFiles
  Guardrails <- SomeGuardrails
  Times = {1, 2}
  ClassCount = 16
  MaxSignatures = 2
  MaxAnswers = 1
CHECK_DEADLOCK FALSE
INVARIANT
  LoadedAsWritten
