SPECIFICATION Spec
CONSTANTS
  r = r
  q = q
  Recorders = {r, q}
  Reporters = {q}
  MaxFlows = 2
  LastBucket = 1
  WordSpace = 250
  ClockSpace = 16
  IdleTimes = {1}
  Windows = {1, 2}
  SampleLimits = {0, 1, 2}
  MaxSamples = 3
  MaxClock = 2
CHECK_DEADLOCK FALSE
INVARIANTS
  TypeOK
  CountersAgree
  QuietRatesExact
  QuietFlushExact
  QuietListComplete
  SamplesBounded
