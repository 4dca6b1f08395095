SPECIFICATION Spec
CONSTANTS
  r = r
  q = q
  Recorders = {r}
  Reporters = {q}
  MaxFlows = 2
  LastBucket = 1
  WordSpace = 1000
  ClockSpace = 16
  IdleTimes = {1}
  Windows = {1}
  SampleLimits = {1}
  MaxSamples = 3
  MaxClock = 2
CHECK_DEADLOCK FALSE
INVARIANT
  LossIsPercentage
