SPECIFICATION Spec
CONSTANTS
  t1 = t1
  t2 = t2
  Threads = {t1, t2}
  Subscribers = {1}
  Services = {100}
  ServiceSpace = 65536
  Amounts = {1}
  Limits = {2}
  MayUpdate <- Everything
  MayReset <- Nothing
  MaxUpdates = 3
  MaxBreaches = 1
CHECK_DEADLOCK FALSE
INVARIANTS
  BilledExactly
