SPECIFICATION Spec
CONSTANTS
  t1 = t1
  t2 = t2
  Threads = {t1, t2}
  Subscribers = {1}
  Services = {100, 101}
  ServiceSpace = 65536
  Amounts = {2}
  Limits = {2}
  MayUpdate <- Sharded
  MayReset <- ItsOwn
  MaxUpdates = 3
  MaxBreaches = 1
CHECK_DEADLOCK FALSE
INVARIANTS
  TypeOK
  BilledExactly
  ReadsWithinInterval
  AlertsJustified
