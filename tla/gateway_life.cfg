SPECIFICATION FairSpec
CONSTANTS
  w1 = w1
  w2 = w2
  Main = main
  other = other
  Workers = {w1, w2}
  Controllers = {main, other}
  MayControl <- Control
  QueueCount <- TwoQueues
  Ports = {0, 1}
  ConfigLists <- Lists
  Nodes = {0, 1, 2}
CHECK_DEADLOCK FALSE
INVARIANTS
  TypeOK
  WorkersMatch
  IndexInRange
  PoolsFound
  PollsUsablePorts
  LeavesNothing
PROPERTIES
  AlonePollsAll
  SignalEnds
