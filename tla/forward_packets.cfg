SPECIFICATION FairSpec
CONSTANTS
  Mbufs = {m1, m2, m3}
  RingCapacity = 2
  BurstSize = 2
  RxDescriptors = 2
  MaxFrames = 4
  Ports = {0, 1}
  Enabled = {0, 1}
CHECK_DEADLOCK FALSE
INVARIANTS
  TypeOK
  OneOwner
  InOrder
  SentWasReceived
  SentSwapped
  FinalStatsFinal
PROPERTIES
  SignalStops
  RingDrains
