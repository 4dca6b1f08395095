SPECIFICATION Spec
SYMMETRY MbufSymmetry
CONSTANTS
  Mbufs = {m1, m2}
  Frames <- Arriving
  BurstSize = 2
  MaxFrames = 4
  Quota = 130
  ByteSpace = 1024
  WordSpace = 65536
  StackValues = {0, 1000}
CHECK_DEADLOCK FALSE
INVARIANTS
  BuffersKept
  StatsComplete
  WellFormedUnderstood
