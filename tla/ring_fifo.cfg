SPECIFICATION FairSpec
SYMMETRY PacketSymmetry
CONSTANTS
  Producers = {p1}
  Consumers = {c1}
  Packets = {k1, k2, k3, k4, k5}
  Size = 4
  Modulus = 8
  MaxBurst = 2
  NoPacket = none
INVARIANTS
  TypeOK
  IndicesOrdered
  CopiesNeverRace
  PromiseKept
  NoLossNoDuplicate
PROPERTIES
  RefinesFifo
  EveryPacketDelivered
