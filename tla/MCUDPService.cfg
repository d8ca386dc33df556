SPECIFICATION FairSpec
CONSTANTS
  s1 = s1
  s2 = s2
  None = None
  Sources = {s1, s2}
  Cases <- MCCases
  HeadSize = 2
  MaxDatagram = 3
  Slots = 3
  SlotSeconds = 2
  MaxFlying = 2
  MaxFaults = 1
  MaxGarbled = 1
  MaxBatches = 2
INVARIANTS
  TypeOK
  HandledAsSent
  FinishedScheduled
PROPERTY
  StatsCleaned
