CONSTANTS
  w1 = w1
  w2 = w2
  Writers <- TwoWriters
  Length <- ThreeAndTwo
  MaxPacket = 2
  QueueSize = 2
  InitialWindows <- JustTwo
  Amounts <- OneAndThree
  MaxU32 = 3
  MaxAdjusts = 2
  MaxRekeys = 1
  Ends <- Both
  ServerMayClose = TRUE
  MayEnd = TRUE
  EarlyAdjust = TRUE
SPECIFICATION Spec
INVARIANTS TypeOK WindowRespected PendingMeansNoWindow EndsAfterData NoLostWakeup InOrder
CHECK_DEADLOCK FALSE
