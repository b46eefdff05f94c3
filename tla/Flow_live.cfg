CONSTANTS
  w1 = w1
  w2 = w2
  Writers <- TwoWriters
  Length <- TwoEach
  MaxPacket = 2
  QueueSize = 2
  InitialWindows <- ZeroOrTwo
  Amounts <- OneAndTwo
  MaxU32 = 9
  MaxAdjusts = 4
  MaxRekeys = 1
  Ends <- Neither
  ServerMayClose = FALSE
  MayEnd = FALSE
  EarlyAdjust = FALSE
SPECIFICATION FairSpec
PROPERTIES Delivered
CHECK_DEADLOCK FALSE
