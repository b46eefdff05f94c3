CONSTANTS
  w1 = w1
  w2 = w2
  d1 = d1
  d2 = d2
  Alarm = Alarm
  Sockets <- TwoSockets
  Deletes <- OneDelete
  Sizes <- OneOrThree
  MaxBuffer = 2
  HandshakeReads = 1
  MaxOutput = 3
  MaxEvictions = 1
  MaxTries = 1
  KvMayFail = FALSE
SPECIFICATION Spec
INVARIANTS TypeOK NoGapAfterAttach OpenMeansAttached BufferAccount CleanupArmed NoOrphanRecord
SYMMETRY SocketSymmetry
CHECK_DEADLOCK FALSE
