CONSTANTS
  w1 = w1
  w2 = w2
  d1 = d1
  d2 = d2
  Alarm = Alarm
  Sockets <- OneSocket
  Deletes <- TwoDeletes
  Sizes <- OneOrThree
  MaxBuffer = 2
  HandshakeReads = 1
  MaxOutput = 1
  MaxEvictions = 1
  MaxTries = 2
  KvMayFail = TRUE
SPECIFICATION FairSpec
PROPERTIES StoredEventuallyDeleted
CHECK_DEADLOCK FALSE
