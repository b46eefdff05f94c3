CONSTANTS
  Algorithms <- Names
  Setups <- Usual
  MaxMessages = 2
SPECIFICATION FairSpec
INVARIANTS AlwaysOpens AlwaysExpected HostKeyFirst SidesAgree
PROPERTIES ExchangeEnds
CHECK_DEADLOCK FALSE
