SPECIFICATION FairSpec
CONSTANTS
  IdSpace = 16
  MaxOpens = 2
  MaxWrites = 6
  Window = 4
  Buffer = 1
  Inbox = 1
  Setups <- AllSetups
INVARIANTS RoutedRight WindowsAgree NoSessionEnds ReplyForEach
CHECK_DEADLOCK FALSE
PROPERTIES ChannelsSettle
