CONSTANTS
  Users = {"u1", "u2"}
  Attempts <- SomeAttempts
  Proceed <- SomeProceed
  ConfigMethods = {"none", "password", "publickey", "keyboard"}
  MaxAuthAttempts = 2
  Clients = {"russh", "other"}
  MaxCalls = 4
  MaxCancels = 1
  MaxPrompts = 1
SPECIFICATION FairSpec
INVARIANTS SameUser RepliesAreOwn
PROPERTIES CallReturns ImplementsService
CHECK_DEADLOCK FALSE
