CONSTANTS
  Browsers = {"ann", "bob"}
  Pages <- TwoPages
  Layouts <- BothLayouts
  Servers = {"a", "b"}
  Modes = {TRUE, FALSE}
  Saves = {s1, s2}
  MayFail = TRUE
  ChallengeTtl = 1
  DemoTtl = 1
  PasskeyTtl = 1
  MaxIds = 3
  MaxTime = 2
  MaxRequests <- RequestsIn
SPECIFICATION Spec
INVARIANTS SoleOwner NotLockedOut ListsAreTrue
SYMMETRY Interchangeable
CHECK_DEADLOCK FALSE
