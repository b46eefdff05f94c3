SPECIFICATION FairSpec
CONSTANTS
    c1 = c1
    c2 = c2
    c3 = c3
    Calls = {c1, c2, c3}
    KeepaliveMax = 1
    MaxLine = 2
    Setups <- AllSetups
INVARIANTS RepliesMatched NoFalseTimeout
PROPERTIES NobodyWaits
CHECK_DEADLOCK FALSE
