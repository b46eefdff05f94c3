SPECIFICATION FairSpec
CONSTANTS
    c1 = c1
    c2 = c2
    ed = ed
    rsa = rsa
    Conns = {c1, c2}
    Keys = {ed, rsa}
    RsaKeys = {rsa}
    Setups <- AllSetups
INVARIANTS OutcomeIsTrue
PROPERTIES Lifetimes CallsReturn
CHECK_DEADLOCK FALSE
