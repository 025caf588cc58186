SPECIFICATION FairSpec
CONSTANTS
    Configured = 4
    Workers = {w1, w2, w3}
    Conns = {c1, c2, c3, c4}
    None = None
CHECK_DEADLOCK FALSE
INVARIANTS
    IInv
    Exclusive
    IdleUsable
    NeverWaits
PROPERTIES
    OperationEnds
