SPECIFICATION FairSpec
CONSTANTS
    Streams = {s1, s2}
    Events = 3
    Capacity = 2
    Faults = {"read", "write"}
CHECK_DEADLOCK FALSE
INVARIANTS
    Inv
    MissesNothing
    TerminalIsStored
PROPERTY
    StreamsEnd
