SPECIFICATION FairSpec
CONSTANTS
    Streams = {s1, s2}
    Events = 3
    Capacity = 3
    Faults = {}
CHECK_DEADLOCK FALSE
PROPERTY
    PublishReturns
