SPECIFICATION Spec
CONSTANTS
    d1 = d1
    d2 = d2
    art1 = art1
    art2 = art2
    None = None
    Downloads <- Two
    ArtifactOf <- Shared
    Segments <- OneSegment
    Slots = 2
    TTL = 1
    MaxTime = 3
    Faults = {"disk", "db"}
    MaxCrashes = 1
SYMMETRY SharedSymmetry
CONSTRAINT OneReader
CHECK_DEADLOCK FALSE
INVARIANT
    Inv
PROPERTIES
    TokenLivesItsTTL
    FollowsLifecycle
