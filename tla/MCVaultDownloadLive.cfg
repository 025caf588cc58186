SPECIFICATION FairSpec
CONSTANTS
    d1 = d1
    d2 = d2
    art1 = art1
    art2 = art2
    None = None
    Downloads <- Two
    ArtifactOf <- Apart
    Segments <- TwoSegments
    Slots = 1
    TTL = 1
    MaxTime = 3
    Faults = {"nntp"}
    MaxCrashes = 0
CHECK_DEADLOCK FALSE
INVARIANTS
    Inv
    SoleLinkServesWhole
PROPERTIES
    RequestsEnd
    ExpiredFilesGo
