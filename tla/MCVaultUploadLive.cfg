SPECIFICATION FairSpec
CONSTANTS
    a = a
    b = b
    Uploads <- TwoUploads
    Parts <- OneEmpty
    Slots = 1
    ForeignKeys = TRUE
    Faults = {"disk", "nntp"}
    MaxStops = 1
CONSTRAINT ShortPayments
CHECK_DEADLOCK FALSE
PROPERTIES
    StartedEnds
    StopSparesBegun
    ShutdownEnds
