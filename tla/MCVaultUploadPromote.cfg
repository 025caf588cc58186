SPECIFICATION Spec
CONSTANTS
    a = a
    b = b
    Uploads <- TwoUploads
    Parts <- BothNonEmpty
    Slots = 1
    ForeignKeys = TRUE
    Faults = {}
    MaxStops = 0
CHECK_DEADLOCK FALSE
INVARIANTS
    NoSpuriousFailure
