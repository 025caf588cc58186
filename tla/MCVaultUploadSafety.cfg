SPECIFICATION Spec
CONSTANTS
    a = a
    b = b
    Uploads <- TwoUploads
    Parts <- OneEmpty
    Slots = 1
    ForeignKeys = FALSE
    Faults = {"disk", "invoice", "db", "nntp"}
    MaxStops = 1
CONSTRAINT ShortIfEmpty
CHECK_DEADLOCK FALSE
INVARIANTS
    Inv
    StartedOnce
    PaidBeforeUpload
    SourceKept
    ReadyIsComplete
    RowsAgree
PROPERTIES
    ArtifactNeverRegresses
    WaitDrains
    FollowsLifecycle
