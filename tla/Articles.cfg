SPECIFICATION Spec
CONSTANTS
    Bytes = {0, 4, 19, 214, 223, 224, 227}
    MaxLength = 5
    SegmentSize = 3
    LineLength = 2
    MaxDamages = 1
CHECK_DEADLOCK FALSE
INVARIANTS
    RoundTrip
    WireSafe
    PartsTile
