SPECIFICATION FairSpec
CONSTANTS
    MaxConnections = 3
    Webhooks = {w1, w2}
    Capacity = 1
    Kept = 2
    MaxFailures = 1
CHECK_DEADLOCK FALSE
INVARIANTS
    Inv
    ReconnectsConserved
    ShownOnce
PROPERTIES
    WebhooksAnswered
    GoneIsForgotten
