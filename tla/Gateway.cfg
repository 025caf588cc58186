SPECIFICATION Spec
CONSTANTS
    Requests = {r1, r2}
    Methods = {"OPTIONS", "POST"}
    Paths = {"health", "chat", "events", "proxy", "other"}
    Credentials = {"none", "lan", "token"}
    MaxRotations = 1
CHECK_DEADLOCK FALSE
INVARIANT
    ChatStreams
