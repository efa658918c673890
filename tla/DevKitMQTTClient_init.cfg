SPECIFICATION Spec
CONSTANTS
    SEND_EVENT_RETRY_COUNT = 2
    CheckRounds = 2
    MaxCalls = 2
    MaxEvents = 1
    MaxMessages = 1
    MaxReconnects = 1
INVARIANTS
    InitTrueMeansConnected
CHECK_DEADLOCK FALSE
