SPECIFICATION FairSpec
CONSTANTS
    SEND_EVENT_RETRY_COUNT = 2
    CheckRounds = 2
    MaxCalls = 3
    MaxEvents = 4
    MaxMessages = 1
    MaxReconnects = 2
INVARIANTS
    EventOwned
    SendTrueMeansConfirmed
PROPERTIES
    CallsReturn
CHECK_DEADLOCK FALSE
