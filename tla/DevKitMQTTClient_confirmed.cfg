SPECIFICATION Spec
CONSTANTS
    SEND_EVENT_RETRY_COUNT = 2
    CheckRounds = 2
    MaxCalls = 3
    MaxEvents = 4
    MaxMessages = 1
    MaxReconnects = 3
INVARIANTS
    ConfirmedIsReported
CHECK_DEADLOCK FALSE
