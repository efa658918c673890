SPECIFICATION RequestSpec
CONSTANTS
    MaxPort = 90
    Urls <- MC_Urls
    Requested <- MC_Requested
    Methods = {"GET", "POST"}
    Bodies <- MC_Bodies
    HeaderPairs <- MC_HeaderPairs
    Answers <- MC_Answers
    HTTP_RECEIVE_BUFFER_SIZE = 100
    BodyPiece = 2
    SendTries = 2
    MaxSends = 2
    MaxHeader = 40
    Cuts = {1, 3, 100}
    MaxLength = 99
INVARIANTS
    ResponseWhole
CHECK_DEADLOCK FALSE
