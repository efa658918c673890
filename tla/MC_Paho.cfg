SPECIFICATION LibrarySpec
CONSTANTS
    Parts = {"packets", "topics", "client"}
    Lengths <- MC_Lengths
    Packets <- MC_Packets
    BufferLengths = {2, 4, 6, 12, 130}
    MAX_MESSAGE_HANDLERS = 1
    MAX_PACKET_ID = 2
    Options <- MC_Options
    QoSs = {0, 1}
    Subscriptions <- MC_Subscriptions
    Incoming <- MC_Incoming
    Probes <- MC_Probes
    MaxCalls = 4
    MaxConnections = 2
    MaxIncoming = 1
    MaxDue = 1
    MaxFaults = 1
INVARIANTS
    PacketRoundTrip
    TopicMatched
    
    InflightKept

    
CHECK_DEADLOCK FALSE
