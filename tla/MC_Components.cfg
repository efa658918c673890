SPECIFICATION ComponentsSpec
CONSTANTS
    Components = {"ring", "eeprom", "tick", "telemetry", "audio", "websocket", "udp", "multicast", "http",
                  "serial", "time", "wifi", "console", "dps"}
    p_size = 3
    Bytes = {0, 1}
    MaxChunk = 4
    Settings = {"wifi", "iothub"}
    Layout <- MC_Layout
    ZoneOrder <- MC_ZoneOrder
    Blocks <- MC_Blocks
    Values = {1, 2}
    Wrap = 5
    MaxGap = 4
    PerMs = 3
    MaxTime = 23
    Producers = {"p1", "p2"}
    MESSAGE_QUEUE_SIZE = 2
    MaxMessages = 5
    WAVE_HEADER_SIZE = 2
    AUDIO_CHUNK_SIZE = 4
    SampleSize = 1
    BufferSizes = {1, 2, 5, 6, 10, 13}
    MaxInbox = 1
    Addresses = {"a", "b"}
    MaxUDPBytes = 3
    TxCapacity = 3
    RxCapacity = 2
    MaxAsked = 5
    Fds = {0, 1, 2}
    MaxBacklog = 1
    Polls = 1
    Faults = {"create", "socket", "bind", "select", "accept", "connect"}
    BufSize = 1
    TxMultiple = 2
    MaxReceived = 2
    MaxWritten = 3
    MaxFlushes = 1
    TimeWrap = 16
    MaxWait = 2
    ServerLists <- MC_ServerLists
    INBUF_SIZE = 8
    MAX_CMD_ARG = 3
    WIFI_SSID_MAX_LEN = 3
    SSIDZoneSize = 3
    WIFI_PWD_MAX_LEN = 2
    PwdZoneSize = 3
    KeyDigits = 2
    Keyboards <- MC_Keyboards
    Hubs = {"h1", "h2"}
    MaxStarts = 3
INVARIANTS
    
    TickExact
    AudioSound
    
    SerialFifo
    ResourcesAccounted
    ConsoleFaithful
PROPERTIES
    
    StepsHonest
    WrongClockSetRight
    ComponentsLive
