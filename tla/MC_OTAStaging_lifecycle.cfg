SPECIFICATION Spec
CONSTANTS
    OTA_PACKAGE_HEADER_SIZE = 2
    OTA_PACKAGE_SIGNATURE_SIZE = 1
    OTA_IMAGE_DESCRIPTOR_OFFSET = 2
    OTA_IMAGE_DESCRIPTOR_SIZE = 2
    VectorSize = 2
    OTA_STAGING_ERASE_BLOCK_SIZE = 3
    OTA_STAGING_WRITE_BLOCK_SIZE = 2
    OTA_STAGING_READ_BACK_BLOCK_SIZE = 3
    OtaLength = 5
    AppLength = 5
    Bytes = {0, 1, 2, 3}
    Erased = 3
    StackPointers = {1}
    Sha <- MCSha
    Crc <- MCCrc
    Digests <- MCDigests
    ZeroDigest <- MCZeroDigest
    Crcs <- MCCrcs
    Keys <- OneKey
    ParsableKeys <- OneKey
    Headers <- GoodPackages
    Bodies <- GoodBodies
    PackageSizes = {7, 8}
    GenerationLimit = 3
    CallbackAborts = FALSE
    MaxSessions = 2
    MaxCrashes = 1
    MaxChunk = 3
INVARIANTS
    TypeOK
    ActivatedDurable
    FailedActivationHarmless
    InstalledWasApproved
    StreamConsistent
    AbortIsFinal
PROPERTIES
    ImplementsContract
CHECK_DEADLOCK FALSE
