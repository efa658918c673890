SPECIFICATION SensorsSpec
CONSTANTS
    Sensors = {"registers", "LSM6DSL", "HTS221", "LPS22HB", "board", "readings"}
    Registers <- MC_Registers
    Accessors <- MC_Accessors
    PowerOn <- MC_PowerOn
    NoValue = NoValue
    NoCall = NoCall
    MaxSets = 2
    LSMRates = {12, 833, 9999}
    XScales = {3, 16}
    GScales = {125, 246}
    LSMCalls = 3
    LSMFaults = 1
    HTSCalls = 3
    LPSReads = 4
    LPSFaults = 1
    BoardCalls = 2
    BoardFaults = 1
    MaxGap = 3
    Wave <- MC_Wave
    Calibrations <- MC_Calibrations
    Undefined = Undefined
    MaxReadings = 2
    MaxSamples = 3
    ReadingFaults = 1
INVARIANTS
    FieldReadsBack
    
    DetectionsHonest
    ReadingsTrue

    
CHECK_DEADLOCK FALSE
