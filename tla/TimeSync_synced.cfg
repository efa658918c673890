SPECIFICATION TimeSpec
CONSTANTS
    TimeWrap = 16
    MaxWait = 2
    ServerLists = {}
INVARIANT
    SyncedMeansRight
