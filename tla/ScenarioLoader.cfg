SPECIFICATION Spec
CONSTANTS
    Files <- MCFiles
    MachineCodes = {"one", "two"}
    Max32 = 20
    MaxMs = 8
    MaxElements = 18
    TicksPerMs = 2
    BootTicks = 1
    MaxElapsed = 7
    MaxWrites = 2
INVARIANTS
    FramesFollowTheFile
    FramesAreConsistent
    LastReadIsTheLastGood
PROPERTIES
    ChangesHaveLaterVersions
