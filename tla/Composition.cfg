SPECIFICATION FairSpec
CONSTANTS
    CommandLines <- MCCommandLines
    Scenarios = {"loaded", "refused", "throws"}
    MaxUint = 15
    MaxTasks = 2
INVARIANTS
    NothingDangles
    NothingIsLeftBehind
    TasksRunUnderMonitoring
PROPERTIES
    StopReturns
    SmokeExitEnds
