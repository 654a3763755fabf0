SPECIFICATION Spec
CONSTANTS
    a = a
    b = b
    Workpieces = {a, b}
    Models = {m1}
    OtherModels = {m9}
    NoModel = NoModel
    Replies = {m1, m9}
    Frames <- Contents
    MaxFrames = 2
    MaxOperations = 2
    MaxOther = 1
CHECK_DEADLOCK FALSE
INVARIANTS
    TypeOK
    ReportMatchesEffect
    OneWritePerVersion
PROPERTIES
    MoveChangesWhatWasSeen
    SuccessIsConfirmed
