SPECIFICATION CheckSpec
CONSTANTS
    a = a
    b = b
    c = c
    fits = fits
    foreign = foreign
    Workpieces = {a, b, c}
    Models = {m1, m2}
    OtherModels = {}
    NoModel = NoModel
    Replies = {m1, m2}
    Frames <- Contents
    MaxFrames = 2
    MaxOperations = 1
    MaxOther = 0
    UsableTools <- Usable
    MaxUsage = 2
    Recipes <- Instructions
SYMMETRY ModelSymmetry
CHECK_DEADLOCK FALSE
INVARIANTS
    AnswerIsAboutRequest
    CheckReportMatchesEffect
PROPERTIES
    QueueFollowsAnswer
    NothingBegunOnceLatched
