SPECIFICATION FairUiSpec
CONSTANTS
    Models = {m1, m2}
    OtherModels = {m9}
    NoModel = NoModel
    Replies = {m1}
    Workpieces = {w1, w2}
    NoWorkpiece = Nothing
    Nothing = Nothing
    Period <- Periods
    Healths = {ok}
    MaxTime = 0
    MaxChanges = 1
    MaxSelects = 2
    PostMayFail = FALSE
PROPERTIES
    SelectionIsDetailed
