SPECIFICATION FairUiSpec
CONSTANTS
    Models = {m1, m2}
    OtherModels = {m9}
    NoModel = NoModel
    Replies = {m1, m2, "InvalidResponse"}
    Workpieces = {w1}
    NoWorkpiece = Nothing
    Nothing = Nothing
    Period <- Periods
    Healths = {ok, alarm}
    MaxTime = 0
    MaxChanges = 1
    MaxSelects = 1
    PostMayFail = TRUE
PROPERTIES
    UiConverges
    MonitoringStops
