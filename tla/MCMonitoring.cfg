SPECIFICATION Spec
CONSTANTS
    Models = {m1, m2}
    OtherModels = {m9}
    NoModel = NoModel
    Replies = {m1, m2, m9, "Timeout"}
    Workpieces = {w1}
    NoWorkpiece = Nothing
    Nothing = Nothing
    Period <- Periods
    Healths = {ok, alarm}
    MaxTime = 2
    MaxChanges = 2
    MaxSelects = 1
SYMMETRY DataSymmetry
INVARIANTS
    InFlightIsRunning
    PublishedIsLatest
PROPERTIES
    EveryVersionIsNews
    ProfileIsFixed
