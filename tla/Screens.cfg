SPECIFICATION Spec
CONSTANTS
    a = a
    b = b
    north = north
    south = south
    Workpieces = {a, b}
    Nobody = Nobody
    Places = {north, south}
    Nowhere = Nowhere
    Contents <- Snapshots
    Authorized = TRUE
    MaxOperations = 2
CHECK_DEADLOCK FALSE
INVARIANTS
    VisibleScreenIsCurrent
    OneOperationPerWorkpiece
    BusyTextIsTrue
PROPERTIES
    SubmitsNothingElse
