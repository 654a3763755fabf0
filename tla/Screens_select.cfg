SPECIFICATION Spec
CONSTANTS
    a = a
    b = b
    north = north
    south = south
    Workpieces = {a, b}
    Nobody = Nobody
    Places = {north, south}
    Nowhere = Nowhere
    Contents <- Snapshots
    Authorized = TRUE
    MaxOperations = 1
CHECK_DEADLOCK FALSE
INVARIANTS
    QueueStaysSelectable
