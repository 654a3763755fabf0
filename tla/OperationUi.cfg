SPECIFICATION FairUiSpec
CONSTANTS
    UiThread = ui
    Clients = {ui}
    Free = Free
    MaxOperations = 3
    OverlayDelay = 2
    MaxTime = 3
INVARIANTS
    PresentedOnceInOrder
    PresentedHaveEnded
PROPERTIES
    OverlayAppears
    OverlayGoesAway
    EveryEndIsPresented
