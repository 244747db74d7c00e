CONSTANTS
    MaxPath = 2
    MaxChild = 1
    MaxTip = 4
    Histories <- Chains
    Scanners = {"updater", "caller"}
    Updaters = {"updater"}
    UserLabels <- Names
    Batch = 2
    Window = 1
    Page = 1
    Chunk = 1
    Query = 1
    MaxFails = 1
    MaxCrash = 1
    Events = 2
CONSTRAINT Apart
SPECIFICATION Spec
INVARIANT OutputsRestored
INVARIANT AccountsRestored
INVARIANT NothingLost
INVARIANT ViewComplete
PROPERTY Restores
CHECK_DEADLOCK FALSE
