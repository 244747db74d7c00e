SPECIFICATION Spec
CONSTANTS
    Workers = {"t1", "t2"}
    Alone = "t1"
    TorValues = {"ext", "int", "off"}
    MaxCrashes = 1
    MaxProcs = 2
CONSTRAINT Apart
INVARIANTS CacheFresh SecretWhole OneTor
PROPERTIES ConfigIntact RestartsNotEnds ListenerFollows
CHECK_DEADLOCK FALSE
