SPECIFICATION Spec
CONSTANTS
    Dirs = {"d1", "d2"}
    Words = {"w1", "w2"}
    Passwords = {"p1"}
    MaxBaks = 2
    MaxOpens = 2
    MaxCrashes = 1
    Clients = {"c1", "c2"}
    Updaters = {"u1", "u2"}
    MaxKeys = 2
INVARIANTS SeedKept SharedStateAgrees
PROPERTIES WritesOwn Stops
CONSTRAINT Apart
CHECK_DEADLOCK FALSE
