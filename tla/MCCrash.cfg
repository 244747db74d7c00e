CONSTANTS
    NumAccts = 2
    MaxChild = 2
    MaxTxs = 3
    StaleAge = 50
    NoSlate = NoSlate
    Slates = {s1}
    SendSlates = {s1}
    RecvSlates = {}
    InvSlates = {}
    PaySlates = {}
    Threads = {t1}
    NoThread = NoThread
    Jobs = {"update"}
    Funds = 1
    MaxChange = 1
    MaxHeight = 1
    MaxReorg = 0
    Ttls = {0}
    ApiRefresh = FALSE
    LateLock = TRUE
    ZeroConf = FALSE
    Coinbases = FALSE
    Crashes = TRUE
    NodeFails = TRUE
SPECIFICATION Spec
INVARIANTS TypeOK KeysFresh
