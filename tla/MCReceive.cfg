CONSTANTS
    NumAccts = 1
    MaxChild = 3
    MaxTxs = 5
    StaleAge = 50
    NoSlate = NoSlate
    Slates = {s1}
    SendSlates = {}
    RecvSlates = {s1}
    InvSlates = {}
    PaySlates = {}
    Threads = {t1}
    NoThread = NoThread
    Jobs = {"update", "scan", "cancel"}
    Funds = 1
    MaxChange = 1
    MaxHeight = 2
    MaxReorg = 1
    Ttls = {0}
    ApiRefresh = TRUE
    LateLock = FALSE
    ZeroConf = FALSE
    Coinbases = FALSE
    Crashes = FALSE
    NodeFails = FALSE
SPECIFICATION Spec
INVARIANTS LinkOK
PROPERTIES LogSteps
