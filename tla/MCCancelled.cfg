CONSTANTS
    NumAccts = 1
    MaxChild = 3
    MaxTxs = 3
    StaleAge = 50
    NoSlate = NoSlate
    Slates = {s1}
    SendSlates = {s1}
    RecvSlates = {}
    InvSlates = {}
    PaySlates = {}
    Threads = {t1}
    NoThread = NoThread
    Jobs = {"update"}
    Funds = 1
    MaxChange = 1
    MaxHeight = 2
    MaxReorg = 0
    Ttls = {0}
    ApiRefresh = TRUE
    LateLock = FALSE
    ZeroConf = FALSE
    Coinbases = FALSE
    Crashes = FALSE
    NodeFails = FALSE
SPECIFICATION Spec
PROPERTIES ConfirmedNotCancelled
