CONSTANTS
    NumAccts = 1
    MaxChild = 3
    MaxTxs = 3
    StaleAge = 0
    NoSlate = NoSlate
    Slates = {s1, s2, s3}
    SendSlates = {s3}
    RecvSlates = {}
    InvSlates = {s1}
    PaySlates = {s2}
    Threads = {t1}
    NoThread = NoThread
    Jobs = {"update", "scan"}
    Funds = 1
    MaxChange = 1
    MaxHeight = 2
    MaxReorg = 1
    Ttls = {0}
    ApiRefresh = FALSE
    LateLock = FALSE
    ZeroConf = FALSE
    Coinbases = TRUE
    Crashes = FALSE
    NodeFails = FALSE
SPECIFICATION QuietSpec
CONSTRAINT Apart
INVARIANTS BalanceOK CoinbaseLogged
PROPERTIES ScanRepairs
