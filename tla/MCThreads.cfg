CONSTANTS
    NumAccts = 1
    MaxChild = 2
    MaxTxs = 2
    StaleAge = 50
    NoSlate = NoSlate
    Slates = {s1}
    SendSlates = {s1}
    RecvSlates = {}
    InvSlates = {}
    PaySlates = {}
    Threads = {t1, t2}
    NoThread = NoThread
    Jobs = {"cancel"}
    Funds = 1
    MaxChange = 1
    MaxHeight = 1
    MaxReorg = 0
    Ttls = {0, 1}
    ApiRefresh = FALSE
    LateLock = FALSE
    ZeroConf = FALSE
    Coinbases = TRUE
    Crashes = FALSE
    NodeFails = FALSE
SPECIFICATION Spec
CONSTRAINT CoinbaseAlone
INVARIANTS SendHoldsInputs LockedHasSend ConfirmedMined BalanceOK
SYMMETRY ThreadSymmetry
