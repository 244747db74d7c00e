CONSTANTS
    Wallets = {"A", "B"}
    Slates = {"s"}
    Accts = {0}
    MaxCtx = 2
    MaxCoin = 4
    MaxValue = 4
    Fee = 1
    Amounts = {2}
    Funds <- TwoCoins
    Ttls = {0, 1}
    Payers = {"A"}
    MaxEntries = 2
    LateLock = {"api"}
    Proofs = TRUE
    Invoices = TRUE
    Tor = TRUE
    Api = TRUE
    Cancels = TRUE
    MaxDamaged = 1
SPECIFICATION Spec
INVARIANTS NoNonceReuse ReplyCompletes KernelFound ProofVerifies
PROPERTIES PaysAsAgreed
CHECK_DEADLOCK FALSE
