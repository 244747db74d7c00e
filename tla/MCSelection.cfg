CONSTANTS
    Values = {1, 4, 9}
    MaxCoins = 5
    Amounts = {1, 3, 6, 11}
    OutputLimits = {1, 2, 3}
    ChangeCounts = {1}
    UseMax = {FALSE, TRUE}
    InWeight = 1
    OutWeight = 2
    KernWeight = 1
    FeeBase = 1
    MaxWeight = 7
SPECIFICATION Spec
INVARIANTS Conservation RefusesOnlyShort RetryFits
CHECK_DEADLOCK FALSE
