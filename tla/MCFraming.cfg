CONSTANTS
    Senders <- MCSenders
    RecipLists <- MCRecipLists
    SlateSet <- MCSlates
    MaxPad = 1
    Q = 3
    W = 64
    Fee = 2
    Amounts = {3, 9}
    ServerLists <- MCServerLists
    MaxReqs = 2
    MaxBuilt = 1
SPECIFICATION Codecs
INVARIANTS RoundTrip Refused SwapPays OnlyNextPeels
CHECK_DEADLOCK FALSE
