SPECIFICATION InflightSpec
CONSTANTS
    Account <- MCAccount
    Asset <- MCAsset
    Client = {p1, p2}
    Trades <- GiftTrade
    Sub <- TwoHolds
    Confirms <- BatchConfirms
    Existing <- MCExisting
    MaxRequests = 4
    MaxInterrupts = 1
INVARIANTS
    HeldIsAccountedFor
    ClosedHoldIsEmpty
SYMMETRY ClientSymmetry
CHECK_DEADLOCK FALSE
