SPECIFICATION Spec
CONSTANTS
    Account <- MCAccount
    Asset <- MCAsset
    Client = {p1, p2}
    Transfers <- DepositOnly
    Books <- MCBooks
    Existing <- MCExisting
    Opening <- NoOpening
    Transition <- FreezeUnfreeze
    MaxRequests = 2
PROPERTY
    AcknowledgedTransitionLanded
CHECK_DEADLOCK FALSE
