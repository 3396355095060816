SPECIFICATION Spec
CONSTANTS
    Account <- MCAccount
    Asset <- MCAsset
    Client = {p1, p2}
    Transfers <- MCTransfers
    Books <- MCBooks
    Existing <- MCExisting
    Opening <- MCOpening
    Transition <- MCTransition
    MaxRequests = 4
INVARIANTS
    Conservation
    OffsetsOnlyWherePermitted
PROPERTIES
    ReceiptsAreDurable
    ImplementsAbstractLedger
CHECK_DEADLOCK FALSE
