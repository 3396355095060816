SPECIFICATION Spec
CONSTANTS
    Account <- MCAccount
    Asset <- MCAsset
    Session = {s1, s2}
    NoSession = NoSession
    Dialects = {"Postgres"}
    Opening <- MCOpening
    Existing <- MCExisting
    Creatable <- NoAccounts
    Envelopes <- DepositAndSpend
    Transition <- NoTransition
    MaxVersion = 1
    MaxRequests = 3
PROPERTIES
    SpentStaysSpent
CHECK_DEADLOCK FALSE
