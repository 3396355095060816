SPECIFICATION Spec
CONSTANTS
    Account <- MCAccount
    Asset <- MCAsset
    Session = {s1, s2}
    NoSession = NoSession
    Dialects = {"Postgres", "Sqlite"}
    Opening <- MCOpening
    Existing <- MCExisting
    Creatable <- MCCreatable
    Envelopes <- MCEnvelopes
    Transition <- MCTransition
    MaxVersion = 2
    MaxRequests = 3
INVARIANTS
    SqlTypeOK
    GuardsHoldAtCommit
PROPERTIES
    AtomicUnlessReplayed
    EveryTransactionEnds
CHECK_DEADLOCK FALSE
