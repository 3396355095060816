SPECIFICATION StoreSpec
CONSTANTS
    Account <- MCAccount
    Asset <- MCAsset
    Existing <- NoAccounts
    Envelopes <- MCEnvelopes
    MaxVersion <- MCMaxVersion
INVARIANTS
    StoreTypeOK
    LiveIsUnspent
    NoDoubleSpend
    PostingsFromLog
    VersionChain
    EventsMatchTables
    EventsTellTheTruth
    OverdraftFloor
PROPERTIES
    BlockedAccountsUntouched
    AppendOnly
CHECK_DEADLOCK FALSE
