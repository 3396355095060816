SPECIFICATION ResolutionSpec
CONSTANTS
    Account <- MCAccount
    Asset <- MCAsset
    Wallets <- MCWallets
    Requests <- MCRequests
    Holders <- MCHolders
INVARIANTS
    MovesWhatWasAsked
    SpendsFewest
    ValidationAgrees
CHECK_DEADLOCK FALSE
