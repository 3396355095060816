SPECIFICATION Spec
CONSTANTS
    p1 = p1
    p2 = p2
    p3 = p3
    PostingId = {p1, p2, p3}
    Caller = {c1, c2}
    NoCaller = NoCaller
    Stores = {"Postgres", "Serial"}
    Calls <- MCCalls
    MAX_IDS_PER_QUERY = 2
    MaxCalls = 4
INVARIANTS
    TablesTypeOK
    WinnerHolds
    StatesAreTrue
PROPERTIES
    ClaimIsWhole
    ImplementsLifecycle
    EveryCallReturns
CHECK_DEADLOCK FALSE
