SPECIFICATION Spec
CONSTANTS
    Writer = {w1, w2}
    Keyed = {"TransferCommitted"}
    Unkeyed = {"AccountCreated"}
    Stores = {"InMemory", "Sql"}
    TailRange = 3
    Limit = 1
    MaxMs = 2
    MaxAppends = 3
INVARIANTS
    FeedTypeOK
    ReplaysAgree
    MissedForCause
PROPERTIES
    EventuallyDelivered
CHECK_DEADLOCK FALSE
