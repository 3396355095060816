SPECIFICATION Spec
CONSTANTS
    r1 = r1
    r2 = r2
    Account <- MCAccount
    Asset <- MCAsset
    Runner = {r1, r2}
    Movements <- MCMovements
    Existing <- MCExisting
    Opening <- MCOpening
    Others <- MCOthers
    Transition <- MCTransition
    MinCent <- MCMinCent
    MaxOthers = 1
    MaxAttempts = 2
INVARIANTS
    FailedMeansUndone
    OkMeansApplied
PROPERTIES
    CompensationFailsForCause
    SagaEnds
