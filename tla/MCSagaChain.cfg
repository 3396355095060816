SPECIFICATION Spec
CONSTANTS
    r1 = r1
    r2 = r2
    Account <- MCAccount
    Asset <- MCAsset
    Runner = {r1}
    Movements <- Overspent
    Existing <- MCExisting
    Opening <- MCOpening
    Others <- MCOthers
    Transition <- MCTransition
    MinCent <- MCMinCent
    MaxOthers = 0
    MaxAttempts = 1
INVARIANTS
    AllOrNothing
