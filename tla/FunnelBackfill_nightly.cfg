SPECIFICATION Spec
CONSTANTS
    None = None
    PossibleEvents <- MCEvents
    LastDay = 15
    Lookback = 7
INVARIANT
    NightAgreesWithScript
CHECK_DEADLOCK FALSE
