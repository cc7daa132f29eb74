SPECIFICATION Spec
CHECK_DEADLOCK FALSE
CONSTANTS
    MaxCalls = 5
    MaxLosses = 2
    MaxOwnerLosses = 1
INVARIANTS
    TypeOK
    StatusIsTrue
    CommitsWhatWasConfirmed
    BatonIsCurrent
PROPERTIES
    ClosedIsFinal
