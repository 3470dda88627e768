SPECIFICATION Spec
CONSTANTS
    NumItems = 3
    Kind <- EveryKind
    Touches <- Overlapping
    Rank <- Backwards
    Failures = TRUE
    MaxCrashes = 2
INVARIANTS
    Recoverable
PROPERTIES
    RecoveryFences
