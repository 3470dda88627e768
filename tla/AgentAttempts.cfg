SPECIFICATION Spec
CONSTANTS
    NumItems = 2
    Kind <- Operations
    Touches <- OnFirst
    Rank <- InOrder
    Failures = TRUE
    MaxCrashes = 0
INVARIANTS
    TruthfulOutcome
