SPECIFICATION PlanSpec
CONSTANTS
    NumItems = 4
    Kind <- OneOperation
    Touches <- OnOne
    Rank <- InOrder
    Failures = TRUE
    MaxCrashes = 2
INVARIANTS
    ChangeSetsTruthful
PROPERTIES
    FailedRecoveryFences
    JournalEnds
