SPECIFICATION FairSpec
CONSTANTS
    NumItems = 2
    Kind <- Multis
    Touches <- OnBoth
    Rank <- InOrder
    Failures = FALSE
    MaxCrashes = 1
PROPERTIES
    StartedEnds
