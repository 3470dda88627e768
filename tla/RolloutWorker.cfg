SPECIFICATION FairSpec
CONSTANTS
    OpIds = {}
    CsIds = {1}
    Hashes = {h1}
    Roles = {"AP"}
    NoId = NoId
    NoHash = NoHash
    Devices = {1, 2, 3}
    TargetSets <- AllDevices
    Capable = {TRUE, FALSE}
    Kinds = {"changeset"}
    Outcomes = {"COMMITTED", "REJECTED"}
    Workers = {w1, w2}
    Handlers = {}
    NoProcess = NoProcess
    Crashes = TRUE
    MaxRuns = 1
    MaxGen = 2
    ExecutionLimit = 3
    FenceWindow = 4
INVARIANTS
    PhaseGate
    ResultsAreTrue
PROPERTIES
    FinalResultsStay
    LeaseReclaimed
