SPECIFICATION FairSpec
CONSTANTS
    OpIds = {}
    CsIds = {1}
    Hashes = {h1}
    Roles = {"AP"}
    NoId = NoId
    NoHash = NoHash
    Devices = {1, 2}
    TargetSets <- AllDevices
    Capable = {TRUE}
    Kinds = {"changeset"}
    Outcomes = {"COMMITTED"}
    Workers = {w1}
    Handlers = {}
    NoProcess = NoProcess
    Crashes = FALSE
    MaxRuns = 1
    MaxGen = 2
    ExecutionLimit = 3
    FenceWindow = 4
PROPERTIES
    LaterPhasesDelivered
