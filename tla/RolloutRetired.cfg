SPECIFICATION Spec
CONSTANTS
    OpIds = {}
    CsIds = {1, 2}
    Hashes = {h1}
    Roles = {"AP"}
    NoId = NoId
    NoHash = NoHash
    Devices = {1, 2}
    TargetSets <- SomeDevices
    Capable = {TRUE}
    Kinds = {"changeset"}
    Outcomes = {"COMMITTED", "REJECTED"}
    Workers = {w1}
    Handlers = {}
    NoProcess = NoProcess
    Crashes = TRUE
    MaxRuns = 2
    MaxGen = 3
    ExecutionLimit = 3
    FenceWindow = 4
SYMMETRY ProcessSymmetry
INVARIANTS
    RetiredPlansNotApplied
