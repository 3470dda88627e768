SPECIFICATION PlanSpec
CONSTANTS
    OpIds = {o1}
    CsIds = {1, 2}
    Hashes = {hash}
    Roles = {"AP"}
    NoId = NoId
    NoHash = NoHash
    Devices = {1, 2}
    TargetSets <- AllDevices
    Capable = {TRUE, FALSE}
    Kinds = {"ssh", "changeset"}
    Outcomes = {"COMMITTED", "REJECTED"}
    Workers = {w1}
    Handlers = {h1, h2}
    NoProcess = NoProcess
    Crashes = TRUE
    MaxRuns = 2
    MaxGen = 4
    ExecutionLimit = 1
    FenceWindow = 2
SYMMETRY ProcessSymmetry
INVARIANTS
    SshClaims
    OneLease
PROPERTIES
    DevicesAreQueues
