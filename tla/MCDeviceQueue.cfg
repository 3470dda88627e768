SPECIFICATION Spec
CONSTANTS
    OpIds = {o1, o2}
    CsIds = {c1, c2}
    Hashes = {h1, h2}
    Roles = {"AP", "Gateway"}
    NoId = NoId
    NoHash = NoHash
    Rollouts = {r1, r2}
    MaxGen = 3
SYMMETRY Symmetry
INVARIANTS
    QueueCoherent
PROPERTIES
    ClearedByOwnReport
    OutcomeIsFinal
    RecoveryFence
