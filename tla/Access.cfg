SPECIFICATION MCSpec
CONSTANTS
    None = None
    d1 = d1
    d2 = d2
    t1 = t1
    t2 = t2
    Users = {u1}
    Tenants = {t1, t2}
    Devices = {d1, d2}
    Home <- HomeOf
    MaxTickets = 1
    MaxSessions = 1
    MaxBoots = 1
    Routers = {d1}
    Sites = {s1}
    Nonces = {n1, n2}
    MaxTokens = 2
    MaxFlashes = 2
    Surveys = {s1}
    Samples = {x1, x2}
    Stale = 2
    Peers = {d1}
    Gateways = {d1}
    Requests = {q1, q2}
    Endpoints = {e1}
    Limit = 1
    MaxChanges = 2
    MaxFaults = 1
INVARIANT
    ShellsBound
PROPERTIES
    EnrollmentKept
    TenantsProvisioned
    SamplesSettle
    TunnelsSettle
CHECK_DEADLOCK FALSE
