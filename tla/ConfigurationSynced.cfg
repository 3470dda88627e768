SPECIFICATION MCSpec
CONSTANTS
    None = None
    Sessions = {v1, v2, v3}
    Stale = 2
    MaxWait = 2
    MaxKills = 1
    MaxReboots = 1
    Templates <- MCTemplates
    Leases <- MCLeases
    Boards <- MCBoards
    Edits <- MCEdits
    Rows <- MCRows
    Wlans = {w1}
    MaxEdits = 3
    Devices = {d1, d2, d3}
    Hub = d1
    Addresses = {i1, i2, i3}
    Syncs = {y1}
    MaxNodes = 3
    MaxSyncs = 2
    MaxFaults = 1
    a1 = a1
    a2 = a2
    c1 = c1
    s1 = s1
    n1 = n1
    n2 = n2
    Macs = {a1, a2, c1}
    Sites = {s1, s2}
    Reports <- MCReports
    Names = {n1, n2}
    MaxChanges = 2
INVARIANT SyncedMatches
CHECK_DEADLOCK FALSE
