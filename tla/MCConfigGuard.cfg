SPECIFICATION FairSpec
CONSTANTS
    Changes = {c1, c2}
    Contents = {first, second}
    Initial = first
    NoJournal = NoJournal
    NotRunning = NotRunning
    Faults <- AnyFault
    TTL = 2
    MaxUptime = 3
    MaxBoots = 3
    MaxKills = 2
CHECK_DEADLOCK FALSE
INVARIANTS
    Recoverable
    BootRunsConfirmed
    RollbackFences
PROPERTIES
    UnconfirmedEnds
