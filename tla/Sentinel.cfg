SPECIFICATION PartSpec
CONSTANTS
    None = None
    Proposals = {p1, p2}
    Approvers = {q1, q2}
    d1 = d1
    d2 = d2
    s1 = s1
    s2 = s2
    c1 = c1
    c2 = c2
    Tools <- ThreeTools
    Unknown = Unknown
    MaxCalls <- TwoEach
    Devices = {d1, d2}
    Sites = {s1, s2}
    SiteOf <- SiteOfEach
    Notes <- NoteOfEach
    MaxRounds = 2
    MaxToolCalls = 4
    PlanLimit = 2
    ToolReserve = 2
    Batch = 2
    Cases = {c1}
    Runs = {r1}
    Slots = {1, 2}
    Throttle = 2
    Timeout = 1
    LedgerLimit = 2
    MaxFaults = 1
    Requests = {q1, q2}
    PastCases = {c1, c2}
    Memories = {m1, m2}
    CaseScope <- ScopeOfEach
    Skills = {k1}
    MinReplay = 2
    MinShadow = 2
    Tasks = {1, 2, 3}
    TaskClasses <- OptionalClasses
    Statements = {m1, m2}
    MaxFailures = 2
    Alarmed = {d1}
    Reports = {r1}
    Silence = 2
    MaxCrashes = 1
INVARIANTS
    InvestigationConfined
    AnswersBacked
    QueuedOnce
    RoutesKept
PROPERTIES
    InvestigationEnds
    InvestigatingEnds
    MemoriesTrusted
    SkillsTrusted
    TasksComplete
    AlarmsSettle
CHECK_DEADLOCK FALSE
