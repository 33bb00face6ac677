SPECIFICATION Spec
CONSTANTS
    MaxVersion = 2
    Intents = {"A", "B"}
    LastVersion <- MCLastVersion
    VolumeChoices <- MCVolumeChoices
    Window <- MCWindow
    Importers = {h1, h2}
    Requests <- MCRequests
    MaxItems = 3
    MaxImports = 2
    Evaluators = {h1, h2}
    Samples <- MCSamples
    MaxEvaluations = 3
    MaxConcurrent = 2
    MaxFailures = 1
    Agents = {"a1", "a2", "a3"}
    Called = {"a1"}
    Relays = {"r1", "r2"}
    Addresses = {"x", "y", "z"}
    Callers = {h1, h2}
    TTL = 1
    Timeout = 1
    MaxClock = 2
    MaxMoves = 2
    MaxCalls = 3
    MaxEvents = 5
    Workers = 2
    Assignments <- MCAssignments
    MaxBatch = 2
    Published <- MCPublished
    MaxDashboards = 2
    h1 = h1
    h2 = h2
SYMMETRY Renamings
INVARIANTS
    MissionStaysInVolume
    KeyNamesOneRequest
    VerdictMatchesCells
    MissionFlownConforms
    RightRegistrySuffices
    NoLeakedConnection
    ViewIsWhole
    DashboardIsComplete
PROPERTIES
    SummaryNeverForgets
    DashboardNeverRegresses
CHECK_DEADLOCK FALSE
