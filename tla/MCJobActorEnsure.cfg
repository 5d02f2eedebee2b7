\* Setup ensures of one workspace (audited, recorded) beside a converge; one
\* control place, registry writes that may fail.
CONSTANTS
    NWorkspaces = 1
    Stacks = {ensure, converge}
    RunnerStacks = {}
    LeasedStacks = {}
    OwnedStacks = {}
    GenericStacks = {}
    AuditedStacks = {ensure}
    RecordedStacks = {ensure}
    ConvergeStacks = {converge}
    RegistryFails = TRUE
    CancelAgain = FALSE
    Digests = {d1, d2}
    Clients = {}
    NoClient = NoClient
    RunnerSlots = 1
    ControlSlots = 1
    LeasePeriod = 1
    Retained = 3
    Results = {TRUE, FALSE}
    MaxHandoff = 0
    MaxJobs = 3
SPECIFICATION ActorSpec
SYMMETRY Symmetry
INVARIANTS
    
    HistoryIsTrue
PROPERTIES
    RunningIsOwned
