\* A job that the sweep admits is cancelled before it is launched.
CONSTANTS
    NWorkspaces = 1
    Stacks = {task}
    RunnerStacks = {task}
    LeasedStacks = {task}
    OwnedStacks = {}
    GenericStacks = {}
    AuditedStacks = {}
    RecordedStacks = {}
    ConvergeStacks = {}
    RegistryFails = FALSE
    CancelAgain = FALSE
    Digests = {d1, d2}
    Clients = {}
    NoClient = NoClient
    RunnerSlots = 1
    ControlSlots = 1
    LeasePeriod = 1
    Retained = 4
    Results = {TRUE}
    MaxHandoff = 0
    MaxJobs = 3
SPECIFICATION ActorSpec
SYMMETRY Symmetry
INVARIANTS
    CancelSignalled
