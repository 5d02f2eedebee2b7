\* Liveness: one leased task stack beside a stack of jobs without an executor.
CONSTANTS
    NWorkspaces = 1
    Stacks = {task, generic}
    RunnerStacks = {task}
    LeasedStacks = {task}
    OwnedStacks = {}
    GenericStacks = {generic}
    AuditedStacks = {}
    RecordedStacks = {}
    ConvergeStacks = {}
    RegistryFails = FALSE
    CancelAgain = FALSE
    Digests = {d1, d2}
    Clients = {c1}
    NoClient = NoClient
    RunnerSlots = 1
    ControlSlots = 1
    LeasePeriod = 1
    Retained = 2
    Results = {TRUE}
    MaxHandoff = 0
    MaxJobs = 2
SPECIFICATION FairActorSpec
PROPERTIES
    FollowerGoneEndsJob
    WorkEnds
