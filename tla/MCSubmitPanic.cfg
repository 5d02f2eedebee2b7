\* Superseding the job behind one whose lease lapses meanwhile.
CONSTANTS
    NWorkspaces = 1
    Stacks = {t1, t2}
    RunnerStacks = {t1, t2}
    LeasedStacks = {t1, t2}
    OwnedStacks = {}
    GenericStacks = {}
    AuditedStacks = {}
    RecordedStacks = {}
    ConvergeStacks = {}
    RegistryFails = FALSE
    CancelAgain = FALSE
    Digests = {d1, d2, d3}
    Clients = {}
    NoClient = NoClient
    RunnerSlots = 1
    ControlSlots = 1
    LeasePeriod = 1
    Retained = 4
    Results = {TRUE}
    MaxHandoff = 0
    MaxJobs = 4
SPECIFICATION ActorSpec
SYMMETRY SymmetryStacks
INVARIANTS
    NoPanic
