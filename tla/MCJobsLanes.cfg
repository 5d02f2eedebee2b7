\* Both lanes and two workspaces with three jobs, which a client process may own; and
\* four leased tasks of one key (Scope).
CONSTANTS
    NWorkspaces = 2
    Stacks = {ensure, task}
    RunnerStacks = {task}
    LeasedStacks = {task}
    OwnedStacks = {task}
    Digests = {d1, d2, d3}
    Clients = {c1}
    NoClient = NoClient
    RunnerSlots = 1
    ControlSlots = 1
    LeasePeriod = 1
    Retained = 1
    Results = {TRUE, FALSE}
    MaxHandoff = 0
    MaxJobs = 4
SPECIFICATION Spec
CONSTRAINT Scope
SYMMETRY Symmetry
INVARIANTS
    TypeOK
    OneRunsOneWaits
    LanesWithinCaps
    RunnerBelowCapHasSlot
    QueuedOnce
PROPERTIES
    OutcomeFinal
    JoinAddsNoDependence
