\* One runner slot, two workspaces that take turns; their leased jobs join, supersede, go stale
\* and lapse.
CONSTANTS
    NWorkspaces = 2
    Stacks = {t1}
    RunnerStacks = {t1}
    LeasedStacks = {t1}
    OwnedStacks = {}
    Digests = {d1, d2, d3}
    Clients = {}
    NoClient = NoClient
    RunnerSlots = 1
    ControlSlots = 1
    LeasePeriod = 1
    Retained = 4
    Results = {TRUE}
    MaxHandoff = 0
    MaxJobs = 4
SPECIFICATION TurnsSpec
SYMMETRY Symmetry
INVARIANTS
    NobodyPassedTwice
    WorkConserving
