SPECIFICATION Spec
CHECK_DEADLOCK FALSE
CONSTANTS
    Run = {r1, r2}
    Key = {k1, k2}
    Ends = {"success"}
    Client = {c1}
    None = None
    MaxLimit = 2
    ChannelCap = 1
    MaxLog = 1
    MaxEvents = 2
SYMMETRY Symmetry
INVARIANTS TypeOK OneLiveRunPerKey RecordsMatchScheduler  DiskCatchesUp
PROPERTIES ImplementsRunQueue  PrunedStaysGone
