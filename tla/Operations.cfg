SPECIFICATION WedgedOpSpec
CONSTANTS
    Op <- FewOps
    Probe <- FewProbes
    Caller <- Clients
    callerOf <- FewOwners
    Worker <- Workers
    kMaxQueuedOpsPerReader = 1
    RemovalThread = "bus"
INVARIANTS
    NoStaleEntry
    DisconnectReachesAll
PROPERTIES
    RemovalReturns
    EveryOpEnds
CHECK_DEADLOCK FALSE
