SPECIFICATION Spec
CONSTANTS
    Op <- Ops
    Probe <- Probes
    Caller <- Clients
    callerOf <- Owners
    Worker <- Workers
    kMaxQueuedOpsPerReader = 2
    RemovalThread = "monitor"
INVARIANT NoStaleEntry
CHECK_DEADLOCK FALSE
