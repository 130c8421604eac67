SPECIFICATION LiveSpec
CONSTANTS
    Clients = {c1, c2}
    MaxCards = 2
    MaxReqs = 3
    MaxTime = 1
    IdleTimeout = 1
    MaxLifetime = 2
    kMaxPerWindow = 1
    kWindow = 0
    kBaseBackoff = 1
    kMaxBackoff = 2
    kMaxLevel = 2
    kSweepThreshold = 0
INVARIANTS
    ConsentPrecedesUse
    PinIsSpared
PROPERTIES
    EveryRequestIsAnswered
CHECK_DEADLOCK FALSE
