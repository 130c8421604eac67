CONSTANTS
    kMaxPaceAttempts = 2
    kMaxBatchDocuments = 2
    MaxRefusals = 2
    MaxAsks = 3
    MaxOps = 2
SPECIFICATION Spec
INVARIANTS
    SecretsAreCounted
    ResultIsHonest
    BatchIsAccounted
    
CHECK_DEADLOCK FALSE
