SPECIFICATION Spec
CONSTANTS
  Lists <- MCLists
  Issuer <- MCIssuer
  MaxLists = 2
  MaxImports = 2
  Threads = {"t1", "t2"}
  Changes <- MCChanges
  AdminFiles <- MCAdminFiles
  MaxChanges = 2
  MaxStarts = 2
  ReaderNames <- MCNames
  MaxObjects = 6
  kMaxPerWindow = 2
  kWindow = 2
  kBaseBackoff = 3
  kMaxBackoff = 5
  kMaxLevel = 3
  kSweepThreshold = 1
  Callers = {"a", "b"}
  MaxTime = 8
  MaxAttempts = 6
  Budgets <- MCBudgets
  kFrameHeaderBytes = 2
  kMaxFrameBytes = 2
  kMaxFrameFds = 1
  ChunkBytes = 3
  MaxFrames = 3
INVARIANTS
    ImportIsSound
    EngineIsCurrent
    ObserversKeepUp
    LimitsAreKept
    StreamIsFaithful

    
CHECK_DEADLOCK FALSE
