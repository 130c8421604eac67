SPECIFICATION LiveSpec
CONSTANTS
    Threads = {t1, t2}
    NoOne = NoOne
    Cursors = {"sign"}
    MaxHandles = 2
    MaxEpoch = 2
    MaxLogins = 2
    MaxSnaps = 2
    MaxLibs = 1
INVARIANTS
    CallsKeepTheirGround
    
PROPERTIES
    AnswerEndsNoLaterLogin
    EveryCallReturns
CHECK_DEADLOCK FALSE
