SPECIFICATION FairSpec
CONSTANTS
    PoolSize = 2
    Envs <- AllEnvs
    MaxReplies = 1
    KeySpace = 5
    NoKey = NoKey
    NoHandler = NoHandler
INVARIANTS CallAlive OneWriteAtATime
PROPERTIES ClientEnds
CHECK_DEADLOCK FALSE
