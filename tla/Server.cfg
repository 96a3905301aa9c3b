SPECIFICATION FairSpec
CONSTANTS
    t1 = t1
    t2 = t2
    Threads = {t1, t2}
    Envs <- AllEnvs
    MaxWords = 1
    Responses = 3
    KeySpace = 7
    NoKey = NoKey
    NoHandler = NoHandler
INVARIANTS HandlersAccounted LeavesDrained
PROPERTIES StopCompletes
