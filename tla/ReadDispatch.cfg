SPECIFICATION FairSpec
CONSTANTS
    Conns = {c1, c2}
    NoConn = NoConn
    Workers = {w1, w2}
    MaxReadable = 2
INVARIANTS ReaderExclusion NoStrandedEvent NoLostWakeup
PROPERTIES EventServed WorkersExit
