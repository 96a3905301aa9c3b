SPECIFICATION FairSpec
CONSTANTS
    c1 = c1
    c2 = c2
    w1 = w1
    w2 = w2
    Clients = {c1, c2}
    Workers = {w1, w2}
    BufferSize = 2
    IdSpace = 4
    Envs <- AllEnvs
    None = None
INVARIANTS EchoExact OverlappedValid OneDriver
PROPERTIES Served StopCompletes
CHECK_DEADLOCK FALSE
