SPECIFICATION FairSpec
CONSTANTS
    c1 = c1
    c2 = c2
    Clients = {c1, c2}
    Fds = {1, 2}
    BufSize = 2
    SndBuf = 1
    MaxEvents = 3
    Envs <- AllEnvs
    None = None
INVARIANTS EchoExact NoLostEdge DescriptorsAgree
PROPERTIES Served ExitsOnSignal
