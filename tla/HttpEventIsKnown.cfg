SPECIFICATION Spec
CONSTANTS
    Readers = {r1}
    Writers = {w1}
    MaxConns = 2
    MaxFds = 1
    MaxReadEvents = 20
    Envs <- TwoRequests
    None = None
INVARIANT EventIsKnown
