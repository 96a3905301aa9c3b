SPECIFICATION MCSpec
CONSTANTS
    Main = Main
    Threads = {a1, a2, r1, r2, Main}
    Acquirers = {a1, a2}
    Releasers = {r1, r2}
    Callers = {a1, a2, r1}
    Capacity = 2
INVARIANTS EnoughHelpers HeldWithinCapacity
PROPERTIES ImplementsSemaphore MakesProgress TestJoins
CHECK_DEADLOCK FALSE
