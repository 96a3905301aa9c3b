SPECIFICATION TestSpec
CONSTANTS
    Main = Main
    Threads = {a1, a2, a3, Main}
    Acquirers = {a1, a2, a3}
    Capacity = 1
    Garbage = {0, 1, 3}
PROPERTIES AllBlockedBeforeRelease
