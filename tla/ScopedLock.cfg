\* Two processes; the pid of a is given to another when it is gone.
SPECIFICATION FairSpec
CONSTANTS
    a = a
    b = b
    c = c
    NoPid = NoPid
    Procs <- Two
    Reused = {a}
    TTL = 2
INVARIANTS HolderNamed
PROPERTIES Reclaimed ImplementsMutex
CHECK_DEADLOCK FALSE
