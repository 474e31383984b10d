SPECIFICATION FairSpec
CONSTANTS
    Calls = {c1, c2}
    Threads = {t1, t2}
    Amounts = {1}
    Start = 1
    Lifetime = 2
    BatchUpdateEnabled = TRUE
    MaxOps = 2
    MaxFaults = 1
INVARIANTS
    TypeOK
    Conserved
    CacheAgrees
PROPERTIES
    EventuallyWritten
    CacheRepaired
