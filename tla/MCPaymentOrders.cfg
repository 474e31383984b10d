SPECIFICATION FairSpec
CONSTANTS
    Orders = {o1}
    Codes = {c1}
    Users = {u1, u2}
    Nodes = {n1}
    Handlers = {h1, h2}
    Mutexes = {x1, x2}
    None = none
    Kinds = {"epay", "stripe", "creem", "waffo", "pancake"}
    MaxFaults = 1
INVARIANTS
    TypeOK
    CreditedOnce
    OrderMutex
    CreditedStaysSuccess
PROPERTY
    PaidIsCredited
