\* Can a dead-lettered event be one that was delivered?
SPECIFICATION Spec
CONSTANTS
    k1 = k1
    w1 = w1
    w2 = w2
    o1 = o1
    nobody = nobody
    Keys = {k1}
    Workers = {w1, w2}
    Operators = {o1}
    Nobody = nobody
    MaxAttempts = 1
    MaxCrashes = 0
    MaxExpiries = 1
    MaxReplays = 0
INVARIANTS
    DeadLettersAwaitReplay
CHECK_DEADLOCK FALSE
