\* Two workers and an operator on one event: crashes, expired leases, replays.
SPECIFICATION FairSpec
CONSTANTS
    k1 = k1
    w1 = w1
    w2 = w2
    o1 = o1
    nobody = nobody
    Keys = {k1}
    Workers = {w1, w2}
    Operators = {o1}
    Nobody = nobody
    MaxAttempts = 2
    MaxCrashes = 1
    MaxExpiries = 2
    MaxReplays = 1
INVARIANTS
    DeliveredWasApplied
    DeadLettersAreRecorded
PROPERTIES
    DeliveredIsFinal
    EventuallySettled
CHECK_DEADLOCK FALSE
