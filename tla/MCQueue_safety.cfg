CONSTANTS
    m1 = m1
    m2 = m2
    m3 = m3
    Messages = {m1}
    FanOut <- TwoSubscribers
    Malformed = {}
    Workers = {w1, w2}
    Batch = 2
    MaxAttempts = 2
    Backoff = 1
    Lease = 2
    Poll = 2
    Retain = 1
    HandlerTicks = 1
    Overdue = 1
    MaxFaults = 1
    Width = 8
    MaxDelay = 3
SYMMETRY WorkerSymmetry
SPECIFICATION Spec
INVARIANTS
    TypeOK
    LeaseIsExclusive
    AttemptsCountFaults
    OneEffectPerFault
    NoLostWakeup
 
