CONSTANTS
    m1 = m1
    m2 = m2
    m3 = m3
    Messages = {m1}
    FanOut <- OneSubscriber
    Malformed = {}
    Workers = {w1, w2}
    Batch = 1
    MaxAttempts = 1
    Backoff = 1
    Lease = 2
    Poll = 2
    Retain = 1
    HandlerTicks = 1
    Overdue = 0
    MaxFaults = 1
    Width = 8
    MaxDelay = 3
SPECIFICATION Spec
INVARIANT AttemptsWithinLimit
