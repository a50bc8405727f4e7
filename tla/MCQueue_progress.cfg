CONSTANTS
    m1 = m1
    m2 = m2
    m3 = m3
    Messages = {m1, m2, m3}
    FanOut <- OneOfEach
    Malformed = {m3}
    Workers = {w1, w2}
    Batch = 1
    MaxAttempts = 2
    Backoff = 1
    Lease = 1
    Poll = 1
    Retain = 0
    HandlerTicks = 1
    Overdue = 0
    MaxFaults = 1
    Width = 8
    MaxDelay = 1
SPECIFICATION FairSpec
PROPERTIES
    EveryRowIsSettled
    ImplementsAtLeastOnce
