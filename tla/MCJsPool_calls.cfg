CONSTANTS
    Calls = {c1, c2, c3}
    Workers = {w1, w2}
    QueueLimit = 1
    MaxDeaths = 1
CHECK_DEADLOCK FALSE
SPECIFICATION FairSpec
INVARIANTS
    TypeOK
    WatchdogStands
    OneKillPerOverstay
PROPERTY EveryCallIsAnswered
