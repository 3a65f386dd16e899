SPECIFICATION FairRabbitSpec
CONSTANTS
    Messages = {m1, m2}
    MaxFaults = 1
    MaxRequeues = 1
    None = None
INVARIANTS
    NothingLost
    NeverBlocked
PROPERTY ConsumesAgain
CHECK_DEADLOCK FALSE
