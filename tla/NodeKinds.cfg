SPECIFICATION FairSpec
CONSTANTS
    p1 = p1
    p2 = p2
    None = None
    Names <- MCNames
    Workflows <- MCWorkflows
    Carried <- MCCarried
    Parts = {p1, p2}
    MaxReruns = 1
    StatusTries = 3
    PollTries = 2
    MaxFaults = 3
INVARIANTS
    EffectsOnce
    Decides
    Funded
PROPERTY
    FundedIsAnswered
CHECK_DEADLOCK FALSE
