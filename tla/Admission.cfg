SPECIFICATION FairSpec
CONSTANTS
    b = b
    s = s
    k = k
    l = l
    w1 = w1
    w2 = w2
    c1 = c1
    c2 = c2
    d1 = d1
    d2 = d2
    d3 = d3
    None = None
    Batches = {b, s}
    Crons = {k}
    Loads = {l}
    Size <- MCSize
    Limit = 2
    Deletions = {d1, d2, d3}
    Target <- MCTarget
    Startable <- MCStartable
    Long <- MCLong
    Clients = {c1, c2}
    Workers = {w1, w2}
    MaxRequests = 1
    MaxInitiations = 2
    MaxFaults = 1
INVARIANTS
    RowsBeforeMessage
    NoOrphans
    OneMessage
PROPERTIES
    CronGoesOn
CHECK_DEADLOCK FALSE
