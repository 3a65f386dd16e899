SPECIFICATION Spec
CONSTANTS
    w1 = w1
    w2 = w2
    c1 = c1
    c2 = c2
    None = None
    Workers = {w1, w2}
    Clients = {c1, c2}
    Nodes = {1, 2}
    Entry = 1
    Outgoing <- MCOutgoing
    Fallible = {2}
    AwaitsInput = {}
    Linked = 2
    MaxTrace = 4
    InitialCredits = {2, 4}
    Balances = {2, 4}
    MaxInitiations = 2
    MaxAnswers = 1
    MaxCrashes = 0
    MaxElsewhere = 0
INVARIANTS
    LockExcludes
CHECK_DEADLOCK FALSE
