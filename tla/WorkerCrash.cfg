SPECIFICATION FairSpec
CONSTANTS
    w1 = w1
    w2 = w2
    c1 = c1
    None = None
    Workers = {w1, w2}
    Clients = {c1}
    Nodes = {1, 2}
    Entry = 1
    Outgoing <- MCOutgoing
    Fallible = {2}
    AwaitsInput = {2}
    Linked = 1
    MaxTrace = 3
    InitialCredits = {2}
    Balances = {0}
    MaxInitiations = 2
    MaxAnswers = 1
    MaxCrashes = 1
    MaxElsewhere = 1
INVARIANTS
    TypeOK
    Exclusive
    ExactlyOnce
    FinishedMeansAll
    NotBlind
    NoStranded
PROPERTIES
    Settles
CHECK_DEADLOCK FALSE
