SPECIFICATION FairSpec
CONSTANTS
    u1 = u1
    u2 = u2
    stranger = stranger
    None = None
    h1 = h1
    h2 = h2
    Addresses = {u1, u2, stranger}
    Users = {u1, u2}
    Payments = {1, 2, 3}
    Log <- MCLog
    Handlers = {h1, h2}
    DefaultStart = 1
    BLOCK_BATCH_SIZE = 1
    CREDITS_PER_USDC = 1000
    Confirmation = 1
    MaxBalance = 3
    MaxTip = 3
    MaxFaults = 2
INVARIANTS
    NothingSkipped
    CreditedOnce
PROPERTIES
    EventuallyCredited
CHECK_DEADLOCK FALSE
