SPECIFICATION Spec
CONSTANTS
    u1 = u1
    u2 = u2
    stranger = stranger
    None = None
    h1 = h1
    Addresses = {u1, u2, stranger}
    Users = {u1}
    Payments = {1}
    Log <- MCSepoliaLog
    Handlers = {h1}
    DefaultStart = 1
    BLOCK_BATCH_SIZE = 1
    CREDITS_PER_USDC = 1000
    Confirmation = 1
    MaxBalance = 9
    MaxTip = 2
    MaxFaults = 1
INVARIANTS
    DuplicatesRefused
CHECK_DEADLOCK FALSE
