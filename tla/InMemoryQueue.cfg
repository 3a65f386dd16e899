SPECIFICATION FairSpec
CONSTANTS
    None = None
    m1 = m1
    m2 = m2
    m3 = m3
    Messages = {m1, m2, m3}
    MaxConsumers = 2
INVARIANTS
    OneCopy
PROPERTIES
    Delivered
    ImplementsDelivery
CHECK_DEADLOCK FALSE
