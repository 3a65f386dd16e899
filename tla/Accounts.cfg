SPECIFICATION Spec
CONSTANTS
    u1 = u1
    u2 = u2
    i1 = i1
    s1 = s1
    s2 = s2
    r1 = r1
    r2 = r2
    r3 = r3
    None = None
    Users = {u1, u2}
    Images = {i1}
    Servers = {s1, s2}
    Requests = {r1, r2, r3}
    Delta <- MCDelta
    Initial <- MCInitial
    MaxFaults = 1
SYMMETRY MCSymmetry
INVARIANTS
    BalanceIsHistory
    PaidFor
    CountIsRows
CHECK_DEADLOCK FALSE
