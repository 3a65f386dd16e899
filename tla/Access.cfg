CONSTANTS
    u1 = u1
    u2 = u2
    Users = {u1, u2}
    Owners <- MCOwners
    Requests = {r1, r2, r3}
    Named <- MCNamed
    Secrets = {k1, k2}
    MAX_NUMBER_OF_SECRETS = 1
    Mixes <- MCMixes
    MaxFaults = 1
    None = None
SPECIFICATION Spec
SYMMETRY MCSymmetry
INVARIANTS Rotated LoggedOut SingleUse OnlyOwners AtMostMax
CHECK_DEADLOCK FALSE
