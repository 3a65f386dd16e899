SPECIFICATION FairListSpec
CONSTANTS
    Unset = Unset
    Keys = {1, 2, 3, 4, 5}
    Codes <- MCCodes
    OwnerOf <- MCOwnerOf
    Limit = 2
    MaxChanges = 2
INVARIANT
    SeenOnce
PROPERTY
    Ends
CHECK_DEADLOCK FALSE
