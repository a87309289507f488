SPECIFICATION FairSpec
CONSTANTS
    s1 = s1
    Names <- MCNames
    MaxInc = 1
    MaxChanges = 1
    MaxFaults = 0
PROPERTIES
    OwnerGoes
CHECK_DEADLOCK FALSE
