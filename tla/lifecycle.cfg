SPECIFICATION FairSpec
CONSTANTS
    s1 = s1
    Names <- MCNames
    MaxInc = 2
    MaxChanges = 2
    MaxFaults = 1
INVARIANTS
    LifecycleTypeOK
    RunningOnWorktree
PROPERTIES
    WorktreeKept
    ComesUp
    DeletionsEnd
CHECK_DEADLOCK FALSE
