SPECIFICATION FairGateSpec
CONSTANTS
    main = main
    g1 = g1
    Bases <- MCBases
    InitialBase = {}
    Gates <- MCGates
    GateBases <- MCNoBase
    MaxEdits = 2
    MaxRefreshes = 1
    MaxFailures = 0
    Reverts = FALSE
    Untracked = TRUE
    Commits = FALSE
    Silently = FALSE
INVARIANTS
    GateTypeOK
    GateSeesNotifiedEdits
PROPERTIES
    GateAnswered
