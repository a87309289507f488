SPECIFICATION FairSpec
CONSTANTS
    main = main
    Bases <- MCBases
    InitialBase = {main}
    MaxEdits = 2
    MaxRefreshes = 1
    MaxFailures = 1
    Reverts = FALSE
    Untracked = TRUE
    Commits = TRUE
    Silently = TRUE
INVARIANTS
    TypeOK
    PhaseHonest
    FreshIsTrue
PROPERTIES
    SettlesOnTruth
