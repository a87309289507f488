SPECIFICATION FairSpec
CONSTANTS
    r1a = r1a
    r1b = r1b
    d1 = d1
    JobIds <- MCJobIds
    CallbackIds <- MCCallbackIds
    Prefixes <- MCPrefixes
    Deleters <- MCDeleters
    MaxRunning = 2
    MaxKept = 1
    MaxSeq = 2
INVARIANTS
    KillArmed
    ResolvedTruthfully
PROPERTIES
    DoomedJobEnds
