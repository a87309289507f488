SPECIFICATION Spec
CONSTANTS
    r1a = r1a
    r1b = r1b
    d1 = d1
    JobIds <- MCJobIds
    CallbackIds <- MCNoCallbackIds
    Prefixes <- MCPrefixes
    Deleters <- MCDeleters
    MaxRunning = 1
    MaxKept = 1
    MaxSeq = 3
INVARIANTS
    TypeOK
    TasksMatchRecords
    LeadersAccounted
    NoOrphanLog
PROPERTIES
    ImplementsContract
