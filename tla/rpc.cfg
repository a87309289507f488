SPECIFICATION FairSpec
CONSTANTS
    Conversations = {c1}
    MaxRequests = 3
    Nobody = nobody
    MaxPurges = 1
    MaxEvents = 1
    MaxFaults = 1
INVARIANTS
    RpcTypeOK
    OneTurn
    BusyHasTurn
    AnswersKept
    NumberedInOrder
PROPERTIES
    TurnsAnswered
CHECK_DEADLOCK FALSE
