SPECIFICATION FairSpec
CONSTANTS
    Clients = {c1, c2}
    Requests = {r1}
    Aux = {a1, a2}
    Primary = primary
    Nobody = nobody
PROPERTIES
    NobodyHangs
CHECK_DEADLOCK FALSE
