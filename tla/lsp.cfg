SPECIFICATION FairSpec
CONSTANTS
    Clients = {c1, c2}
    Requests = {r1, r2}
    Aux = {a1}
    Primary = primary
    Nobody = nobody
INVARIANTS
    LspTypeOK
    BarrierFed
    OneWholeAnswer
    NoResidue
PROPERTIES
    NeverStranded
CHECK_DEADLOCK FALSE
