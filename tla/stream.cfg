\* Two tabs race to subscribe while a sandbox and its project change.
SPECIFICATION StreamSpec
CONSTANTS
    A = A
    B = B
    S = S
    P = P
    Tabs = {A, B}
    Loops = {1, 2}
    TabOf <- BothTabs
    MaxFaults = 1
    Sandboxes = {S}
    Projects = {P}
    ProjectOf <- TheProject
    Initially = {P}
    MaxChanges = 1
INVARIANTS
    StreamTypeOK
    InOrder
PROPERTIES
    ToldInTheEnd
    UsedHubConnects
CHECK_DEADLOCK FALSE
