\* One tab whose last view is unmounted and a view mounted again.
SPECIFICATION StreamSpec
CONSTANTS
    A = A
    B = B
    S = S
    P = P
    Tabs = {A}
    Loops = {1, 2}
    TabOf <- OneTab
    MaxFaults = 0
    Sandboxes = {S}
    Projects = {P}
    ProjectOf <- TheProject
    Initially = {}
    MaxChanges = 0
INVARIANTS
    OneSocket
CHECK_DEADLOCK FALSE
