SPECIFICATION Spec
CONSTANTS
    HeapTop = 5
    NodeEnter = 2
    NodeExit = 3
    CotEnter = 4
    CotExit = 5
INVARIANTS
    DatapathIsComplete
    OneRoleOnly
    ServerRuns
    CotGivesWayFirst
PROPERTIES
    NoFlapping
    ComesUp
