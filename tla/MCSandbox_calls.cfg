SPECIFICATION FairSpec
CONSTANTS
    Calls = {c1, c2, c3}
    Vms = {v1, v2}
    None = None
INVARIANTS
    CloseStopsEverything
    AnsweredProcessesAreDead
PROPERTIES
    EveryCallReturns
    KeepsContract
CHECK_DEADLOCK FALSE
