SPECIFICATION LiveSpec
CONSTANTS
    a = a
    b = b
    x = x
    y = y
    None = None
    Accounts = {a, b}
    Candidates = {x, y}
    MaxRev = 5
    MaxFaults = 2
INVARIANTS
    TypeOK
    CatalogueBacked
    PlanCurrent
PROPERTIES
    ClearedIsRemoved
    RemovalCompletes
CHECK_DEADLOCK FALSE
