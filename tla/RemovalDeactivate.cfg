SPECIFICATION Spec
CONSTANTS
    a = a
    b = b
    x = x
    y = y
    None = None
    Accounts = {a, b}
    Candidates = {x, y}
    MaxRev = 4
    MaxFaults = 0
PROPERTIES
    DeactivateExact
CHECK_DEADLOCK FALSE
