SPECIFICATION Spec
CONSTANTS
    a = a
    b = b
    x = x
    y = y
    None = None
    Accounts = {a, b}
    Candidates = {x, y}
    MaxRev = 4
    MaxFaults = 0
PROPERTIES
    UnrelatedSystemKept
CHECK_DEADLOCK FALSE
