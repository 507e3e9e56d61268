SPECIFICATION LiveSpec
CONSTANTS
    a = a
    b = b
    x = x
    y = y
    None = None
    Accounts = {a}
    Candidates = {x, y}
    MaxRev = 3
    MaxFaults = 0
PROPERTIES
    RemovalRecoverable
CHECK_DEADLOCK FALSE
