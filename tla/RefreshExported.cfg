SPECIFICATION Spec
CONSTANTS
    a = a
    b = b
    Candidates = {a, b}
    MaxOps = 2
    MaxTok = 4
    MaxFaults = 2
    MaxActs = 1
PROPERTY ExportedIsReadOnly
CHECK_DEADLOCK FALSE
