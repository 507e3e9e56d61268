SPECIFICATION LiveSpec
CONSTANTS
    a = a
    Candidates = {a}
    MaxOps = 2
    MaxTok = 4
    MaxFaults = 3
    MaxActs = 1
PROPERTIES
    RetainedSettles
CHECK_DEADLOCK FALSE
