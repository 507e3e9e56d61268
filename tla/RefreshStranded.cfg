SPECIFICATION LiveSpec
CONSTANTS
    a = a
    Candidates = {a}
    MaxOps = 1
    MaxTok = 2
    MaxFaults = 1
    MaxActs = 0
PROPERTIES
    PersistenceRetryable
CHECK_DEADLOCK FALSE
