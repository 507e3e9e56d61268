SPECIFICATION LiveSpec
CONSTANTS
    Workers = {w1, w2, w3}
    Requests = {r1}
    None = None
    CrashLimit = 3
    MaxGen = 0
    Upgrades = TRUE
    Faults = {}
PROPERTIES IngressReopens
