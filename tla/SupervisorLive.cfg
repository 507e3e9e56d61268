SPECIFICATION LiveSpec
CONSTANTS
    Workers = {w1, w2, w3}
    Requests = {r1}
    None = None
    CrashLimit = 1
    MaxGen = 2
    Upgrades = TRUE
    Faults = {"late"}
PROPERTIES DrainsEnd KeepsServing
