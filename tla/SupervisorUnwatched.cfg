SPECIFICATION Spec
CONSTANTS
    Workers = {w1, w2, w3}
    Requests = {r1}
    None = None
    CrashLimit = 3
    MaxGen = 3
    Upgrades = FALSE
    Faults = {"commit"}
INVARIANTS GoneWorkerIsWatched
