SPECIFICATION Spec
CONSTANTS
    Workers = {w1, w2, w3}
    Requests = {r1}
    None = None
    CrashLimit = 1
    MaxGen = 4
    Upgrades = TRUE
    Faults = {"launch", "boot", "activate", "late", "commit", "save", "resume"}
INVARIANTS TypeOK OneOwner RetryNotSwallowed RescueDrained
PROPERTIES HandoffIsQuiet
