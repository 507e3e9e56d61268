SPECIFICATION LiveSpec
CONSTANTS
    Pids = {p1, p2, p3, p4, p5}
    NoPid = NoPid
    First = First
    Second = Second
    Environments <- AllEnvironments
INVARIANTS TypeOK SoleOwner ServesSelected ListenerRetained
PROPERTIES HandoffsEnd
CHECK_DEADLOCK FALSE
