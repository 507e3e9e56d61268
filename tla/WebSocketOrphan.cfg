SPECIFICATION Spec
CONSTANTS
    b1 = b1
    b2 = b2
    a1 = a1
    a2 = a2
    None = None
    Brokers = {b1, b2}
    Accounts = {a1, a2}
    Environments <- OrphanEnvironments
INVARIANT RequestReleased
CHECK_DEADLOCK FALSE
