SPECIFICATION Spec
CONSTANTS
    t1 = t1
    t2 = t2
    a1 = a1
    a2 = a2
    c1 = c1
    c2 = c2
    None = None
    Turns = {t1, t2}
    Accounts = {a1, a2}
    Callers = {c1, c2}
    Plans <- AllPlans
    Limits <- SafetyLimits
SYMMETRY Symmetry
INVARIANTS TypeOK OneLiveRequest AcceptedOnce SentIsRemembered TokenStaysHome
CHECK_DEADLOCK FALSE
