SPECIFICATION Spec
CONSTANTS
    t1 = t1
    a1 = a1
    a2 = a2
    c1 = c1
    None = None
    Turns = {t1}
    Accounts = {a1, a2}
    Callers = {c1}
    Plans <- FailoverPlans
    Limits <- UnpinnedLimits
SYMMETRY Symmetry
INVARIANTS DoubtPins
CHECK_DEADLOCK FALSE
