SPECIFICATION FairSpec
CONSTANTS
    t1 = t1
    t2 = t2
    a1 = a1
    c1 = c1
    c2 = c2
    None = None
    Turns = {t1, t2}
    Accounts = {a1}
    Callers = {c1, c2}
    Plans <- SinglePlans
    Limits <- QuietLimits
PROPERTIES EveryCallerProceeds
CHECK_DEADLOCK FALSE
