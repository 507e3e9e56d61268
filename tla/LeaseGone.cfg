SPECIFICATION FairSpec
CONSTANTS
    t1 = t1
    a1 = a1
    c1 = c1
    c2 = c2
    None = None
    Turns = {t1}
    Accounts = {a1}
    Callers = {c1, c2}
    Plans <- SinglePlans
    Limits <- GoneLimits
PROPERTIES EveryCallerProceeds
CHECK_DEADLOCK FALSE
