SPECIFICATION Spec
CONSTANTS
    a = a
    b = b
    Candidates = {a, b}
    MaxOps = 2
    MaxTok = 4
    MaxFaults = 2
    MaxActs = 2
SYMMETRY CandidateSymmetry
INVARIANTS
    TypeOK
    ExchangeAtMostOnce
    ChainOrder
    OutcomeNotDropped
PROPERTIES
    NoReplay
    ImplementsAtMostOnce
CHECK_DEADLOCK FALSE
