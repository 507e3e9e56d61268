---------------------------- MODULE MCTurnLease ----------------------------
EXTENDS TurnLease, TLC

Single(a) == [slots |-> <<a>>, ordinary |-> 1, probe |-> FALSE]
Retry(a) == [slots |-> <<a, a>>, ordinary |-> 2, probe |-> FALSE]
Fallback(a, b) == [slots |-> <<a, b>>, ordinary |-> 1, probe |-> FALSE]
Ordinary(a, b) == [slots |-> <<a, b>>, ordinary |-> 2, probe |-> FALSE]
Probe(a) == [slots |-> <<a>>, ordinary |-> 1, probe |-> TRUE]

Pairs == {<<a, b>> \in Accounts \X Accounts : a # b}
SinglePlans == {Single(a) : a \in Accounts} \cup {Retry(a) : a \in Accounts}
AllPlans ==
    SinglePlans \cup {Probe(a) : a \in Accounts}
    \cup {Fallback(p[1], p[2]) : p \in Pairs} \cup {Ordinary(p[1], p[2]) : p \in Pairs}
FallbackPlans == {Fallback(p[1], p[2]) : p \in Pairs}
FailoverPlans == {Single(a) : a \in Accounts} \cup FallbackPlans
ProbePlans == FailoverPlans \cup {Probe(a) : a \in Accounts}

Limit(callers, turns, plans, requests, cancels, removals, restarts, sweeps) ==
    [callers |-> callers, turns |-> turns, plans |-> plans, requests |-> requests,
     cancels |-> cancels, removals |-> removals, restarts |-> restarts,
     sweeps |-> sweeps]
OneOf(S) == {CHOOSE x \in S : TRUE}

\* Two turns and two callers that fail over, with a restart and a sweep, and with a
\* client that goes away; three requests of one turn, one after another, with probes
\* or with a restart between them; two requests over every kind of plan, with a
\* client that goes away, an account that is removed and a restart.
SafetyLimits ==
    {Limit(Callers, Turns, FailoverPlans, 2, 0, 0, 1, 1),
     Limit(Callers, Turns, FallbackPlans, 2, 1, 0, 0, 0),
     Limit(OneOf(Callers), OneOf(Turns), ProbePlans, 3, 0, 0, 0, 0),
     Limit(OneOf(Callers), OneOf(Turns), FallbackPlans, 3, 0, 0, 1, 0),
     Limit(OneOf(Callers), OneOf(Turns), AllPlans, 2, 1, 1, 1, 0)}
\* Nobody goes away and nothing fails over.
QuietLimits == {Limit(Callers, Turns, SinglePlans, 2, 0, 0, 1, 1)}
\* A client goes away; a request fails over; a turn is asked for three times.
GoneLimits == {Limit(Callers, Turns, SinglePlans, 2, 1, 0, 0, 0)}
InDoubtLimits == {Limit(Callers, Turns, FailoverPlans, 2, 0, 0, 0, 0)}
UnpinnedLimits == {Limit(Callers, Turns, FailoverPlans, 3, 0, 0, 0, 0)}

Symmetry == Permutations(Turns) \cup Permutations(Accounts) \cup Permutations(Callers)
=============================================================================
