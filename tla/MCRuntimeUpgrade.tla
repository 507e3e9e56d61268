-------------------------- MODULE MCRuntimeUpgrade --------------------------
EXTENDS RuntimeUpgrade
\* Anything at any place; what the guard is there for; that without late releases.
AnyEnvironment ==
    [faults |-> FaultKinds, places |-> Places, crashes |-> 3, upgrades |-> 2]
GuardedEnvironment ==
    [faults |-> {"boot", "exec", "late"}, places |-> GuardedPlaces, crashes |-> 3,
     upgrades |-> 2]
ProvenEnvironment == [GuardedEnvironment EXCEPT !.faults = {"boot", "exec"}]
AllEnvironments == {AnyEnvironment, GuardedEnvironment, ProvenEnvironment}
=============================================================================
