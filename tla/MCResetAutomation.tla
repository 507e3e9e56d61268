------------------------- MODULE MCResetAutomation -------------------------
(* ResetAutomation with two credits of one account.                        *)
EXTENDS ResetAutomation
CONSTANTS c1, c2, a1, s1, s2, u1
OneAccount == [c \in Credits |-> a1]
\* The first credit expires at the end of the modelled time, the other does not.
FirstExpires == [c \in Credits |-> IF c = c1 THEN MaxNow ELSE Never]

Env(faults, edits, active, until, entries, uses, changes, crashes) ==
    [faults |-> faults, edits |-> edits, active |-> active, until |-> until,
     entries |-> entries, uses |-> uses, changes |-> changes, crashes |-> crashes]

\* A scheduler and a user; an adaptive schedule under every edit; two schedulers,
\* where credits cannot be read or one of them dies.
SafetyEnvironments ==
    {Env({"lost", "save", "journal"}, {"add", "enable", "cancel"}, {s1}, 1, 1, 2, 3, 1),
     Env({"read", "forecast", "full", "paused", "save"},
         {"accept", "set", "mode", "disable", "remove"}, {s1}, 1, 1, 0, 2, 1),
     Env({"lost", "read"}, {"accept"}, {s1, s2}, 0, 2, 0, 1, 0),
     Env({"lost"}, {"accept"}, {s1, s2}, 0, 2, 0, 1, 1)}

\* Two entries of one schedule and lost answers, nothing else going wrong.
LiveEnvironments == {Env({"lost"}, {"accept"}, {s1}, 1, 2, 0, 1, 0)}

StaleEnvironments == {Env({"lost", "nothing"}, {"accept"}, {s1}, 1, 1, 2, 1, 0)}
TornEnvironments == {Env({}, {"accept"}, {s1}, 1, 1, 0, 1, 1)}
\* Two entries of one credit, full windows and two schedulers.
SkippedEnvironments ==
    {Env({"full", "lost", "nothing"}, {"accept", "add"}, {s1, s2}, 0, 2, 0, 2, 0)}
PlanEnvironments == {Env({}, {"accept"}, {s1}, 1, 1, 0, 1, 0)}
=============================================================================
