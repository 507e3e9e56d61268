-------------------------- MODULE AtMostOnceEffect --------------------------
(***************************************************************************)
(* What CQ promises of an external effect that must not be repeated, as    *)
(* the comment on Rotation in internal/credentials/rotation.go puts it: "A *)
(* durable attempt without a durable result must be recovered as           *)
(* indeterminate, never dispatched again".  An effect is performed at most *)
(* once per identity, only after its intent is durable, and an outcome is  *)
(* recorded only for an effect that was performed.  An intent or an effect *)
(* whose outcome is never recorded stays as it is for ever.                *)
(***************************************************************************)
EXTENDS Naturals

CONSTANT Ids               \* identities of effects

VARIABLES intent,          \* identities with a durable intent
          effects,         \* how often each effect was performed
          outcome          \* identities with a durable outcome

vars == <<intent, effects, outcome>>

Init ==
    /\ intent = {}
    /\ effects = [i \in Ids |-> 0]
    /\ outcome = {}

RecordIntent(i) ==
    /\ i \notin intent
    /\ intent' = intent \cup {i}
    /\ UNCHANGED <<effects, outcome>>

Perform(i) ==
    /\ i \in intent \ outcome
    /\ effects[i] = 0
    /\ effects' = [effects EXCEPT ![i] = 1]
    /\ UNCHANGED <<intent, outcome>>

RecordOutcome(i) ==
    /\ effects[i] = 1
    /\ i \notin outcome
    /\ outcome' = outcome \cup {i}
    /\ UNCHANGED <<intent, effects>>

Next == \E i \in Ids : RecordIntent(i) \/ Perform(i) \/ RecordOutcome(i)

Spec == Init /\ [][Next]_vars
=============================================================================
