---------------------------- MODULE LaneRequest ----------------------------
(***************************************************************************)
(* What the turn lease promises of a lane (one client session and thread), *)
(* whoever serves it: docs/architecture.md 98-100 and the comments on the  *)
(* handle's calls in internal/proxy/codex_lease_v2_runtime.go (262-267,    *)
(* 1038, 1302-1307).  A lane has one request at a time.  The request is    *)
(* sent again only when the provider has refused it.  It ends with a       *)
(* verdict on record, which is doubt while the provider may be at work on  *)
(* it, and lets go of the lane no earlier.  A request may also stay for    *)
(* ever: its user may never come to an end.                                *)
(***************************************************************************)
CONSTANTS Users,           \* who may have the lane's request
          None             \* none of them

VARIABLES user,            \* who has the lane, until the request lets go of it
          call,            \* what the provider made of the last send
          verdict          \* what the journal says of the request

vars == <<user, call, verdict>>

Calls == {"none", "open", "refused", "answered"}
Verdicts == {"none", "settled", "doubt"}

Init == user = None /\ call = "none" /\ verdict = "none"

\* The request before has let go: another begins.
Begin(u) ==
    /\ user = None
    /\ user' = u /\ call' = "none" /\ verdict' = "none"

\* An attempt that was not sent before is sent.
Send ==
    /\ user # None /\ verdict = "none" /\ call = "none"
    /\ call' = "open"
    /\ UNCHANGED <<user, verdict>>

\* The provider decides, perhaps when nobody waits any more.
Decide ==
    /\ call = "open"
    /\ call' \in {"refused", "answered"}
    /\ UNCHANGED <<user, verdict>>

\* The next credential or account, after a refusal.
Retry ==
    /\ user # None /\ verdict = "none" /\ call = "refused"
    /\ call' = "none"
    /\ UNCHANGED <<user, verdict>>

\* The end of the request is recorded, with the answer as it may come in; the
\* request lets go of the lane with it or later.
Conclude ==
    /\ user # None /\ verdict = "none"
    /\ call' = call \/ (call = "open" /\ call' \in {"refused", "answered"})
    /\ verdict' \in (IF call' = "open" THEN {"doubt"} ELSE {"doubt", "settled"})
    /\ user' \in {user, None}

Release ==
    /\ user # None /\ verdict # "none"
    /\ user' = None
    /\ UNCHANGED <<call, verdict>>

\* What is on record of a request that has ended goes with a new turn, or with time.
Forget ==
    /\ user = None
    /\ call' = "none" /\ verdict' = "none"
    /\ UNCHANGED user

Next ==
    \/ \E u \in Users : Begin(u)
    \/ Send \/ Decide \/ Retry \/ Conclude \/ Release \/ Forget

Spec == Init /\ [][Next]_vars
=============================================================================
