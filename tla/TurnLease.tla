------------------------------ MODULE TurnLease ------------------------------
(***************************************************************************)
(* The durable lease of a Codex turn and the HTTP session that drives it:  *)
(*   internal/proxy/codex_lease_v2.go  codex_lease_v2_cas.go               *)
(*   .../codex_lease_v2_runtime.go     codex_lease_v2_lane.go              *)
(*   .../codex_lease_v2_retention.go   codex_turn_lease.go                 *)
(*   .../codex_http_request_session.go codex_http_response_observer.go     *)
(*                                                                         *)
(* A lane (one client session and thread) has at most one current turn.    *)
(* Each client request of a turn takes the lane's planning gate, waits for *)
(* the previous request to drain, begins a request in the journal, and     *)
(* then moves one attempt at a time over the slots of a frozen plan.       *)
(* Every change of a record is one journal commit, fenced by the record    *)
(* generation the caller saw last: here, by which caller committed last.   *)
(* The journal survives a restart, the callers and the gate do not, and a  *)
(* request already on the wire may still be accepted by the provider.      *)
(***************************************************************************)
EXTENDS Naturals, Sequences, FiniteSets, FiniteSetsExt

CONSTANTS Turns, Accounts, Callers,
          Plans,           \* plans the planner may freeze
          None,            \* no turn, account, caller or token
          Limits           \* bounds on the events, one of which a run keeps to

\* A plan: slots in the order they may be tried, each a credential of an
\* account, of which only the account matters here (an account has as many
\* slots in a row as it has credentials), how many of them are ordinary, and
\* whether the plan probes an exhausted account.
ASSUME PlanAssumption ==
    /\ \A p \in Plans :
         /\ p.slots \in Seq(Accounts) /\ p.slots # <<>>
         /\ p.ordinary \in 1..Len(p.slots)
         /\ p.probe \in BOOLEAN
    /\ None \notin Turns \cup Accounts \cup Callers
    \* Who calls about which turns with which plans, and how many requests,
    \* clients gone, accounts removed, restarts and sweeps there are.
    /\ Limits \subseteq [callers : SUBSET Callers, turns : SUBSET Turns,
                       plans : SUBSET Plans, requests : Nat, cancels : Nat,
                       removals : Nat, restarts : Nat, sweeps : Nat]

VARIABLES
    lane,       \* the lane row: current and last turn, excluded accounts
    rec,        \* the journal record of each turn
    holder,     \* whose commit a record's generation stems from
    gate,       \* the caller that holds the lane's planning gate
    caller,     \* the callers: where each stands, and its request
    calls,      \* requests that reached a provider, and their fate
    held,       \* the turn state the client latched for each turn
    doubt,      \* account where a request of the turn ended in doubt
    removed,    \* accounts that no longer revalidate
    count       \* events so far, and the limit on them

durable == <<lane, rec>>
vars == <<lane, rec, holder, gate, caller, calls, held, doubt, removed, count>>

LeaseStates ==
    {"none", "reserving", "provisional", "bound_active", "continuation_pending",
     "bound_quiescent", "orphaned", "superseded", "expired", "failed_unadmitted"}
AttemptStates ==
    {"none", "prepared", "dispatched", "streaming", "provider_completed",
     "provider_failed", "indeterminate", "abandoned", "unavailable"}
Refs == {"routing", "attempt", "observer"}
Locations ==
    {"idle", "queued", "planning", "reserved", "prepared", "marked", "sent",
     "streaming", "lost", "cycle", "drain"}

\* A turn-state token: who issued it, and to which request.
Tokens == [by : Accounts, n : Nat \ {0}] \cup {None}

NoPlan == [slots |-> <<>>, ordinary |-> 0, probe |-> FALSE]
NoRecord ==
    [state |-> "none", account |-> None, id |-> 0, plan |-> NoPlan, slot |-> 0,
     attempt |-> "none", refs |-> {}, turnState |-> None, prevTurnState |-> None,
     nonMigratable |-> FALSE, everAdmitted |-> FALSE, pred |-> None]
NoLane == [current |-> None, last |-> None, unavailable |-> {}, exhausted |-> {}]
Idle == [at |-> "idle", turn |-> None, id |-> 0, token |-> None,
         cancelled |-> FALSE, relatch |-> FALSE, plan |-> NoPlan]

TypeOK ==
    /\ lane \in [current : Turns \cup {None}, last : Turns \cup {None},
                 unavailable : SUBSET Accounts, exhausted : SUBSET Accounts]
    /\ rec \in [Turns ->
         [state : LeaseStates, account : Accounts \cup {None}, id : Nat,
          plan : Plans \cup {NoPlan}, slot : Nat,
          attempt : AttemptStates, refs : SUBSET Refs,
          turnState : Tokens, prevTurnState : Tokens, nonMigratable : BOOLEAN,
          everAdmitted : BOOLEAN, pred : Turns \cup {None}]]
    /\ holder \in [Turns -> Callers \cup {None}]
    /\ gate \in Callers \cup {None}
    /\ caller \in [Callers ->
         [at : Locations, turn : Turns \cup {None}, id : Nat,
          token : Tokens, cancelled : BOOLEAN, relatch : BOOLEAN,
          plan : Plans \cup {NoPlan}]]
    /\ \A k \in calls :
         k \in [id : Nat \ {0}, turn : Turns, slot : Nat, account : Accounts,
                token : Tokens, fate : {"open", "accepted", "rejected"}]
    /\ held \in [Turns -> Tokens]
    /\ doubt \in [Turns -> Accounts \cup {None}]
    /\ removed \subseteq Accounts
    /\ count \in [requests : Nat, cancels : Nat, restarts : Nat, sweeps : Nat,
                  limit : Limits]

Init ==
    /\ lane = NoLane
    /\ rec = [t \in Turns |-> NoRecord]
    /\ holder = [t \in Turns |-> None]
    /\ gate = None
    /\ caller = [c \in Callers |-> Idle]
    /\ calls = {}
    /\ held = [t \in Turns |-> None]
    /\ doubt = [t \in Turns |-> None]
    /\ removed = {}
    /\ \E limit \in Limits :
         count = [requests |-> 0, cancels |-> 0, restarts |-> 0, sweeps |-> 0,
                  limit |-> limit]

-----------------------------------------------------------------------------
(* What a record allows.                                                   *)

AttemptAccount(r) == r.plan.slots[r.slot]
AttemptElsewhere(r) == r.slot # 0 /\ AttemptAccount(r) # r.account
TerminalForRequest(s) ==
    s \in {"provider_completed", "provider_failed", "indeterminate",
           "unavailable", "abandoned"}

\* SocketLineageExtinct: set with the last reference, unset while reserving.
Extinct(r) == r.refs = {} /\ r.state # "reserving"
Drained(r) == r.refs = {}

RestartableFailedHead(r) ==
    /\ r.id # 0 /\ r.state = "failed_unadmitted" /\ ~r.everAdmitted /\ Extinct(r)
    /\ r.attempt \in {"provider_failed", "unavailable"}

AbandonedUnadmittedHead(r) ==
    /\ r.id # 0 /\ r.state = "provisional" /\ ~r.everAdmitted /\ Extinct(r)
    /\ r.attempt = "abandoned"

\* Mutant: a request may begin while the response observer is still live.
CanBeginUndrained(r) ==
    IF r.id = 0 THEN r.state = "reserving"
    ELSE /\ TerminalForRequest(r.attempt)
         /\ \/ r.state \in {"continuation_pending", "bound_quiescent", "orphaned"}
            \/ AbandonedUnadmittedHead(r) \/ RestartableFailedHead(r)

\* codexLeaseRuntimeCanBeginRequest
CanBegin(r) ==
    IF r.id = 0 THEN r.state = "reserving"
    ELSE /\ ~(r.state = "orphaned" /\ r.attempt = "indeterminate" /\ AttemptElsewhere(r))
         /\ Drained(r) /\ TerminalForRequest(r.attempt)
         /\ \/ r.state \in {"continuation_pending", "bound_quiescent", "orphaned"}
            \/ AbandonedUnadmittedHead(r) \/ RestartableFailedHead(r)

\* codexLeaseAccountUnavailableCanBeginRequest
UnavailableCanBegin(r) ==
    /\ \/ r.attempt = "unavailable"
       \/ /\ r.everAdmitted /\ r.state = "orphaned" /\ r.attempt = "abandoned"
          /\ ~r.nonMigratable /\ AttemptElsewhere(r)
    /\ Extinct(r)
    /\ IF r.everAdmitted THEN r.state \in {"bound_quiescent", "orphaned"}
                         ELSE RestartableFailedHead(r)

\* codexLeaseRecordRequiresAccount
RequiresAccount(r) ==
    \/ r.turnState # None
    \/ /\ r.nonMigratable
       /\ \/ ~Extinct(r)
          \/ r.attempt \notin {"provider_completed", "provider_failed", "abandoned",
                               "unavailable"}

\* codexLeaseRecordAllowsPortableReset
PortableReset(r) == r.nonMigratable /\ ~RequiresAccount(r)

\* canReserveSuccessor, of a lane whose last turn is not the requested one.
CanReserveSuccessor ==
    LET p == rec[lane.last] IN
    /\ Drained(p)
    /\ IF lane.current = None
       THEN /\ p.state \in {"failed_unadmitted", "superseded", "expired"}
            /\ p.id = 0 \/ TerminalForRequest(p.attempt)
       ELSE /\ \/ p.state \in {"continuation_pending", "bound_quiescent", "orphaned"}
               \/ AbandonedUnadmittedHead(p)
            /\ TerminalForRequest(p.attempt) /\ Extinct(p)

\* codexLeaseRecordRequiresResolvedAccount of a record whose account is gone:
\* every load of the turn fails, unless its account was fixed at an earlier load.
Unresolved(t) ==
    LET r == rec[t] IN
    /\ r.account \in removed
    /\ r.attempt # "unavailable"
    /\ \/ r.state \in {"bound_active", "continuation_pending", "bound_quiescent",
                       "orphaned"}
       \/ /\ r.state = "provisional"
          /\ r.everAdmitted \/ r.nonMigratable \/ r.attempt # "abandoned"

\* loadLane's classification of a requested turn.
Class(t) ==
    IF rec[t].state = "none" THEN "unseen"
    ELSE IF lane.current = t THEN "current" ELSE "historical"

\* requestPlanningAvailable
PlanningAvailable(t) ==
    CASE Class(t) = "current" -> CanBegin(rec[t])
      [] Class(t) = "unseen" -> lane.last # None => CanReserveSuccessor
      [] OTHER -> TRUE

\* codexHTTPRequestNextUnavailableAccount and FirstAccountSlot: the first slot
\* of the next account; a turn that was ever admitted goes straight from the
\* ordinary accounts to the fallbacks.  0 when there is none.
Replacement(r) ==
    LET next == {j \in (r.slot + 1)..Len(r.plan.slots) :
                   /\ r.plan.slots[j] # AttemptAccount(r)
                   /\ r.everAdmitted /\ r.slot <= r.plan.ordinary => j > r.plan.ordinary}
    IN IF next = {} THEN 0 ELSE Min(next)

\* The next credential of the attempt's account, or 0.
NextCredential(r) ==
    IF /\ r.slot < Len(r.plan.slots)
       /\ r.plan.slots[r.slot + 1] = AttemptAccount(r)
    THEN r.slot + 1 ELSE 0

-----------------------------------------------------------------------------
(* The callers.                                                            *)

At(c, l) == caller[c].at = l
Turn(c) == caller[c].turn
Rec(c) == rec[Turn(c)]
Go(c, l) == caller' = [caller EXCEPT ![c].at = l]
Leave(c) == caller' = [caller EXCEPT ![c] = Idle]

\* refreshMutationFence: the turn is current and nobody committed since.
Fenced(c) == lane.current = Turn(c) /\ holder[Turn(c)] = c

\* One commit of the caller's record.
Put(c, r) ==
    /\ rec' = [rec EXCEPT ![Turn(c)] = r]
    /\ holder' = [holder EXCEPT ![Turn(c)] = c]

\* The call of the caller's current attempt.
Call(c, fate) ==
    {k \in calls : k.id = caller[c].id /\ k.slot = Rec(c).slot /\ k.fate = fate}

-----------------------------------------------------------------------------
(* Planning.                                                               *)

\* A client sends a request of turn t, with the turn state it latched or
\* without one (a full create).  A replan after a quota rejection, which
\* drops the header and plans again, is a new request without one.
NewRequest(c, t, token) ==
    /\ c \in count.limit.callers /\ t \in count.limit.turns
    /\ At(c, "idle") /\ count.requests < count.limit.requests
    /\ token \in {None, held[t]}
    /\ caller' = [caller EXCEPT ![c] =
         [Idle EXCEPT !.at = "queued", !.turn = t, !.token = token,
                      !.id = count.requests + 1]]
    /\ count' = [count EXCEPT !.requests = @ + 1]
    /\ UNCHANGED <<lane, rec, holder, gate, calls, held, doubt, removed>>

\* The client goes away: its request context is cancelled.
Cancel(c) ==
    /\ ~At(c, "idle") /\ ~caller[c].cancelled /\ count.cancels < count.limit.cancels
    /\ caller' = [caller EXCEPT ![c].cancelled = TRUE]
    /\ count' = [count EXCEPT !.cancels = @ + 1]
    /\ UNCHANGED <<lane, rec, holder, gate, calls, held, doubt, removed>>

\* codexLanePlanningGateSet.acquire
AcquirePlanning(c) ==
    /\ At(c, "queued") /\ gate = None
    /\ gate' = c /\ Go(c, "planning")
    /\ UNCHANGED <<lane, rec, holder, calls, held, doubt, removed, count>>

\* The waiter's context ends, in the queue or at the gate.
Withdraw(c) ==
    /\ caller[c].at \in {"queued", "planning"} /\ caller[c].cancelled
    /\ Leave(c)
    /\ gate' = IF gate = c THEN None ELSE gate
    /\ UNCHANGED <<lane, rec, holder, calls, held, doubt, removed, count>>

\* Planning or BeginRequest fails: no route, a stale turn, a continuity error.
PlanFails(c) ==
    /\ At(c, "planning")
    /\ PlanningAvailable(Turn(c)) \/ Unresolved(Turn(c))
    /\ Leave(c) /\ gate' = None
    /\ UNCHANGED <<lane, rec, holder, calls, held, doubt, removed, count>>

Selected(p) == p.slots[1]
AccountsOf(p) == {p.slots[i] : i \in DOMAIN p.slots}

\* validateQuotaExhaustionPlan, validateCodexLeaseBeginRequestAvailability
PlanAvailable(p, unavailable) ==
    IF p.probe THEN AccountsOf(p) = {Selected(p)} /\ Selected(p) \in lane.exhausted
    ELSE AccountsOf(p) \cap (lane.exhausted \cup unavailable) = {}

\* The request context is alive and the account revalidates.
Valid(c, a) == ~caller[c].cancelled /\ a \notin removed

\* reserveUnseen and reserveSuccessor: the turn becomes the lane's head with an
\* empty reservation, and the drained predecessor is superseded, in one commit.
Reserve(c, p) ==
    LET t == Turn(c)
        superseded == lane.current # None
    IN
    /\ At(c, "planning") /\ Class(t) = "unseen"
    /\ PlanningAvailable(t) /\ caller[c].token = None
    /\ PlanAvailable(p, {}) /\ Valid(c, Selected(p))
    /\ rec' = [u \in Turns |->
         IF u = t THEN [NoRecord EXCEPT !.state = "reserving", !.pred = lane.last]
         ELSE IF superseded /\ u = lane.current
              THEN [rec[u] EXCEPT !.state = "superseded"] ELSE rec[u]]
    /\ holder' = [u \in Turns |->
         IF u = t THEN c ELSE IF superseded /\ u = lane.current THEN None ELSE holder[u]]
    /\ lane' = [current |-> t, last |-> t, unavailable |-> {},
                exhausted |-> lane.exhausted]
    /\ caller' = [caller EXCEPT ![c].at = "reserved", ![c].plan = p]
    /\ UNCHANGED <<gate, calls, held, doubt, removed, count>>

\* reboundTurnState: the token of the account the turn has since left.
Displaced(t, token) ==
    LET r == rec[t] IN
    /\ Class(t) = "current" /\ r.everAdmitted
    /\ token # None /\ token = r.prevTurnState /\ token # r.turnState

\* Mutant: a continuation is portable whatever turn state it carries.
PortableAlways(r, token) == UnavailableCanBegin(r)

\* codexLeasePortableUnavailableContinuation
PortableContinuation(r, token) == token = None /\ UnavailableCanBegin(r)

\* validateRequestContinuity and the hard-continuity check of BeginRequest.
Continuity(r, token, displaced, p) ==
    LET portable == PortableContinuation(r, token)
        bound == ~portable /\ (token # None \/ RequiresAccount(r))
    IN
    /\ \/ (r.turnState # None) = (token # None)
       \/ r.turnState # None /\ token = None /\ displaced
       \/ portable
    /\ token # None => token = r.turnState
    /\ bound => AccountsOf(p) = {r.account}

\* The record a request begins with, and what the store checks of it
\* (buildCodexBeginRequestAfterImage).
Begun(r, id, token, p) ==
    LET bound == ~PortableContinuation(r, token) /\ (token # None \/ RequiresAccount(r))
        reset == ~bound /\ (UnavailableCanBegin(r) \/ PortableReset(r))
    IN [r EXCEPT
         !.state = IF r.everAdmitted THEN "bound_active" ELSE "provisional",
         !.account = IF reset /\ r.everAdmitted THEN r.account ELSE Selected(p),
         !.nonMigratable = bound \/ (r.nonMigratable /\ ~reset),
         !.id = id, !.plan = p, !.slot = 1, !.attempt = "prepared",
         !.refs = {"routing"}]

BindingKept(r, new, p) ==
    LET reset == (UnavailableCanBegin(r) /\ ~new.nonMigratable) \/ PortableReset(r) IN
    /\ r.everAdmitted \/ r.nonMigratable =>
         /\ new.account # r.account => reset /\ ~r.everAdmitted
         /\ Selected(p) # new.account => reset
    /\ r.nonMigratable /\ ~reset => AccountsOf(p) = {new.account}

\* BeginRequestContext, on a reservation of its own, the current turn, or the
\* failed last turn of a lane without a current one.
Begin(c, p) ==
    LET t == Turn(c)
        r == rec[t]
        displaced == At(c, "planning") /\ Displaced(t, caller[c].token)
        token == IF displaced THEN None ELSE caller[c].token
        restarting == lane.current = None /\ lane.last = t /\ RestartableFailedHead(r)
        unavailable == IF restarting THEN {} ELSE lane.unavailable
        new == Begun(r, caller[c].id, token, p)
    IN
    /\ \/ At(c, "reserved") /\ p = caller[c].plan
       \/ At(c, "planning") /\ Valid(c, Selected(p)) /\ ~Unresolved(t)
    /\ lane.current = t \/ restarting
    /\ CanBegin(r)
    /\ PlanAvailable(p, unavailable)
    /\ Continuity(r, token, displaced, p) /\ BindingKept(r, new, p)
    /\ Put(c, new)
    /\ lane' = [lane EXCEPT !.current = t, !.unavailable = unavailable]
    /\ gate' = None
    /\ caller' = [caller EXCEPT ![c] =
         [@ EXCEPT !.at = "prepared", !.token = token, !.plan = NoPlan,
                   !.relatch = r.turnState # None /\ PortableContinuation(r, token)]]
    /\ UNCHANGED <<calls, held, doubt, removed, count>>

-----------------------------------------------------------------------------
(* The attempts of CodexHTTPRequestSession.Do.                             *)

\* Mutant: the dispatch is not made durable before the send.
MarkUnrecorded(c) ==
    /\ At(c, "prepared") /\ Fenced(c) /\ Rec(c).attempt = "prepared"
    /\ Valid(c, AttemptAccount(Rec(c)))
    /\ Go(c, "marked")
    /\ UNCHANGED <<lane, rec, holder, gate, calls, held, doubt, removed, count>>

\* MarkDispatchedContext: the last durable step before the send.
MarkDispatched(c) ==
    /\ At(c, "prepared") /\ Fenced(c) /\ Rec(c).attempt = "prepared"
    /\ Valid(c, AttemptAccount(Rec(c)))
    /\ Put(c, [Rec(c) EXCEPT !.attempt = "dispatched"])
    /\ Go(c, "marked")
    /\ UNCHANGED <<lane, gate, calls, held, doubt, removed, count>>

\* The round trip starts: the request is on the wire.
Send(c) ==
    /\ At(c, "marked")
    /\ calls' = calls \cup
         {[id |-> caller[c].id, turn |-> Turn(c), slot |-> Rec(c).slot,
           account |-> AttemptAccount(Rec(c)), token |-> caller[c].token,
           fate |-> "open"]}
    /\ Go(c, "sent")
    /\ UNCHANGED <<lane, rec, holder, gate, held, doubt, removed, count>>

\* The provider decides about a request, whether or not CQ still waits.
Decide(k, fate) ==
    /\ k.fate = "open"
    /\ calls' = (calls \ {k}) \cup {[k EXCEPT !.fate = fate]}
    /\ UNCHANGED <<lane, rec, holder, gate, caller, held, doubt, removed, count>>

\* AbandonBeforeDispatch: the credential does not resolve, the mark fails, the
\* client is gone.  The cleanup ignores the cancellation.
Abandon(c) ==
    /\ At(c, "prepared") /\ Fenced(c) /\ Rec(c).attempt = "prepared"
    /\ Put(c, [Rec(c) EXCEPT
         !.attempt = "abandoned", !.refs = {},
         !.state = IF Rec(c).everAdmitted THEN "orphaned" ELSE "provisional"])
    /\ Leave(c)
    /\ UNCHANGED <<lane, gate, calls, held, doubt, removed, count>>

\* The transport fails or the response is invalid: the outcome is in doubt.
TransportError(c) ==
    /\ caller[c].at \in {"marked", "sent"}
    /\ Go(c, "lost")
    /\ UNCHANGED <<lane, rec, holder, gate, calls, held, doubt, removed, count>>

\* Mutant: the attempt's outcome is written where the lease state belongs.
UnavailableSwapped(r, slot) ==
    IF slot # 0 THEN [r EXCEPT !.attempt = "prepared", !.slot = slot]
    ELSE [r EXCEPT !.attempt = "unavailable", !.refs = {},
                   !.state = IF r.everAdmitted THEN "bound_quiescent" ELSE "unavailable"]

\* recordAccountUnavailableContext: the attempt's account is excluded for the
\* request, after a quota rejection for the lane; slot is prepared next, or
\* with 0 the request ends.  The binding stays.
Unavailable(r, slot) ==
    IF slot # 0 THEN [r EXCEPT !.attempt = "prepared", !.slot = slot]
    ELSE [r EXCEPT !.attempt = "unavailable", !.refs = {},
                   !.state = IF r.everAdmitted THEN "bound_quiescent"
                                               ELSE "failed_unadmitted"]

LaneWithout(r, slot, quota) ==
    [lane EXCEPT
        !.unavailable = @ \cup {AttemptAccount(r)},
        !.exhausted = IF quota THEN @ \cup {AttemptAccount(r)} ELSE @,
        !.current = IF slot = 0 /\ ~r.everAdmitted THEN None ELSE @]

CanRecordUnavailable(c, slot) ==
    LET r == Rec(c) IN
    /\ Fenced(c) /\ ~caller[c].cancelled
    /\ \/ r.attempt \in {"prepared", "dispatched"}
       \/ r.attempt = "streaming" /\ slot = 0 /\ r.everAdmitted
    /\ r.state \in {"provisional", "bound_active"}
    /\ slot # 0 =>
         /\ r.plan.slots[slot] \notin removed
         /\ r.nonMigratable => r.plan.slots[slot] = AttemptAccount(r)

\* A terminal exclusion other than quota, of a turn that was admitted, is
\* followed by CompleteAccountUnavailableCycle.
RecordUnavailable(c, slot, quota) ==
    /\ CanRecordUnavailable(c, slot)
    /\ Put(c, Unavailable(Rec(c), slot))
    /\ lane' = LaneWithout(Rec(c), slot, quota)
    /\ IF slot # 0 THEN Go(c, "prepared")
       ELSE IF Rec(c).everAdmitted /\ ~quota THEN Go(c, "cycle") ELSE Leave(c)
    /\ doubt' = IF Rec(c).attempt = "prepared" THEN doubt
                ELSE [doubt EXCEPT ![Turn(c)] = None]
    /\ UNCHANGED <<gate, calls, held, removed, count>>

\* Before the dispatch: the refresh that the account needs first fails, or a
\* reserve protects the account.
UnavailableBeforeDispatch(c) ==
    /\ At(c, "prepared")
    /\ RecordUnavailable(c, Replacement(Rec(c)), FALSE)

\* The same, when the exclusion cannot be recorded: the session goes to
\* finishIndeterminate with a prepared attempt.
UnavailableNotRecorded(c) ==
    /\ At(c, "prepared") /\ ~CanRecordUnavailable(c, Replacement(Rec(c)))
    /\ Go(c, "lost")
    /\ UNCHANGED <<lane, rec, holder, gate, calls, held, doubt, removed, count>>

\* Mutant: a retry is prepared without waiting for a definite rejection.
RejectedOrLost(c) == At(c, "sent") /\ Call(c, "accepted") = {}

Rejected(c) == At(c, "sent") /\ Call(c, "rejected") # {}

\* Another credential of the account after an authentication rejection.
CanRejectAndPrepare(c) ==
    LET r == Rec(c) IN
    /\ Fenced(c) /\ Valid(c, AttemptAccount(r))
    /\ r.attempt = "dispatched"
    /\ \/ r.state = "provisional" /\ ~r.everAdmitted
       \/ r.state = "bound_active" /\ r.everAdmitted

\* RejectAndPrepareContext; an unadmitted turn is bound to the account it tries.
RejectAndPrepare(c) ==
    LET r == Rec(c)
        slot == NextCredential(r)
    IN
    /\ Rejected(c) /\ slot # 0 /\ CanRejectAndPrepare(c)
    /\ Put(c, [r EXCEPT !.attempt = "prepared", !.slot = slot,
                        !.account = IF r.everAdmitted THEN @ ELSE AttemptAccount(r)])
    /\ Go(c, "prepared")
    /\ doubt' = [doubt EXCEPT ![Turn(c)] = None]
    /\ UNCHANGED <<lane, gate, calls, held, removed, count>>

\* The next account after an authentication, quota or access rejection.
FailOver(c, quota) ==
    /\ Rejected(c) /\ Replacement(Rec(c)) # 0
    /\ RecordUnavailable(c, Replacement(Rec(c)), quota)

\* A retry that cannot be recorded leaves the attempt in doubt.
RetryNotRecorded(c) ==
    /\ Rejected(c)
    /\ \/ NextCredential(Rec(c)) # 0 /\ ~CanRejectAndPrepare(c)
       \/ /\ Replacement(Rec(c)) # 0
          /\ ~CanRecordUnavailable(c, Replacement(Rec(c)))
    /\ Go(c, "lost")
    /\ UNCHANGED <<lane, rec, holder, gate, calls, held, doubt, removed, count>>

\* No account is left: the rejection is recorded as unavailability.
Exhausted(c, quota) ==
    /\ Rejected(c) /\ Replacement(Rec(c)) = 0
    /\ RecordUnavailable(c, 0, quota)

\* The same with a cancelled request context: Do returns the error and
\* nothing else finishes the attempt.
ExhaustedNotRecorded(c) ==
    /\ Rejected(c) /\ Replacement(Rec(c)) = 0 /\ ~CanRecordUnavailable(c, 0)
    /\ Leave(c)
    /\ UNCHANGED <<lane, rec, holder, gate, calls, held, doubt, removed, count>>

\* FinishRejected: any other definite rejection, or a turn whose exclusion may
\* not be recorded.  It ignores the cancellation.
FinishRejected(c) ==
    LET r == Rec(c) IN
    /\ Rejected(c) /\ Fenced(c) /\ r.attempt = "dispatched"
    /\ r.everAdmitted \/ r.state = "provisional"
    /\ Put(c, [r EXCEPT !.attempt = "provider_failed", !.refs = {},
                        !.state = IF r.everAdmitted THEN "bound_quiescent"
                                                    ELSE "failed_unadmitted"])
    /\ lane' = IF r.everAdmitted THEN lane ELSE [lane EXCEPT !.current = None]
    /\ Leave(c)
    /\ doubt' = [doubt EXCEPT ![Turn(c)] = None]
    /\ UNCHANGED <<gate, calls, held, removed, count>>

\* CompleteAccountUnavailableCycle, or a replan that keeps the exclusions.
CompleteCycle(c) ==
    /\ At(c, "cycle")
    /\ lane' = IF Fenced(c) /\ ~caller[c].cancelled
               THEN [lane EXCEPT !.unavailable = {}] ELSE lane
    /\ Leave(c)
    /\ UNCHANGED <<rec, holder, gate, calls, held, doubt, removed, count>>

ReplanCycle(c) ==
    /\ At(c, "cycle")
    /\ Leave(c)
    /\ UNCHANGED <<lane, rec, holder, gate, calls, held, doubt, removed, count>>

-----------------------------------------------------------------------------
(* Admission and the response observer.                                    *)

\* applyAccountUnavailableRebind and applyAdmissionEvidence: a response of
\* another account than the binding moves the binding; its turn state is
\* latched if there is none, or if this request gave up the old one.
Admitted(r, token, relatch) ==
    LET a == AttemptAccount(r)
        rebind == r.attempt = "dispatched" /\ a # r.account
    IN [r EXCEPT
         !.state = "bound_active", !.attempt = "streaming",
         !.account = a, !.everAdmitted = TRUE, !.refs = Refs,
         !.prevTurnState = IF rebind /\ @ = None THEN r.turnState ELSE @,
         !.turnState = IF token = None THEN (IF rebind THEN None ELSE @)
                       ELSE IF @ = None \/ relatch THEN token ELSE @]

CanAdmit(c) ==
    LET r == Rec(c) IN
    /\ Fenced(c) /\ Valid(c, AttemptAccount(r))
    /\ \/ r.attempt = "dispatched" /\ r.state \in {"provisional", "bound_active"}
       \/ r.attempt = "streaming" /\ r.state = "bound_active"
    /\ AttemptElsewhere(r) => ~r.nonMigratable

\* The client keeps the first turn state of a turn.
Latch(t, token) == held' = IF held[t] = None THEN [held EXCEPT ![t] = token] ELSE held

\* AdmitHTTP2xxContext on a 2xx response, with or without a turn state.
Admit(c, issued) ==
    LET token == IF issued THEN [by |-> AttemptAccount(Rec(c)), n |-> caller[c].id]
                           ELSE None
    IN
    /\ At(c, "sent") /\ Call(c, "accepted") # {} /\ CanAdmit(c)
    /\ Put(c, Admitted(Rec(c), token, caller[c].relatch))
    /\ caller' = [caller EXCEPT ![c].at = "streaming",
                                ![c].relatch = @ /\ ~issued]
    /\ Latch(Turn(c), token)
    /\ UNCHANGED <<lane, gate, calls, doubt, removed, count>>

AdmitNotRecorded(c) ==
    /\ At(c, "sent") /\ Call(c, "accepted") # {} /\ ~CanAdmit(c)
    /\ Go(c, "lost")
    /\ UNCHANGED <<lane, rec, holder, gate, calls, held, doubt, removed, count>>

\* A turn state in the stream of a response whose headers had none.
StreamedTurnState(c) ==
    LET r == Rec(c)
        token == [by |-> AttemptAccount(r), n |-> caller[c].id]
    IN
    /\ At(c, "streaming") /\ CanAdmit(c)
    /\ r.turnState = None \/ (caller[c].relatch /\ token # r.turnState)
    /\ Put(c, Admitted(r, token, caller[c].relatch))
    /\ caller' = [caller EXCEPT ![c].relatch = FALSE]
    /\ Latch(Turn(c), token)
    /\ UNCHANGED <<lane, gate, calls, doubt, removed, count>>

\* ProviderCompleted: the turn ends or expects a continuation; a completed
\* probe takes its account off the lane's exhausted ones.
Complete(c, endTurn) ==
    LET r == Rec(c) IN
    /\ At(c, "streaming") /\ Fenced(c) /\ ~caller[c].cancelled
    /\ r.attempt = "streaming" /\ r.state = "bound_active" /\ "observer" \in r.refs
    /\ Put(c, [r EXCEPT !.attempt = "provider_completed", !.refs = {"observer"},
                        !.state = IF endTurn THEN "bound_quiescent"
                                             ELSE "continuation_pending"])
    /\ lane' = [lane EXCEPT !.unavailable = {},
         !.exhausted = IF r.plan.probe THEN @ \ {AttemptAccount(r)} ELSE @]
    /\ Go(c, "drain")
    /\ doubt' = [doubt EXCEPT ![Turn(c)] = None]
    /\ UNCHANGED <<gate, calls, held, removed, count>>

\* ProviderFailed: the stream ends with an error event.
ProviderFails(c) ==
    LET r == Rec(c) IN
    /\ At(c, "streaming") /\ Fenced(c) /\ ~caller[c].cancelled
    /\ r.attempt = "streaming" /\ r.state = "bound_active" /\ "observer" \in r.refs
    /\ Put(c, [r EXCEPT !.attempt = "provider_failed", !.refs = {"observer"},
                        !.state = "bound_quiescent"])
    /\ Go(c, "drain")
    /\ doubt' = [doubt EXCEPT ![Turn(c)] = None]
    /\ UNCHANGED <<lane, gate, calls, held, removed, count>>

\* An admitted response that ends with a usage limit or a rejected authentication, as
\* readUpstreamRequest of the WebSocket broker, the other caller of the lease, sees it.
StreamUnavailable(c, quota) == At(c, "streaming") /\ RecordUnavailable(c, 0, quota)

CanRecordDoubt(c) ==
    LET r == Rec(c) IN
    /\ Fenced(c)
    /\ r.attempt \in {"dispatched", "streaming"}
    /\ r.everAdmitted \/ AttemptAccount(r) \notin removed

\* IndeterminateContext, after a transport error or a stream cut short.  The
\* observer reference it leaves is dropped by Drain.
Indeterminate(c) ==
    LET r == Rec(c) IN
    /\ caller[c].at \in {"lost", "streaming"} /\ CanRecordDoubt(c)
    /\ Put(c, [r EXCEPT !.attempt = "indeterminate", !.state = "orphaned",
                        !.refs = {"observer"}, !.nonMigratable = TRUE])
    /\ Go(c, "drain")
    /\ doubt' = [doubt EXCEPT ![Turn(c)] = AttemptAccount(r)]
    /\ UNCHANGED <<lane, gate, calls, held, removed, count>>

\* The same when it is refused: an attempt that was never dispatched, or an
\* unadmitted one whose account was removed.  Do returns and leaves it.
DoubtNotRecorded(c) ==
    /\ At(c, "lost") /\ ~CanRecordDoubt(c)
    /\ Leave(c)
    /\ UNCHANGED <<lane, rec, holder, gate, calls, held, doubt, removed, count>>

\* Mutant: the reference outlives the response.
DrainForgotten(c) ==
    /\ At(c, "drain") /\ Fenced(c)
    /\ Leave(c)
    /\ UNCHANGED <<lane, rec, holder, gate, calls, held, doubt, removed, count>>

\* Drain: the last reference of the request is released.
Drain(c) ==
    /\ At(c, "drain") /\ Fenced(c)
    /\ TerminalForRequest(Rec(c).attempt) /\ "observer" \in Rec(c).refs
    /\ Put(c, [Rec(c) EXCEPT !.refs = @ \ {"observer"}])
    /\ Leave(c)
    /\ UNCHANGED <<lane, gate, calls, held, doubt, removed, count>>

-----------------------------------------------------------------------------
(* Removal of accounts, restart, retention.                                *)

Remove(a) ==
    /\ a \notin removed /\ Cardinality(removed) < count.limit.removals
    /\ removed' = removed \cup {a}
    /\ UNCHANGED <<lane, rec, holder, gate, caller, calls, held, doubt, count>>

\* normaliseRestoredV2Locked
Normalised(r) ==
    LET uncertain == r.attempt \in {"dispatched", "streaming"}
        state == IF r.state = "reserving" THEN "failed_unadmitted"
                 ELSE IF \/ uncertain
                         \/ r.attempt = "prepared" /\ r.everAdmitted
                         \/ r.state \in {"continuation_pending", "bound_quiescent"}
                 THEN "orphaned" ELSE r.state
    IN [r EXCEPT
         !.refs = {}, !.state = state,
         !.nonMigratable = @ \/ uncertain,
         !.attempt = IF uncertain THEN "indeterminate"
                     ELSE IF @ = "prepared" THEN "abandoned" ELSE @]

\* The proxy dies at any point and opens the journal again.
Restart ==
    /\ count.restarts < count.limit.restarts
    /\ rec' = [t \in Turns |-> Normalised(rec[t])]
    /\ lane' = IF lane.current # None /\ rec[lane.current].state = "reserving"
               THEN [lane EXCEPT !.current = None] ELSE lane
    /\ doubt' = [t \in Turns |->
         IF rec[t].attempt \in {"dispatched", "streaming"}
         THEN AttemptAccount(rec[t]) ELSE doubt[t]]
    /\ holder' = [t \in Turns |-> None]
    /\ gate' = None /\ caller' = [c \in Callers |-> Idle]
    /\ count' = [count EXCEPT !.restarts = @ + 1]
    /\ UNCHANGED <<calls, held, removed>>

\* compactCodexLeaseV2Envelope, for records older than the retention period:
\* drained terminal ones are deleted, other drained ones expire unless a kept
\* successor names them; a lane that keeps a record keeps its last turn.
Sweep(old) ==
    LET stale == {t \in old : rec[t].state # "none" /\ Extinct(rec[t])}
        dead == {t \in stale : rec[t].state \in {"bound_quiescent", "orphaned",
                                 "superseded", "expired", "failed_unadmitted"}}
        named == {rec[t].pred : t \in {u \in Turns : rec[u].state # "none"} \ dead}
        expired == (stale \ dead) \ named
        survivors == {t \in Turns : rec[t].state # "none"} \ dead
        deleted == IF survivors = {} THEN dead ELSE dead \ {lane.last}
    IN
    /\ count.sweeps < count.limit.sweeps
    /\ deleted \cup expired # {}
    /\ rec' = [t \in Turns |->
         IF t \in deleted THEN NoRecord
         ELSE IF t \in expired THEN [rec[t] EXCEPT !.state = "expired"] ELSE rec[t]]
    /\ lane' = IF survivors = {} THEN NoLane
               ELSE IF lane.current \in expired THEN [lane EXCEPT !.current = None] ELSE lane
    /\ holder' = [t \in Turns |-> IF t \in deleted \cup expired THEN None ELSE holder[t]]
    /\ count' = [count EXCEPT !.sweeps = @ + 1]
    /\ UNCHANGED <<gate, caller, calls, held, doubt, removed>>

-----------------------------------------------------------------------------
\* What a caller does once its request is in the proxy.
Plan(c) ==
    \/ Withdraw(c) \/ PlanFails(c)
    \/ \E p \in count.limit.plans : Reserve(c, p) \/ Begin(c, p)
Attempt(c) ==
    \/ MarkDispatched(c) \/ Send(c) \/ Abandon(c) \/ TransportError(c)
    \/ UnavailableBeforeDispatch(c) \/ UnavailableNotRecorded(c)
    \/ RejectAndPrepare(c) \/ RetryNotRecorded(c)
    \/ \E quota \in BOOLEAN : FailOver(c, quota) \/ Exhausted(c, quota)
    \/ ExhaustedNotRecorded(c) \/ FinishRejected(c) \/ CompleteCycle(c) \/ ReplanCycle(c)
Observe(c) ==
    \/ \E issued \in BOOLEAN : Admit(c, issued)
    \/ AdmitNotRecorded(c) \/ StreamedTurnState(c)
    \/ \E endTurn \in BOOLEAN : Complete(c, endTurn)
    \/ \E quota \in BOOLEAN : StreamUnavailable(c, quota)
    \/ ProviderFails(c) \/ Indeterminate(c) \/ DoubtNotRecorded(c) \/ Drain(c)

Environment ==
    \/ \E c \in Callers : \/ \E t \in Turns : \E token \in {None, held[t]} :
                               NewRequest(c, t, token)
                          \/ Cancel(c)
    \/ \E k \in calls : \E fate \in {"accepted", "rejected"} : Decide(k, fate)
    \/ \E a \in Accounts : Remove(a)
    \/ Restart
    \/ \E old \in SUBSET Turns : Sweep(old)

Next ==
    \/ Environment
    \/ \E c \in Callers : AcquirePlanning(c) \/ Plan(c) \/ Attempt(c) \/ Observe(c)

Spec == Init /\ [][Next]_vars

\* A caller in the proxy keeps running and a round trip ends; the planning
\* gate is a channel, which serves its waiters in order.
Fairness ==
    /\ \A c \in Callers :
         /\ SF_vars(AcquirePlanning(c))
         /\ WF_vars(Plan(c) \/ Attempt(c) \/ Observe(c))
FairSpec == Spec /\ Fairness

-----------------------------------------------------------------------------
(* Properties.                                                             *)

Live == {"prepared", "marked", "sent", "streaming", "lost", "drain"}

\* Two requests of a lane never overlap: while one has an attempt to finish or
\* an observer to drain, no other gets past BeginRequest.
OneLiveRequest == Cardinality({c \in Callers : caller[c].at \in Live}) <= 1

\* However often it is retried and whatever is lost, at most one attempt of a
\* request is ever accepted, or may still be: a next attempt is only prepared
\* once the provider has rejected the one before.
AcceptedOnce ==
    \A id \in 1..count.requests :
      Cardinality({k \in calls : k.id = id /\ k.fate # "rejected"}) <= 1

\* A request that may be at the provider is on record as such: its attempt is
\* never taken for one that was not sent, by a restart least of all.
SentIsRemembered ==
    \A k \in calls :
      LET r == rec[k.turn] IN
      r.id = k.id /\ r.slot = k.slot => r.attempt \notin {"prepared", "abandoned"}

\* The turn state a provider issued travels to no other account than the
\* one it was issued to, through failovers, moves of the turn and restarts.
TokenStaysHome ==
    \A k \in calls : k.token # None => k.token.by = k.account

\* A caller that waits at the planning gate is served: the request before it
\* drains, and then it begins or is told why not.
EveryCallerProceeds == \A c \in Callers : At(c, "planning") ~> ~At(c, "planning")

\* A request that ended in doubt pins its turn to that account until a later
\* request of the turn has had an answer.
DoubtPins ==
    \A t \in Turns :
      doubt[t] # None /\ rec[t].attempt \in {"prepared", "dispatched"} =>
        AttemptAccount(rec[t]) = doubt[t]

\* The lease implements LaneRequest: the lane is with its last turn while that
\* turn's record holds a reference, the call is the one of the record's attempt.
LastRecord == IF lane.last = None THEN NoRecord ELSE rec[lane.last]
LastCalls == {k \in calls : k.id = LastRecord.id /\ k.slot = LastRecord.slot}
Fate ==
    IF LastCalls = {} THEN "none"
    ELSE IF \E k \in LastCalls : k.fate = "rejected" THEN "refused"
    ELSE IF \E k \in LastCalls : k.fate = "accepted" THEN "answered"
    ELSE "open"
Verdict(attempt) ==
    IF attempt = "indeterminate" THEN "doubt"
    ELSE IF TerminalForRequest(attempt) THEN "settled" ELSE "none"
Lane == INSTANCE LaneRequest WITH
    Users <- Turns,
    user <- IF LastRecord.refs = {} THEN None ELSE lane.last,
    call <- Fate,
    verdict <- Verdict(LastRecord.attempt)
ImplementsLaneRequest == Lane!Spec
=============================================================================
