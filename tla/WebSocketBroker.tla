--------------------------- MODULE WebSocketBroker ---------------------------
(***************************************************************************)
(* The broker that terminates a client's WebSocket and speaks for it to    *)
(* the provider:                                                           *)
(*   internal/proxy/codex_ws_broker.go     codex_ws_lifecycle.go           *)
(*   .../codex_prewarm.go                  codex_lease_v2_prewarm.go       *)
(*   .../codex_http_request_plan.go        runtime_upgrade_ingress.go      *)
(*                                                                         *)
(* A broker serves one frame at a time.  A request frame becomes a request *)
(* of the lane's turn lease, is tried on the accounts of its plan over an  *)
(* upstream socket that outlives the frame, and is answered by relaying    *)
(* what the provider sends.  A prewarm frame opens that socket before      *)
(* there is a turn; its reservation is held per lane, in memory, and       *)
(* adopted by the request that continues the prewarm's response.           *)
(* Several brokers may serve one lane: a client that reconnects is served  *)
(* by a new one while the old one is still busy.  TurnLease models the     *)
(* lease itself; here it is reduced to the lane's current request, and     *)
(* both implement LaneRequest.                                             *)
(***************************************************************************)
EXTENDS Naturals, Integers, Sequences, FiniteSets

CONSTANTS Brokers, Accounts,
          None,            \* no account, no broker
          Environments     \* what can happen, one of which a run keeps to

\* What may go wrong besides a provider that refuses or does not answer: the
\* client leaves, a write to it fails, a refresh fails, a reserve protects an
\* account.
Faults == {"gone", "write", "refresh", "reserve"}

\* A plan: accounts in the order they may be tried, how many credentials each
\* has now, whether another can be refreshed, and how many reset candidates
\* there are for a replan.
Plans == [accounts : UNION {[1..n -> Accounts] : n \in 1..2}, creds : 0..2,
          refresh : BOOLEAN, reset : 0..1]
ASSUME EnvironmentAssumption ==
    /\ None \notin Accounts \cup Brokers
    /\ \A e \in Environments :
         /\ e.brokers \subseteq Brokers /\ e.faults \subseteq Faults
         /\ e.plans \subseteq Plans /\ e.kinds \subseteq {"warm", "create", "continue", "adopt"}
         /\ e.frames \in Nat /\ e.pauses \in Nat
         /\ \A p \in e.plans : p.creds = 0 => p.refresh

VARIABLES
    sock,       \* the brokers
    lease,      \* the current request of the lane
    resv,       \* the lane's prewarm reservation
    gate,       \* RuntimeUpgradeAdmission, and how often it was paused
    env,        \* the environment
    frames      \* frames that clients have sent

vars == <<sock, lease, resv, gate, env, frames>>

\* A socket: where its broker stands; gone: its context is cancelled; told:
\* the upgrade signal it captured is closed; the frame and its plan; idx, the
\* account; left, further credentials of this connect; tries, slots of the
\* account used; considered: this connect has tried a refresh; stale: connect
\* has committed past the handle its caller holds; again: it is called for a
\* second credential after a refused frame; retries: reserveRetries; open: sends of
\* the frame that the provider has run or may still run.
Locations == {"new", "idle", "start", "planning", "account", "connect", "dialing",
              "refused", "upgraded", "reading", "relaying", "answered", "warmed",
              "warmReading", "left"}
NoPlan == [accounts |-> <<>>, creds |-> 0, refresh |-> FALSE, reset |-> 0]
Fresh == [at |-> "new", gone |-> FALSE, told |-> FALSE, kind |-> "none", plan |-> NoPlan,
          idx |-> 0, left |-> 0, tries |-> 0, considered |-> FALSE, stale |-> FALSE,
          again |-> FALSE, retries |-> -1, open |-> 0, refusal |-> "none", conn |-> None, warm |-> "none"]

LiveReservations == {"creating", "bound", "ready"}
Refs == {"routing", "attempt", "observer"}
Refusals == {"auth", "quota", "cyber", "other"}

TypeOK ==
    /\ sock \in [Brokers ->
         [at : Locations, gone : BOOLEAN, told : BOOLEAN,
          kind : {"none", "warm", "create", "continue", "adopt"},
          plan : Plans \cup {NoPlan}, idx : 0..2, left : 0..2, tries : 0..3,
          considered : BOOLEAN, stale : BOOLEAN, again : BOOLEAN, retries : -1..1, open : 0..2,
          refusal : Refusals \cup {"none"}, conn : Accounts \cup {None},
          warm : LiveReservations \cup {"none"}]]
    /\ \A b \in Brokers : sock[b].idx <= Len(sock[b].plan.accounts)
    /\ lease \in
         [owner : Brokers \cup {None}, refs : SUBSET Refs, ever : BOOLEAN,
          attempt : {"none", "prepared", "dispatched", "streaming", "completed", "failed",
                     "unavailable", "abandoned", "indeterminate"},
          fate : {"unsent", "sent", "refused", "ended"}]
    /\ resv \in [state : LiveReservations \cup {"none", "cancelled", "adopted"},
                 owner : Brokers \cup {None}]
    /\ gate \in [paused : BOOLEAN, pauses : Nat]
    /\ env \in Environments
    /\ frames \in Nat

Init ==
    /\ env \in Environments
    /\ sock = [b \in Brokers |-> Fresh]
    /\ lease = [owner |-> None, refs |-> {}, ever |-> FALSE, attempt |-> "none",
                fate |-> "unsent"]
    /\ resv = [state |-> "none", owner |-> None]
    /\ gate = [paused |-> FALSE, pauses |-> 0]
    /\ frames = 0

-----------------------------------------------------------------------------
At(b, l) == sock[b].at = l
Put(b, s) == sock' = [sock EXCEPT ![b] = s]
Fault(f) == f \in env.faults
Alive(b) == ~sock[b].gone
Portable(b) == sock[b].kind = "create"

\* closeCodexWSActiveUpstream: the reservation is forgotten with the socket.
Closed(s) == [s EXCEPT !.conn = None, !.warm = "none"]

\* The broker is done with a frame and keeps what it has of the upstream.
Done(s) == [Fresh EXCEPT !.at = "idle", !.gone = s.gone, !.told = s.told,
                         !.conn = s.conn, !.warm = s.warm]
Left == [Fresh EXCEPT !.at = "left"]

\* CodexPrewarmManager.cancel.  The correlation it compares is the digest of
\* the frame, which two prewarms of a lane may share.
Cancelled == [resv EXCEPT !.state = IF @ \in LiveReservations THEN "cancelled" ELSE @]
CancelActive(b) == resv' = IF sock[b].warm # "none" THEN Cancelled ELSE resv

\* Serve returns: the active prewarm is cancelled, the sockets are closed.
Leave(b) == Put(b, Left) /\ CancelActive(b)

\* A frame ends with a message to the client.  The broker goes on, or leaves
\* when the message cannot be written; a prewarm is no longer active here.
Reply(b, s) ==
    \/ Alive(b) /\ Put(b, Done(s))
    \/ (~Alive(b) \/ Fault("write")) /\ Put(b, Left)

-----------------------------------------------------------------------------
(* The lease of the request.                                               *)

Terminal == {"completed", "failed", "unavailable", "abandoned", "indeterminate"}
Commit(b, attempt, refs, fate) ==
    lease' = [lease EXCEPT !.owner = b, !.attempt = attempt, !.refs = refs, !.fate = fate]
Prepare(b) == Commit(b, "prepared", {"routing"}, "unsent")

\* AbandonBeforeDispatch, which a stale handle may not commit.
Abandon(b) ==
    IF sock[b].stale THEN UNCHANGED lease ELSE Commit(b, "abandoned", {}, lease.fate)

\* Mutant: the request is put in doubt and never drained.
CleanupUndrained(b) ==
    Commit(b, IF lease.attempt \in {"dispatched", "streaming"} THEN "indeterminate"
              ELSE lease.attempt, {"observer"}, lease.fate)

\* cleanupAfterBrokerExit, and Indeterminate with the Drain it needs: a request
\* that was dispatched is in doubt, one that has ended only lets go.  It does
\* nothing for a prepared attempt, which is for Abandon.
Cleanup(b) ==
    Commit(b, IF lease.attempt \in {"dispatched", "streaming"} THEN "indeterminate"
              ELSE lease.attempt, {}, lease.fate)

-----------------------------------------------------------------------------
(* Sessions and frames.                                                    *)

\* Serve begins: beginSession refuses while the gate is paused.
Serve(b) ==
    /\ At(b, "new") /\ b \in env.brokers
    /\ Put(b, [Fresh EXCEPT !.at = IF gate.paused THEN "left" ELSE "idle"])
    /\ UNCHANGED <<lease, resv, gate, env, frames>>

\* The downstream reader fails or sees the close: serveCtx is cancelled.
ClientGoes(b) ==
    /\ sock[b].at \notin {"new", "left"} /\ Alive(b) /\ Fault("gone")
    /\ Put(b, [sock[b] EXCEPT !.gone = TRUE])
    /\ UNCHANGED <<lease, resv, gate, env, frames>>

\* Pause and Resume of RuntimeUpgradeAdmission: every session that captured
\* the signal is told, for good.
Pause ==
    /\ ~gate.paused /\ gate.pauses < env.pauses
    /\ gate' = [paused |-> TRUE, pauses |-> gate.pauses + 1]
    /\ sock' = [b \in Brokers |->
         IF sock[b].at \in {"new", "left"} THEN sock[b] ELSE [sock[b] EXCEPT !.told = TRUE]]
    /\ UNCHANGED <<lease, resv, env, frames>>
Resume ==
    /\ gate.paused
    /\ gate' = [gate EXCEPT !.paused = FALSE]
    /\ UNCHANGED <<sock, lease, resv, env, frames>>

\* The upgrade signal, or the end of the client.
SessionEnds(b) ==
    /\ At(b, "idle") /\ (sock[b].told \/ sock[b].gone)
    /\ Leave(b)
    /\ UNCHANGED <<lease, gate, env, frames>>

\* A frame arrives, or was already buffered; BeginTurn refuses while paused.
Accept(b, kind) ==
    /\ At(b, "idle") /\ kind \in env.kinds /\ frames < env.frames
    /\ IF gate.paused THEN Leave(b)
       ELSE /\ Put(b, [sock[b] EXCEPT !.at = "start", !.kind = kind, !.retries = -1])
            /\ UNCHANGED resv
    /\ frames' = frames + 1
    /\ UNCHANGED <<lease, gate, env>>

\* The idle upstream has closed, at the keepalive or at its reader: the
\* socket is given up, and a frame that depends on it starts over.
IdleClosed(b) ==
    LET s == Closed(sock[b]) IN
    /\ At(b, "start") /\ sock[b].conn # None
    /\ IF sock[b].kind \in {"continue", "adopt"} THEN Reply(b, s) ELSE Put(b, s)
    /\ UNCHANGED <<lease, resv, gate, env, frames>>

\* ShouldRedistribute, ShouldResetCyberOff: not for a frame whose prewarm waits.
Redistribute(b) ==
    /\ At(b, "start") /\ sock[b].kind \in {"continue", "adopt"} /\ sock[b].warm # "ready"
    /\ Reply(b, Closed(sock[b]))
    /\ UNCHANGED <<lease, resv, gate, env, frames>>

StartRequest(b) ==
    /\ At(b, "start") /\ sock[b].kind # "warm"
    /\ Put(b, [sock[b] EXCEPT !.at = "planning"])
    /\ UNCHANGED <<lease, resv, gate, env, frames>>

-----------------------------------------------------------------------------
(* Planning.                                                               *)

\* The lane's planning gate: the request before has let go.
LaneFree == lease.refs = {}
Adopting(b) == sock[b].warm = "ready" /\ sock[b].kind = "adopt"

\* The request that a plan begins, on a turn of its own or a continued one.
Begun(b, p, s) ==
    /\ \E ever \in {FALSE, lease.ever} :
         lease' = [owner |-> b, refs |-> {"routing"}, ever |-> ever,
                   attempt |-> "prepared", fate |-> "unsent"]
    /\ Put(b, [s EXCEPT !.at = "account", !.plan = p, !.idx = 1, !.tries = 1,
                        !.retries = IF @ < 0 THEN p.reset ELSE @])

\* Build; a prewarm that the frame does not continue is cancelled first.
Build(b, p) ==
    /\ At(b, "planning") /\ ~Adopting(b) /\ LaneFree /\ Alive(b)
    /\ p \in env.plans
    /\ CancelActive(b)
    /\ Begun(b, p, [sock[b] EXCEPT !.warm = "none"])
    /\ UNCHANGED <<gate, env, frames>>

\* AdoptPrewarm: the reservation and both sockets are still the ones reserved;
\* the plan is the prewarm's account alone.
Adopt(b, p) ==
    /\ At(b, "planning") /\ Adopting(b) /\ LaneFree /\ Alive(b)
    /\ p \in env.plans /\ p.accounts = <<sock[b].conn>>
    /\ resv.state = "ready" /\ resv.owner = b
    /\ resv' = [resv EXCEPT !.state = "adopted"]
    /\ Begun(b, p, [sock[b] EXCEPT !.warm = "none"])
    /\ UNCHANGED <<gate, env, frames>>

\* The account of the prewarm is out of bounds for this request, or cyber
\* access refuses the plan: the client starts over.  The first cancels the
\* prewarm, and so did Build; the second, met while adopting, forgets it.
PlanRefused(b) ==
    /\ At(b, "planning") /\ LaneFree /\ Alive(b) /\ ~Portable(b) /\ sock[b].conn # None
    /\ Reply(b, Closed(sock[b]))
    /\ CancelActive(b) \/ (Adopting(b) /\ UNCHANGED resv)
    /\ UNCHANGED <<lease, gate, env, frames>>

\* Planning fails, among other reasons since the client has left: Serve ends,
\* or, at a cached usage limit, says so and goes on.
PlanFails(b) ==
    /\ At(b, "planning")
    /\ \/ (LaneFree \/ ~Alive(b)) /\ Leave(b)
       \/ LaneFree /\ ~Adopting(b) /\ CancelActive(b) /\ Alive(b)
          /\ Put(b, Done([sock[b] EXCEPT !.warm = "none"]))
    /\ UNCHANGED <<lease, gate, env, frames>>

\* The upstream has closed while the plan was made.
IdleClosedPlanned(b) ==
    /\ At(b, "account") /\ sock[b].idx = 1 /\ sock[b].tries = 1 /\ sock[b].conn # None
    /\ IF Portable(b) THEN Put(b, Closed(sock[b])) /\ UNCHANGED lease
       ELSE Abandon(b) /\ Reply(b, Closed(sock[b]))
    /\ UNCHANGED <<resv, gate, env, frames>>

-----------------------------------------------------------------------------
(* The accounts of the plan.                                               *)

\* Mutant: the account after the last one.
HasNextUnbounded(b) == Portable(b)

HasNext(b) == Portable(b) /\ sock[b].idx < Len(sock[b].plan.accounts)

\* RecordAccountUnavailable and RecordQuotaExhausted: the next account's slot
\* is prepared, or the request ends.
RecordUnavailable(b) ==
    IF HasNext(b) THEN Prepare(b) ELSE Commit(b, "unavailable", {}, lease.fate)
Rotated(s) == [s EXCEPT !.at = "account", !.idx = @ + 1, !.tries = 1, !.again = FALSE]

\* serveFrameReserveAttempt once more, for a request that may be replanned.
CanReplan(b) == Portable(b) /\ sock[b].plan.reset # 0 /\ sock[b].retries > 0
Replanned(s) == [Done(Closed(s)) EXCEPT !.at = "start", !.kind = s.kind, !.open = s.open,
                                        !.retries = s.retries - 1]

\* connect is called with the account's credentials, left of them after the
\* first one, and a handle of the prepared attempt.
Connecting(s, left, considered) ==
    [s EXCEPT !.at = "connect", !.left = left, !.considered = considered,
              !.stale = FALSE, !.refusal = "none"]

\* prepareAccount: an account without a credential is refreshed first.
PrepareAccount(b) ==
    /\ At(b, "account")
    /\ sock[b].plan.creds = 0 => Alive(b)
    /\ Put(b, Connecting(sock[b], IF sock[b].plan.creds = 2 THEN 1 ELSE 0, FALSE))
    /\ UNCHANGED <<lease, resv, gate, env, frames>>

\* The refresh fails, with the client gone for one: the account is recorded as
\* unavailable under the client's context.  If that fails too, Serve returns
\* both errors.
PrepareFails(b) ==
    /\ At(b, "account") /\ sock[b].plan.creds = 0 /\ (Fault("refresh") \/ ~Alive(b))
    /\ IF ~Alive(b) THEN Leave(b) /\ UNCHANGED lease
       ELSE /\ RecordUnavailable(b)
            /\ IF HasNext(b) THEN Put(b, Rotated(sock[b])) /\ UNCHANGED resv
               ELSE IF ~Portable(b) /\ sock[b].plan.reset # 0
               THEN Reply(b, Closed(sock[b])) /\ UNCHANGED resv
               ELSE Leave(b)
    /\ UNCHANGED <<gate, env, frames>>

\* codexReserveLimitError, from the check that opens connect or from the
\* dialer once the dispatch is marked.
ReserveLimit(b) ==
    LET s == sock[b]
        marked == At(b, "dialing")
    IN
    /\ Fault("reserve") /\ (marked \/ (At(b, "connect") /\ ~s.stale))
    /\ IF s.again
       THEN (IF marked THEN Cleanup(b) ELSE Abandon(b)) /\ Leave(b)
       ELSE IF ~Portable(b)
       THEN (IF marked THEN Commit(b, "failed", {}, lease.fate) ELSE Abandon(b)) /\ Leave(b)
       ELSE IF ~Alive(b) THEN UNCHANGED lease /\ Leave(b)
       ELSE /\ RecordUnavailable(b)
            /\ IF HasNext(b) THEN Put(b, Rotated(Closed(s))) /\ UNCHANGED resv
               ELSE IF CanReplan(b) THEN Put(b, Replanned(s)) /\ UNCHANGED resv
               ELSE Leave(b)
    /\ UNCHANGED <<gate, env, frames>>

-----------------------------------------------------------------------------
(* connect.                                                                *)

\* The open socket is the account's: the request is marked and sent on it.
Reuse(b) ==
    /\ At(b, "connect") /\ ~sock[b].stale /\ Alive(b)
    /\ sock[b].conn = sock[b].plan.accounts[sock[b].idx]
    /\ Commit(b, "dispatched", {"routing"}, "unsent")
    /\ Put(b, [sock[b] EXCEPT !.at = "upgraded"])
    /\ UNCHANGED <<resv, gate, env, frames>>

\* MarkDispatchedContext, and the dial.
MarkDispatched(b) ==
    /\ At(b, "connect") /\ Alive(b)
    /\ Commit(b, "dispatched", {"routing"}, "unsent")
    /\ Put(b, [Closed(sock[b]) EXCEPT !.at = "dialing", !.stale = TRUE])
    /\ UNCHANGED <<resv, gate, env, frames>>

\* It fails with the client gone: connect returns no lifecycle, and its caller
\* abandons the handle it had given to connect.
MarkFails(b) ==
    /\ At(b, "connect") /\ ~Alive(b)
    /\ Abandon(b) /\ Leave(b)
    /\ UNCHANGED <<gate, env, frames>>

Dialled(b) ==
    /\ At(b, "dialing") /\ Alive(b)
    /\ Put(b, [sock[b] EXCEPT !.at = "upgraded", !.conn = sock[b].plan.accounts[sock[b].idx]])
    /\ UNCHANGED <<lease, resv, gate, env, frames>>

\* The handshake is refused by the provider, or fails without a response.
DialRefused(b, refusal) ==
    /\ At(b, "dialing")
    /\ Put(b, [sock[b] EXCEPT !.at = "refused", !.refusal = refusal])
    /\ UNCHANGED <<lease, resv, gate, env, frames>>
DialFails(b) ==
    /\ At(b, "dialing")
    /\ Cleanup(b) /\ Leave(b)
    /\ UNCHANGED <<gate, env, frames>>

Slots(p) == p.creds + (IF p.refresh THEN 1 ELSE 0)

\* An authentication failure at the last credential: one refresh is tried.
RefreshRefused(b) ==
    /\ At(b, "refused") /\ sock[b].refusal = "auth"
    /\ sock[b].left = 0 /\ ~sock[b].considered
    /\ \/ sock[b].plan.refresh /\ Alive(b)
          /\ Put(b, [sock[b] EXCEPT !.considered = TRUE, !.left = 1])
       \/ (~sock[b].plan.refresh \/ ~Alive(b) \/ Fault("refresh"))
          /\ Put(b, [sock[b] EXCEPT !.considered = TRUE])
    /\ UNCHANGED <<lease, resv, gate, env, frames>>

\* RejectAndPrepare: the account's next slot, for the next credential.
CanRejectAndPrepare(b) == Alive(b) /\ sock[b].tries < Slots(sock[b].plan)
RejectAndPrepare(b) ==
    /\ At(b, "refused") /\ sock[b].refusal = "auth" /\ sock[b].left > 0
    /\ CanRejectAndPrepare(b)
    /\ Prepare(b)
    /\ Put(b, [sock[b] EXCEPT !.at = "connect", !.left = @ - 1, !.tries = @ + 1,
                              !.refusal = "none"])
    /\ UNCHANGED <<resv, gate, env, frames>>

\* connect returns a refusal that no credential of the account mends.
ConnectRefused(b) ==
    /\ At(b, "refused")
    /\ sock[b].refusal = "auth" =>
         /\ sock[b].left = 0 => sock[b].considered
         /\ sock[b].left > 0 => ~CanRejectAndPrepare(b)

\* finishHandshakeFailure: the next account, a new plan, a fresh start for the
\* client, or the refusal itself.  CompleteAccountUnavailableCycle and the
\* capacity and cyber ledgers are not part of the request.
FinishHandshakeFailure(b) ==
    LET s == sock[b] IN
    /\ ConnectRefused(b)
    /\ IF s.refusal = "other"
       THEN Commit(b, "failed", {}, lease.fate) /\ Reply(b, s) /\ UNCHANGED resv
       ELSE IF ~Alive(b) THEN Cleanup(b) /\ Leave(b)
       ELSE /\ RecordUnavailable(b)
            /\ UNCHANGED resv
            /\ IF HasNext(b) THEN Put(b, Rotated(s))
               ELSE IF /\ s.refusal = "quota" /\ lease.ever /\ CanReplan(b)
                       /\ Len(s.plan.accounts) = 1
               THEN Put(b, Replanned(s))
               ELSE Reply(b, s)
    /\ UNCHANGED <<gate, env, frames>>

-----------------------------------------------------------------------------
(* The request on the upstream socket.                                     *)

Admitted == lease.attempt = "streaming"
Doubt(b) == Cleanup(b) /\ Leave(b) /\ UNCHANGED <<gate, env, frames>>

\* A turn state in the response to a new handshake, or the first event of the
\* response, admits the request; with the client gone that cannot be recorded.
Admit(b) ==
    /\ \/ At(b, "upgraded") /\ sock[b].stale
       \/ At(b, "reading")
    /\ ~Admitted
    /\ IF Alive(b)
       THEN /\ lease' = [lease EXCEPT !.attempt = "streaming", !.refs = Refs, !.ever = TRUE]
            /\ UNCHANGED <<sock, resv, gate, env, frames>>
       ELSE Doubt(b)

\* The frame is written upstream; a failed write may have delivered it.
Send(b) ==
    /\ At(b, "upgraded") /\ Alive(b)
    /\ lease' = [lease EXCEPT !.fate = "sent"]
    /\ Put(b, [sock[b] EXCEPT !.at = "reading", !.open = @ + 1])
    /\ UNCHANGED <<resv, gate, env, frames>>
SendFails(b) == At(b, "upgraded") /\ Doubt(b)

\* Mutant: a silent provider counts as an unavailable account.
ReadFailsRotating(b) ==
    /\ At(b, "reading")
    /\ IF ~Admitted /\ HasNext(b) /\ Alive(b)
       THEN /\ Prepare(b) /\ Put(b, Rotated(Closed(sock[b])))
            /\ UNCHANGED <<resv, gate, env, frames>>
       ELSE Doubt(b)

\* Mutant: a read has no timeout and ends with the client alone.
ReadFailsUnbounded(b) == At(b, "reading") /\ ~Alive(b) /\ Doubt(b)

\* A read that fails or exceeds ResponseIdleTimeout, or an event out of order.
ReadFails(b) == At(b, "reading") /\ Doubt(b)

\* The provider closes with "message too big": a rejection if it comes first.
TooBig(b) ==
    /\ At(b, "reading") /\ ~Admitted
    /\ Commit(b, "failed", {}, "refused") /\ Leave(b)
    /\ UNCHANGED <<gate, env, frames>>

\* The response completes or fails: the outcome is recorded, and the observer
\* stays until the client has it.
Ends(b, attempt) ==
    /\ At(b, "reading") /\ Admitted /\ attempt \in {"completed", "failed"}
    /\ Commit(b, attempt, {"observer"}, "ended")
    /\ Put(b, [sock[b] EXCEPT !.at = "relaying"])
    /\ UNCHANGED <<resv, gate, env, frames>>

\* The last event is relayed and the request drained, and the socket stays
\* open; or the relay fails.
Relay(b) ==
    /\ At(b, "relaying") /\ Alive(b)
    /\ Commit(b, lease.attempt, {}, lease.fate)
    /\ Put(b, Done(sock[b]))
    /\ UNCHANGED <<resv, gate, env, frames>>
RelayFails(b) == At(b, "relaying") /\ (~Alive(b) \/ Fault("write")) /\ Doubt(b)

\* A usage limit or authentication error in an admitted response.
EndsUnavailable(b) ==
    /\ At(b, "reading") /\ Admitted
    /\ IF Alive(b)
       THEN /\ Commit(b, "unavailable", {}, "ended") /\ Reply(b, Closed(sock[b]))
            /\ UNCHANGED <<resv, gate, env, frames>>
       ELSE Doubt(b)

\* An error before admission: the provider did not run the request.
Refuse(b, refusal) ==
    /\ At(b, "reading") /\ ~Admitted
    /\ lease' = [lease EXCEPT !.fate = "refused"]
    /\ Put(b, [sock[b] EXCEPT !.at = "answered", !.refusal = refusal, !.open = @ - 1])
    /\ UNCHANGED <<resv, gate, env, frames>>

\* applicationAuthRetryAccount: a further credential of the account, or one
\* refreshed now, unless the one in use is not the plan's.  The retry takes
\* the account's next slot; without one the outcome is left in doubt.
AuthRetry(b) ==
    LET s == sock[b] IN
    /\ At(b, "answered") /\ s.refusal = "auth"
    /\ s.left > 0 \/ (s.plan.refresh /\ Alive(b))
    /\ IF CanRejectAndPrepare(b)
       THEN /\ Prepare(b)
            /\ Put(b, [Connecting(Closed(s), IF s.left > 0 THEN s.left - 1 ELSE 0, s.left = 0)
                         EXCEPT !.tries = @ + 1, !.again = TRUE])
            /\ UNCHANGED <<resv, gate, env, frames>>
       ELSE Doubt(b)

\* The refusal is final for the account: as after a refused handshake.
FinishRefused(b) ==
    LET s == sock[b] IN
    /\ At(b, "answered")
    /\ IF s.refusal = "other"
       THEN /\ Commit(b, "failed", {}, "refused") /\ Reply(b, Closed(s))
            /\ UNCHANGED <<resv, gate, env, frames>>
       ELSE IF ~Alive(b) THEN Doubt(b)
       ELSE /\ RecordUnavailable(b)
            /\ IF HasNext(b) THEN Put(b, Rotated(Closed(s)))
               ELSE IF /\ s.refusal = "quota" /\ lease.ever /\ CanReplan(b)
                       /\ Len(s.plan.accounts) = 1
               THEN Put(b, Replanned(s))
               ELSE Reply(b, Closed(s))
            /\ UNCHANGED <<resv, gate, env, frames>>

-----------------------------------------------------------------------------
(* Prewarm.                                                                *)

\* Mutant: a second reservation replaces the first.
CanReserveAlways(b) == TRUE

\* CodexPrewarmManager.Create refuses a lane that has a live reservation.
CanReserve(b) == resv.state \notin LiveReservations

StartPrewarm(b, p) ==
    /\ At(b, "start") /\ sock[b].kind = "warm" /\ Alive(b)
    /\ p \in env.plans /\ CanReserve(b)
    /\ resv' = [state |-> "creating", owner |-> b]
    /\ Put(b, [sock[b] EXCEPT !.at = "warmed", !.plan = p, !.idx = 1, !.warm = "creating"])
    /\ UNCHANGED <<lease, gate, env, frames>>

\* No plan, or the lane is already reserved.
PrewarmFails(b) ==
    /\ At(b, "start") /\ sock[b].kind = "warm"
    /\ Leave(b)
    /\ UNCHANGED <<lease, gate, env, frames>>

MoreAccounts(s) == s.idx < Len(s.plan.accounts)

\* The account's socket is open, or is opened with one of its credentials, and
\* the frame is sent.  The reservation outlives a socket closed for another.
WarmSend(b) ==
    /\ At(b, "warmed") /\ Alive(b)
    /\ Put(b, [sock[b] EXCEPT !.at = "warmReading",
                              !.conn = sock[b].plan.accounts[sock[b].idx]])
    /\ UNCHANGED <<lease, resv, gate, env, frames>>

\* A refresh fails, the handshake or the first event refuses: the next account,
\* or the refusal is relayed and the prewarm is over.
WarmRefused(b, refusal) ==
    LET s == sock[b]
        rotate == refusal # "other" /\ MoreAccounts(s) /\ s.warm = "creating"
    IN
    /\ s.at \in {"warmed", "warmReading"}
    /\ IF rotate
       THEN Put(b, [s EXCEPT !.at = "warmed", !.idx = @ + 1, !.conn = None]) /\ UNCHANGED resv
       ELSE Reply(b, Closed(s)) /\ CancelActive(b)
    /\ UNCHANGED <<lease, gate, env, frames>>

\* A refresh, a write or a read fails, or an event makes no sense.
WarmFails(b) ==
    /\ sock[b].at \in {"warmed", "warmReading"}
    /\ Leave(b)
    /\ UNCHANGED <<lease, gate, env, frames>>

\* PrewarmTimeout: the client is told and the session goes on.
WarmTimesOut(b) ==
    /\ At(b, "warmReading")
    /\ Reply(b, Closed(sock[b])) /\ CancelActive(b)
    /\ UNCHANGED <<lease, gate, env, frames>>

\* BindSockets at the first event of the response, Ready at its completion.
WarmBound(b) ==
    /\ At(b, "warmReading") /\ sock[b].warm = "creating" /\ resv.state = "creating" /\ Alive(b)
    /\ resv' = [resv EXCEPT !.state = "bound"]
    /\ Put(b, [sock[b] EXCEPT !.warm = "bound"])
    /\ UNCHANGED <<lease, gate, env, frames>>
WarmReady(b) ==
    /\ At(b, "warmReading") /\ sock[b].warm = "bound" /\ resv.state = "bound" /\ Alive(b)
    /\ resv' = [resv EXCEPT !.state = "ready"]
    /\ Put(b, Done([sock[b] EXCEPT !.warm = "ready"]))
    /\ UNCHANGED <<lease, gate, env, frames>>

-----------------------------------------------------------------------------
\* What the broker does by itself, within the timeouts of its reads and dials.
Step(b) ==
    \/ SessionEnds(b) \/ IdleClosed(b) \/ Redistribute(b) \/ StartRequest(b)
    \/ \E p \in env.plans : Build(b, p) \/ Adopt(b, p) \/ StartPrewarm(b, p)
    \/ PlanRefused(b) \/ PlanFails(b) \/ IdleClosedPlanned(b)
    \/ PrepareAccount(b) \/ PrepareFails(b) \/ ReserveLimit(b)
    \/ Reuse(b) \/ MarkDispatched(b) \/ MarkFails(b) \/ DialFails(b)
    \/ RefreshRefused(b) \/ RejectAndPrepare(b) \/ FinishHandshakeFailure(b)
    \/ Send(b) \/ SendFails(b) \/ ReadFails(b) \/ Relay(b) \/ RelayFails(b)
    \/ AuthRetry(b) \/ FinishRefused(b)
    \/ PrewarmFails(b) \/ WarmSend(b) \/ WarmFails(b) \/ WarmTimesOut(b)

\* What the provider answers, if it does.
Answer(b) ==
    \/ Dialled(b) \/ Admit(b) \/ TooBig(b) \/ EndsUnavailable(b)
    \/ \E attempt \in {"completed", "failed"} : Ends(b, attempt)
    \/ \E refusal \in Refusals :
         DialRefused(b, refusal) \/ Refuse(b, refusal) \/ WarmRefused(b, refusal)
    \/ WarmBound(b) \/ WarmReady(b)

Next ==
    \/ Pause \/ Resume
    \/ \E b \in Brokers :
         \/ Serve(b) \/ ClientGoes(b) \/ Step(b) \/ Answer(b)
         \/ \E kind \in env.kinds : Accept(b, kind)

Spec == Init /\ [][Next]_vars

\* A broker is a goroutine that nothing holds up but its reads, which time out.
LiveSpec == Spec /\ \A b \in Brokers : WF_vars(Step(b))

-----------------------------------------------------------------------------
(* Properties.                                                             *)

InFrame(b) == sock[b].at \notin {"new", "idle", "left"}

\* However often a frame is tried, on other credentials, other accounts and
\* other plans, at most one of the sends is one the provider ran or may run.
RunsOnce == \A b \in Brokers : sock[b].open <= 1

\* A request that was sent is settled when its broker is through with the
\* frame, by whatever exit: nothing of it is held, and it is in doubt unless
\* the provider has answered.
SentIsSettled ==
    lease.fate # "unsent" /\ ~InFrame(lease.owner) =>
      /\ lease.refs = {} /\ lease.attempt \in Terminal
      /\ lease.fate = "sent" => lease.attempt = "indeterminate"
      /\ lease.attempt = "completed" => lease.fate = "ended"

\* A broker that believes it holds the lane's prewarm does: nobody else has
\* reserved, adopted or cancelled it.
WarmIsHeld ==
    \A b \in Brokers :
      sock[b].warm # "none" => resv = [state |-> sock[b].warm, owner |-> b]

\* A session that saw the upgrade's pause ends, though its frame waits for
\* another session's request or for a silent provider, and though the upgrade
\* is called off: the supervisor's quiescence needs every one of them.
SessionsEnd == \A b \in Brokers : sock[b].told ~> At(b, "left")

\* "cleanupAfterBrokerExit releases every request reference after an abnormal
\* post-dispatch broker exit", and AbandonBeforeDispatch before it: a request
\* whose broker is through with it holds the lane no longer.
RequestReleased == lease.refs # {} => InFrame(lease.owner)

\* Every step of the brokers is one that LaneRequest allows: the lane's request is
\* its broker's, sent is what the provider has or may have run.
Verdict(attempt) ==
    IF attempt = "indeterminate" THEN "doubt"
    ELSE IF attempt \in Terminal THEN "settled" ELSE "none"
CallOf(fate) ==
    CASE fate = "unsent" -> "none"
      [] fate = "sent" -> "open"
      [] fate = "refused" -> "refused"
      [] fate = "ended" -> "answered"
Lane == INSTANCE LaneRequest WITH
    Users <- Brokers,
    user <- IF lease.refs = {} THEN None ELSE lease.owner,
    call <- CallOf(lease.fate),
    verdict <- Verdict(lease.attempt)
ImplementsLaneRequest == Lane!Spec
=============================================================================
