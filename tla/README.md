# TLA+ models of cq

cq keeps the credentials of several coding-agent accounts, proxies the agents'
requests to the account that should pay for them, and reports quota. This
directory models the parts of it where a mistake cannot be undone or stops the
proxy: the rotation of single-use refresh tokens, the life cycle of the
credential files it shares with the Codex CLI, the leases that keep a turn on
one account and run each request once, the WebSocket broker, the redemption of
banked resets, and the supervisor with its rescue mode and upgrades.

## 1. The system

| part | where (under `src/`) | state | operations | hard behaviour | what makes it correct |
|---|---|---|---|---|---|
| rotation transaction | `internal/credentials/rotation.go` | `Rotation` of one operation | `Rotate` over hooks Prepare, PersistAttempt, Exchange, PersistResult, Commit, Complete | resumed from any point, in the same process or another | the exchange is dispatched at most once; its outcome is not lost |
| Codex refresh broker | `internal/provider/codex/refresh_broker.go` | `refreshFlights`, `refreshRetained` | `Refresh`, `refreshOnce`, `retryRetainedLocked` | failed steps, retries, lost answers | no rotated token is presented again; a retained operation ends |
| authority stores | `refresh_mutation_store.go`, `credential_owner_store.go` | two chains (anchor, selected and terminal objects, receipt), a gate per chain, continuation, attempt and result files | select, terminalise, publish, recover | crash between any two files; file capacity | the chains open and close in order; restart resumes |
| credential coordinator | `credential_coordinator.go`, `projection_recovery.go` | `mu`, records, journal, catalogue | `SaveLogin`, `Adopt`, `Activate`, `RemoveManaged`, `RecoverCredentialState` | four files per call, the CLI writing one of them | no half-removed account |
| managed store, registry, journal, activator | `managed_store.go`, `registry.go`, `removal_journal.go`, `system_activator.go` | one file each | replace, upsert, remove, clear | error after the rename; check-then-act on `auth.json` | exact-revision changes |
| endpoint ownership | `credential_endpoint_*.go`, `credential_control*.go` | socket, owner record, maintenance journal | open, recover, hand over, RPC | two processes, stale sockets | one owner at a time |
| CodexBar renewal, Grok refresh | `codexbar_renewal.go`, `internal/provider/grok` | foreign files, encrypted store | renew, rotate | foreign writers | revision fences; at most one exchange |
| reset attempts and schedules | `reset_attempts.go`, `reset_schedule_store.go`, `internal/app/codex_reset_automation.go`, `codex_resets.go` | an attempt file per credit, the schedule with its revision, the executor lock | step, replan, claim, redeem by hand, edit | crash around a paid effect, lost answers, edits during a step | one uncertain redemption per account; a claim is not lost |
| primers and reserves | `internal/proxy/codex_primer*.go`, `codex_reserve*.go` | journals | reserve, prime, settle | crash around a request | at most one primer |
| turn leases | `internal/proxy/codex_lease_v2*.go`, `codex_turn_lease.go` | a lane row and a record per turn, with generations and references; the planning gate | begin, mark, admit, finish, drain, sweep, restore | concurrent requests, restarts, removal of accounts | one live request per lane; nothing sent is forgotten |
| request session | `codex_http_request_session.go`, `codex_http_response_observer.go` | the attempt over a frozen plan | dispatch, fail over, observe | clients that leave, transport errors | a request is accepted at most once |
| WebSocket broker | `codex_ws_broker.go`, `codex_ws_lifecycle.go`, `codex_prewarm.go` | upstream socket, current frame, prewarm reservation | serve, prewarm, adopt, connect, rotate, relay | two sessions of a lane, silent providers, exits everywhere | a frame runs once; the lane is let go |
| supervisor | `runtime_supervisor.go`, `runtime_worker.go`, `runtime_evidence.go`, `runtime_upgrade_controller.go` | mode and generation, worker, crash starts, mode evidence, receipt | boot, replace, enter and leave rescue, upgrade, roll back | goroutines that give up the mutex while they drain | one owner of the state; it keeps serving |
| upgrade across processes | `cmd/cq/proxy_upgrade_darwin.go`, `runtime_upgrade_guard_darwin.go` | receipt, guard process, control socket, listener | exec, verify, commit, return, recover | death of any process at any point | the listener is kept; a handoff ends |
| policy and operation stores | `routing_policy_store.go`, `operation_coordinator_store.go`, `candidate_broker*.go` | revisions, fences | publish, select, release | concurrent writers | revisions move forward |
| secure filesystem, installer, harness, dots | `internal/fsutil`, `internal/installer`, `internal/harness`, `internal/dots` | files, locks, receipts | replace, install, activate | crash, power loss | old or new, never neither |
| aggregation, output, commands, translation | `internal/aggregate`, `internal/output`, `cmd/cq`, `internal/proxy/translate*.go` | none that lasts | pure functions, rendering | boundaries | agreement with a reference definition |

Interaction. The proxy asks the credential endpoint (RPC on a Unix socket, one
owner process) for a credential; the owner's `CredentialCoordinator` serves every
mutating call under one mutex. A refresh goes through the broker to `Rotate`,
whose hooks write the authority stores and the managed record and call the token
endpoint. Login, adoption, activation and removal write the managed records, the
catalogue `registry.json`, the journal `codex_removal.json` and
`~/.codex/auth.json`, which the Codex CLI writes as well, without any lock.
Every mutating call first finishes a journalled removal.

A client's request reaches the proxy worker through the listener that the
supervisor owns and pauses for an upgrade. The worker plans it (accounts in
order, credentials per account), takes a lease of its lane and tries the
credentials one at a time, over HTTP or over the WebSocket broker's upstream
socket; the journal of leases outlives the worker. The same worker steps the
reset schedule, which `cq` commands edit and manual redemptions share. The
supervisor boots workers, replaces those that exit, refuses ordinary traffic in
rescue mode, and hands listener and state to another image of itself.

At this commit `NewCredentialCoordinatorWithAuthority` is exercised by tests and
has no caller in `cmd/cq`; the default coordinator has no authority stores and
`refreshOnce` stops at "mutation authority unavailable". The refresh model is of
the code as it runs with those stores.

## 2. Modules

| module | models | proved in |
|---|---|---|
| `AtMostOnceEffect` | what `Rotation` promises of an external effect: intent, effect, outcome | |
| `LaneRequest` | what lease and broker promise of a lane's request: sent again only after a refusal, a verdict, and then the next | |
| `CredentialRefresh` | the refresh: `Rotate`, the broker, both stores, and the login, activation, removal and restart that interfere with it | `CredentialRefreshProofs`, `CredentialOutcomeProofs` |
| `CredentialRemoval` | removal, login, adoption and activation over records, `auth.json`, catalogue and journal | `CredentialRemovalProofs` |
| `TurnLease` | the durable lease of a turn, its fences, restart and retention, and the HTTP session that drives it | `TurnLeaseProofs` |
| `WebSocketBroker` | sessions, frames, prewarms and upstream sockets over the lane's request | `WebSocketBrokerProofs` |
| `ResetAutomation` | attempt journal, schedule, schedulers, users and editor, and the redeeming service | `ResetAutomationProofs` |
| `RuntimeSupervisor` | workers, rescue mode, request admission and the upgrade inside the process | `RuntimeSupervisorProofs` |
| `RuntimeUpgrade` | the same upgrade across processes: exec, guard, receipt, restart | `RuntimeUpgradeProofs` |
| `MC...` | the instances TLC checks: plans, limits and environments, symmetry | |

`WebSocketBroker` uses the lease reduced to the current request of the lane,
which `TurnLease` models in full; what the two have to agree on is `LaneRequest`,
and both are shown to implement it. `RuntimeUpgrade` takes the drain that
`RuntimeSupervisor` models as one step. Several modules choose an environment
(or limits) in `Init` from a constant set: what may go wrong in that behaviour,
and how often. One run so covers several scenarios, each with all the detail it
needs, without the product of all of them.

### CredentialRefresh

`rec` is the managed record (credential, ownership, operation state and id),
`auth` the refresh token in `auth.json`, `mut` and `cmt` the anchors of the
refresh-mutation and commit chains, `cont` and `result` the continuation and
attempt/result files. Volatile: `retained` is `refreshRetained` (a
`retainedRefresh` per candidate), `mutGate` and `cmtGate` say that a chain's
`release` is set, `mutSeen` and `cmtSeen` are the anchors the two chains hold in
memory, `pc` is where the call that holds `mu` stands, `local` is
`Rotation.MaterialCommitted`. `sent`, `presented`, `spent` and `applied` are
history that only properties read.

Each durable write is an action of its own, named after the function that makes
it: `SelectRefreshMutation`, `PublishContinuation` and `PublishCommit` (the two
halves of `PublishCommit`), `MarkRefreshing`, `PersistAttempt`, `Exchange` and
`ExchangeReturns`, `PersistResult`, `CommitRecord`,
`RestoreRotationUncertain`, `PublishReceipt`, `CompleteRefreshMutation`.
`AfterPrepare` is the body of `Rotate`: which step comes first for a given
retained state. `RetryRetained`, `SuspendShared` and `BeginRefresh` are the three
ways into `refreshOnce` that change state. A storage step may fail before its
effect (`StepFails`), be refused by what the store finds (`StepRefused`), succeed,
or take effect and report an error. A chain answers from memory as long as it
holds its gate, and replaces only the anchor it remembers; the error of a
terminalisation therefore has two forms (`Outcomes`): the gate could not be
released, and the retry finds the terminal anchor (`Recorded`), or the anchor was
renamed into place and not acknowledged, and every retry is refused until a
restart reads it. `Crash` clears everything volatile at any
point and `Restart` is `NewCredentialCoordinatorWithAuthority` with
`RecoverRefresh` and `hydrateCredentialRefresh`, or `RestartRefused` when that
returns an error.

Abstractions. A credential is a pair of numbers, refresh token and access token.
The digests that tie reservation, lease and continuation together are the
operation identity. The token endpoint is external: it rotates a valid token,
keeps it, or rejects it, and always rejects one it rotated away; the answer may
be lost. Revisions are left out, as the caller presents the current one or
leaves without effect. `RemoveManaged` is one step here, since
`CredentialRemoval` is about its inside. The Codex CLI's own use of a refresh
token is not counted in `spent`: it happens outside any guarantee cq can give.

### CredentialRemoval

`rec`, `auth`, `rows`/`proj` and `journal` are the four files, with revisions as
fresh numbers; `plan` is the `RemovalPlan` being built, `op` the arguments of the
running call, `at` its location, `open` whether the owner has recovered.
`SaveLogin` is login; `BeginAdopt`, `CheckSnapshot`, `Adopt` and `UpsertAccount`
are adoption, and continue with `CommitActivation`, `WriteSystemAuth`,
`ProjectActive` and `CommitActivated` when they are the start of an activation;
`BeginRemove`, `PlanActive` and `SaveJournal` are `RemoveManaged`;
`DeleteRecord`, `DeletesDone`, `CheckSystem`, `Deactivate`, `RemoveAuth`,
`Unproject`, `RemoveRows` and `ClearJournal` are `resumeRemoval`; `Recover` is
the rest of `RecoverCredentialState`. Every read of `auth.json` that a decision
depends on is a step of its own, because `CLIWrites` and `CLILogsOut` come
between any two of them. Steps fail before (`StepFails`) or after their effect
(the second alternative of `Then`), and `Crash` closes the owner.

Abstractions. An account stands for both its account key and its record key.
The caller of `RemoveManaged` names the revisions the inventory shows; other
callers are turned away without effect. Version-0 records and
`MigrateLegacyManaged` are left out. Only cq writes `registry.json`.

### TurnLease

`lane` and `rec` are the journal: the lane row and a record per turn with state,
attempt, references, frozen plan and turn state. `gate` is the planning gate,
`caller` the goroutine of a client request. A commit is fenced by the record
generation; as generations are compared for equality only, `holder` says whose
commit the current one stems from. `calls` is what reached a provider and its
fate; `held` the turn state a client has latched.

`AcquirePlanning`, `Plan` and `BeginRequest`'s parts, `MarkDispatched`, the
answers of the provider, `Rejected` with its next credential or account,
`Unavailable`, `Admitted`, the observer's end and `Drain` are the steps of a
caller; `StreamUnavailable` is the one that only the WebSocket broker takes, an
admitted response that ends with a usage limit or a rejected authentication;
`Restart` normalises the journal as the loader does, `Sweep` is retention, and
clients leave and accounts are removed at any point.

Abstractions. A plan is any member of a constant set: how the planner ranks
accounts is left out. Not modelled: prewarm adoption (in `WebSocketBroker`),
redistribution and affinity, ingress claims of rotated turn states,
previous-response anchors, pre-turn compaction, migration of old journals.

### WebSocketBroker

`sock` is what each broker (the goroutine of `Serve`) knows: the frame, its plan
and account, the credentials left, the upstream socket and the prewarm it
believes it holds, whether its client is gone and whether the upgrade told it to
end. `lease` is the current request of the lane with its references and what the
provider made of it, `resv` the lane's reservation in `CodexPrewarmManager`,
`gate` the `RuntimeUpgradeAdmission`.

The actions follow the call tree: `Serve`, `Accept` and `SessionEnds`;
`IdleClosed`, `Redistribute`, `Build`, `Adopt`, `PlanRefused` and `PlanFails` of
`serveFrameReserveAttempt`; `PrepareAccount`, `ReserveLimit`; `Reuse`,
`MarkDispatched`, `DialRefused`, `RefreshRefused` and `RejectAndPrepare` of
`connect`; `Send`, `Admit`, `Ends`, `Relay`, `Refuse`, `AuthRetry` and
`FinishRefused` of `readUpstreamRequest`; and `StartPrewarm`, `WarmSend`,
`WarmBound` and `WarmReady`. A change of the lease needs the client's context,
except where the code removes the cancellation: `Alive` in a guard is that. `stale`
says that `connect` has committed past the handle of its caller.

Abstractions. Two prewarms of a lane may carry the same correlation (it is a
digest of the frame), the worst case. A frame that is not portable may get any
plan, which is more than the planner offers. The drain channel acts like the
upgrade signal and is not separate. `open` counts sends that the provider ran or
may still run. Not modelled: the capacity and cyber ledgers,
`CompleteAccountUnavailableCycle`, traces, HTTP requests at the gate,
`Disconnect`, `Restore` and `ReplaceCorrelation` of the prewarm manager.

### ResetAutomation

`stored` is the schedule file, `attempts` the attempt file of each credit (none,
torn, whole), `executor` the lock, `proc` where each scheduler or user stands,
`edit` a prepared change. The revision is compared for equality only, so `fresh`
is the set of readers whose copy is still the stored one. `wire`, `redeemed` and
`open` are the service. `Load`, `CleanLoaded`, `AcquireExecutor`, `CleanLocked`,
`Replan`, `Pick`, `Rebuild`, `Rewrite`, `Preflight` and `Claim` are
`StepSchedule`; `Use`, `Write`, `Post`, `NoAnswer`, `Record`, `RemoveAttempt` and
`Warn` the redemption, shared with manual use; `PrepareSchedule` and
`ApplySchedule` the commands. A cleanup goes from entry to entry (`CleanEntry`,
with `entry` as its cursor) and reads the journal for each; `Ensured` and
`EnsureFails` are the end of `Ensure`, which on an error may leave no file, a torn
one or the whole one. Time runs from 0 to `MaxNow`; a backoff and a due replan are
flags, and those of any set of entries may end in a step. Not modelled: what the
forecast says (any times), the redistribution of turns after a reset, wording,
heartbeat and status.

### RuntimeSupervisor

`mode`, `gen`, `own`, `crashes`, `flags` are the supervisor's fields, `disk` and
`current` the mode evidence on disk and as the store believes it, `proc` the
worker processes, `run` the goroutine of each mode generation, `req` the client
requests, `upg` the upgrade's goroutine, `phase` its receipt. A step is one
section under the mutex; `EnterRescue`, `ExitRescue`, `RunStep`,
`replaceFailedWorker`, `Begin` and `UpgradeStep` interleave at each place where
the code lets go of it. `ProcessLost` loses everything but the two files. Not
modelled: `ReplaceWorker` (only tests call it), panics inside `run`, the refresh
of caller authority, the worker's control protocol.

### RuntimeUpgrade

`receipt` is `runtime-upgrade.json`, `sup` the launchd job's process with its
image, `workers` the live workers, orphans included, `guard` the guard process,
`link`, `toGuard`, `toSup` the control socket. The exec keeps the pid and changes
the image; the resumed image commits, or returns to the previous one; a killed
supervisor is started from the receipt and asks the guard for the listener.
Not modelled: retirement of a guard at uninstall, a worker's own exit, the reuse
of a pid while somebody names it, verification of the artefact beyond a failing
exec, pruning of retained executables.

## 3. Runs

| run | cfg | result | shows |
|---|---|---|---|
| `refresh` | `CredentialRefresh.cfg` | holds, about 2.0 million states | the safety of the refresh |
| `refresh_live` | `RefreshLive.cfg` | holds, about 167,000 states | a retained refresh ends |
| `removal` | `CredentialRemoval.cfg` | holds, about 600,000 states | no half-removed account, and a removal completes |
| `lease` | `TurnLease.cfg` | holds, about 1.3 million states | the safety of the lease |
| `lease_live` | `LeaseLive.cfg` | holds | a caller at the planning gate proceeds |
| `websocket` | `WebSocket.cfg` | holds, about 340,000 states | safety of the broker, and its sessions end |
| `websocket_orphan` | `WebSocketOrphan.cfg` | `RequestReleased` violated | a client that leaves between two credentials keeps the lane |
| `resets` | `Resets.cfg` | holds, about 2.9 million states | the safety of redemption and schedule |
| `resets_live` | `ResetsLive.cfg` | holds, about 13,000 states | a due entry comes to an outcome |
| `supervisor` | `Supervisor.cfg` | holds, about 3.6 million states | the safety of workers, rescue and upgrade |
| `supervisor_live` | `SupervisorLive.cfg` | holds, about 47,000 states | drains end, the supervisor keeps serving |
| `upgrade` | `Upgrade.cfg` | holds, about 110,000 states | the upgrade across processes, safety and liveness |

What they check. Refresh: `ExchangeAtMostOnce` (no exchange is dispatched twice),
`NoReplay` (a rotated token is never presented again), `ChainOrder` (the mutation
chain opens before and closes after the commit chain), `OutcomeNotDropped` (a
durable result reaches the record or stays selected), `ImplementsAtMostOnce`
(refinement of `AtMostOnceEffect`), `RetainedSettles`. Removal:
`CatalogueBacked`, `PlanCurrent`, `ClearedIsRemoved`, `RemovalCompletes`. Lease:
`OneLiveRequest`, `AcceptedOnce` (at most one attempt of a request is accepted or
may be), `SentIsRemembered`, `TokenStaysHome` (a turn state reaches only the
account that issued it), `EveryCallerProceeds`. Broker: `RunsOnce` (of all the
sends of a frame at most one is run), `SentIsSettled` (whatever exit is taken),
`WarmIsHeld` (who believes to hold the prewarm does), `SessionsEnd`. Resets:
`OneInDoubt`, `SentIsClaimed`, `ClaimKept`, `DueSettles`. Supervisor: `OneOwner`,
`RetryNotSwallowed`, `RescueDrained`, `HandoffIsQuiet`, `DrainsEnd`,
`KeepsServing`. Upgrade: `SoleOwner`, `ServesSelected`, `ListenerRetained`,
`HandoffsEnd`.

### Where code and documents disagree

Each of these states what a comment, a document or a test says of the code and is
violated; PROJECT.json quotes the line under "findings". `websocket_orphan` is
one of the listed runs, the others are run by hand with the named cfg.

| cfg | violated | because |
|---|---|---|
| `WebSocketOrphan.cfg` | `RequestReleased` | the handle that is abandoned is a generation behind |
| `RefreshGate.cfg` | `GateRetained` | a second candidate's refresh releases the gate |
| `RefreshStranded.cfg` | `PersistenceRetryable` | a terminal anchor that is durable but not acknowledged refuses every retry |
| `RefreshRestart.cfg` | `RestartOpens` | from the second operation on, a crash can make the constructor fail for good |
| `RefreshExported.cfg` | `ExportedIsReadOnly` | a retained operation exchanges an exported lineage's token |
| `RefreshLogin.cfg` | `FreshLoginSupersedes` | old material replaces a fresh login |
| `RemovalWedged.cfg` | `RemovalRecoverable` | a CLI rotation blocks a planned removal, and with it every other call |
| `RemovalUnrelated.cfg` | `UnrelatedSystemKept` | another account's `auth.json` is planned and deleted |
| `RemovalDeactivate.cfg` | `DeactivateExact` | check and removal of `auth.json` are not atomic |
| `LeaseGone.cfg` | `EveryCallerProceeds` | a client leaves while its account is recorded as unavailable |
| `LeaseInDoubt.cfg` | `EveryCallerProceeds` | a failover in doubt leaves a record nobody may begin |
| `LeaseUnpinned.cfg` | `DoubtPins` | an abandoned request hides the uncertain one before it |
| `SupervisorUnwatched.cfg` | `GoneWorkerIsWatched` | a worker booted in a failed `ExitRescue` loses its monitor |
| `SupervisorChain.cfg` | `ChainIntact` | a failed activation leaves the store ahead of the supervisor |
| `SupervisorStartup.cfg` | `KeepsServing` | a restart in `rescue_exit_draining` needs a worker that boots |
| `SupervisorPaused.cfg` | `IngressReopens` | a worker that dies in the drain leaves the listener paused |
| `SupervisorRunner.cfg` | `TransactionHasRunner` | a failed save ends the transaction's goroutine |
| `SupervisorRelease.cfg` | `ReleaseKept` | a rollback whose launch fails drops the release proof |
| `ResetsStale.cfg` | `OneInDoubt` | an old outcome removes a new attempt |
| `ResetsSkipped.cfg` | `ClaimKept` | a cleanup before the lock removes the rebuilt attempt of a claim, and full windows then skip the entry |
| `ResetsTorn.cfg` | `DueSettles` | an empty attempt file stops the schedule |
| `ResetsPlan.cfg` | `ClaimsFreshPlan` | the clock is read twice in one step |

Three more concern `RuntimeUpgrade` and are met in `Upgrade.cfg` as soon as the
condition `Guarded` is dropped from `ListenerRetained` or `HandoffsEnd`: a
supervisor killed between the stop of its worker and the guard's readiness, the
loss of the guard alone, and a guard that answers a successor which just died.

These violations are also why some properties that hold carry an exception:
`RetainedSettles` for a refused restart and for an unacknowledged terminal anchor
(and its one candidate, since a second one releases the gate of the first, or
selects its own operation before the first has retried), `RemovalCompletes` for a
stale revision, the `Guarded` of the upgrade, the quiet limits of `lease_live`,
and the environments of `websocket`, in which two sessions meet a client that
leaves only over accounts with a single credential. `OneInDoubt` and `ClaimKept` hold in
`resets` because no credit there is used again after it settled with
`nothing_to_reset`. Both are proved for every service that never gives that
answer, and so is what remains of `ClaimKept` when it does (section 4).

### Bounds

Refresh: two candidates let one refresh meet another's chain; two operations are
the least at which a chain holds a predecessor, which is where recovery behaves
differently; four tokens allow two logins and two rotations; two faults allow a
failure inside the recovery from a failure (three in the liveness run, with one
candidate); two activations, removals or CLI rewrites let the CLI take over an
`auth.json` that an activation wrote. Removal: two accounts and two records let
one account hold both records, or each account one; five revisions allow login,
activation (two commits and a write of `auth.json`) and a CLI write or a further
login.

Lease: two turns and callers that fail over between two accounts, with a restart
and a sweep or with a client that leaves; three requests of one turn, so that a
request meets the remains of two, with probes or with a restart between them; two
requests over every kind of plan, with a client that leaves, an account that is
removed and a restart. Broker: two sessions and three frames, so that a client
leaves, returns and prewarms again; two sessions waiting for each other under a
pause; two with refreshes and reserves; one under every fault and plan. Resets:
two credits of one account, one of which expires; one or two entries; a crash; a
scheduler with a user, an adaptive schedule under every edit, two schedulers of
which one dies or cannot read. Supervisor: three workers (two may linger beside a
third), one request, a crash limit of one (so that it is reached), four mode
generations, since the goroutine of one has to meet the next but one. Upgrade: two
upgrades, three crashes, five pids; a process starts with a pid that neither the
receipt nor a worker names, so pids are reused once nobody names them.

Candidates, turns, accounts and callers are symmetric where only invariants and
action properties are checked; runs with liveness use no symmetry. Deadlock is
checked for the supervisor and the resets; elsewhere a system that has used up
its bounds, or has nothing to do, rests.

### Fairness

Refresh and removal: the holder of `mu` keeps running (`WF` on the steps of a
call: Go schedules a runnable goroutine and every step returns), a dead process
is started again (`WF` on restart and recovery: the supervisor does so), and
callers come back (`WF` on `RetryRetained` and `Resume`). Lease: a caller keeps
running and a round trip ends (it has a timeout); `SF` on `AcquirePlanning`,
since the gate is a channel, which serves its waiters in order. Broker: `WF` on
`Step(b)` alone, what the goroutine does by itself; its reads and dials end by
`ResponseIdleTimeout` and `PrewarmTimeout`, and a provider owes no answer.
Responses are finite. Resets: schedulers and executions go on, time passes, a
delivery that can be answered is in the end (`SF`: lost answers are retried under
the same identity), the minute of a backoff ends (`SF` for each entry, since in
the model it waits while another entry is ready) and outlasts the five-second
steps for entries that are ready. Supervisor: launchd restarts the process and does not
kill it in every start (`SF` on `Startup`), goroutines run, requests end; nothing
is assumed of operators, workers or boots. Upgrade: each process goes on, orphans
exit, the guard's five minutes end, and a refused recovery is repeated until it is
served (`SF`). Nothing is assumed of faults, the CLI, logins or clients.

## 4. Proofs

Eight modules are checked by TLAPS. Their results hold for any number of
candidates, accounts, callers, brokers, credits, workers and faults, from the
named assumptions of the specifications alone:

- bounds and limits are natural numbers, and environments are within their types;
- `None` (and `NoPid`, `Editor`) is no account, caller, worker or pid;
- `PlanAssumption`: a plan has a slot, and its ordinary slots are the first ones;
- `IsFiniteSet(Requests)` and `IsFiniteSet(Credits)`: a counter of requests in
  flight, and a list made of a set of credits, mean something for finite sets only;
- for the broker, that a plan without a credential left can be refreshed.

Each module states an inductive invariant, which TLC has checked on the instances
of section 3 too, and proves `Init => IndInv`, one lemma per action for its
preservation, and from it the properties.

`CredentialRefreshProofs`. `ExchangeAtMostOnce` is not inductive: a state in
which an operation has been dispatched, its attempt file is durable and its
retained entry says the attempt is not persisted would dispatch again. `IndInv`
adds that at most one call is inside (`OneHolder`), that identities not yet
issued have left no trace (`IdentitiesFresh`), that no two candidates retain the
same operation (`RetainedDistinct`), that a dispatched exchange is covered by an
attempt or result file (`FileCoversExchange`) and by the retained entry
(`RetainedCovers`: attempted with a result, waiting, or indeterminate), and what
each location says of the retained entry (`Located`). From it follow
`TypeCorrect`, `ExchangeOnce` and `RefreshImplements`, the step simulation for
the refinement mapping that takes the result file for the intent and then the
outcome.

`CredentialOutcomeProofs` adds three layers to that invariant. `Chains`: up to
the write of the record the operation of a call is the selected one, and an
operation that is retained without being selected has its answer on file; with
`Seen`, that a terminal anchor the commit chain has in memory is the stored one as
long as its operation is selected, this gives `ChainsInOrder`. `Minted`: the code
recognises a committed answer by comparing material, which is sound because the
access token of an answer occurs nowhere else until the answer is applied; this
gives `OutcomeKept`. `Lineage`: a
refresh token belongs to one candidate, and a record that holds a spent one is
claimed by an operation whose answer is still to come, so that nobody presents
it; this gives `NoTokenReplayed`.

`CredentialRemovalProofs`. `CatalogueBacked` and `PlanCurrent` hold because no
call that changes records runs while a plan is journalled, and because each
location of `resumeRemoval` implies what is already gone. `Inv` states this as
`Shapes` (an absent file is only ever represented by the absent value),
`Issued`, `Journalled`, `Arguments` and `Progress`. From it follow
`RemovalTypeCorrect`, `CatalogueIsBacked`, `PlanStaysCurrent` and, with the lemma
that only `ClearJournal` drops a journalled plan, `ClearedMeansRemoved`.

`TurnLeaseProofs`. All four properties rest on the fence. `Holds`: a caller past
`BeginRequest` made the last commit of its record, its turn is the lane's current
one, and the record keeps a reference, which neither a successor, another
request nor retention gets past; two callers cannot both be there
(`OneRequestLives`). `Tried`: the calls of a request are those of the slots tried
so far, each of them rejected but perhaps the last, and the slot only grows
(`AcceptedAtMostOnce`, with `Sent`, which keeps it for requests that are over).
`Bound`: a turn state restricts the plan to the account that issued it
(`TokensStayHome`). `Asks`, `Unbegun`, `Kept` and `LaneHead` say that identities
are not reused and that record and lane agree, which `SentStaysRemembered` needs
too.

`LeaseImplementsLane` maps the lease to `LaneRequest`: the user is the lane's last
turn while that turn's record keeps a reference, the call is what the provider
made of the record's current attempt, the verdict is read off the attempt's state.
That every step maps to a step or a stutter needs a second invariant, `Lent`
(`LaneIsLent`): a record that keeps a reference is the last turn's and has a
request; an attempt on record as prepared has no call; a caller that reads a
response has had its call accepted. A restart, a sweep and a removed account are
steps of `LaneRequest` like the caller's own: they conclude in doubt, forget, or
conclude a request that was not sent.

`WebSocketBrokerProofs`. `SocketOK`: a send is open exactly while the broker
reads or relays its answer, so a next send finds none open (`FrameRunsOnce`).
`Held`: each place at which the lane's request is a broker's fixes the state of
the lease there, its references and what the provider made of it; a request that
was sent and whose broker is elsewhere is settled (`SentRequestIsSettled`). That
only one broker is at such a place (`LaneIsExclusive`) follows, since the lane is
free only without references. `WarmIsHeld` is inductive beside these
(`PrewarmIsHeld`). The same invariant carries `BrokersImplementLane`: the user is
the broker while the lease keeps a reference, which also covers the orphaned lease
of `WebSocketOrphan.cfg`, as `LaneRequest` promises no release. Both refinements
were also model-checked on the instances of `websocket` and `lease`, with
`ImplementsLaneRequest` as a PROPERTY.

`ResetAutomationProofs`. A claim has to survive until its request is answered,
while others read and write the schedule. `Locks`: whoever is past the cleanup
holds the executor lock. `Copies`: entries are never removed, and a copy whose
revision is still the stored one is the stored schedule. `Edits`: a prepared edit
that would be saved keeps every claim. `Claims` and `Chosen`: the entry in
execution is in the schedule and runs. This gives `SentStaysClaimed`.
`ClaimsLeftWithOutcome` is `ClaimKept` under the one condition it needs: that a
preflight of a claimed entry finds the attempt which its step has seen or rebuilt
(`AttemptKept`). Without the condition it fails, by the first cleanup of another
process (`ResetsSkipped.cfg`); the attempt to prove it found that case.

The rest is about the attempt files, for a service that never answers
`nothing_to_reset` (`NeverNothing`). That answer is the one outcome after which a
credit may be used again, and with it an old outcome can remove a new attempt;
every other outcome uses the credit up, so an outcome in the schedule is final
(`Extends`, `Revises`: what an edit or a step may change in a schedule). The second
invariant, `Clear`, says this for every copy and edit (`Ledger`), says where a
credit's attempt must be on disk and that it is the only one of its account
(`Journal`), what a loaded schedule and a cleanup may still believe (`Reads`), and
what whoever stands at a redemption, an attempt or an answer has in hand (`Works`,
`Attempts`, `Answers`). `JournalInvariant` is its preservation; `OneRequestInDoubt`
and `ClaimsKept` are the two properties, the latter through `AttemptKept`, which
holds then at every step.

`RuntimeSupervisorProofs`. `AliveIsOwned` and `ReapedIsGone`: a live worker is
the supervisor's own, so who boots the next one has reaped it (`OneWorkerAlive`).
`ZeroIsZero`: the closed channel of the exit in progress means that no rescue
request is left (`NormalIsDrained`; a channel of an earlier generation says
nothing). `UpgradeOwns` and `UpgradeWaits`: what the upgrade's goroutine has
closed and waited for at each place, which makes the reap before a handoff quiet
(`ReapIsQuiet`, an action property). `QuietUnlessServing` covers a lost process;
`RetryIsServed` needs all of them, since the worker is replaced by whoever meets
its exit.

`RuntimeUpgradeProofs`. `NoWorkerThere` and `WorkersAreOwn`: where the supervisor
has no worker, and that the workers of a pid run its image (`OwnerIsSole`).
`PhaseThere` and `ImageThere`: phase of the receipt and image at each place
(`SelectedServes`). `Protocol`: as long as an unfinished handoff is `Guarded`, the
frames on the wire and the guard's belief at each place; an answer to a
predecessor is never read by a successor, so the guard keeps the listener
(`ListenerIsRetained`). `RecoveryAlone` and `PidIsUp` carry these through a
restart. The model lets no new supervisor have a pid that the receipt or a
worker's parentage still names, and the proof needs that: the code tells
processes apart by pid, so such a reuse is outside of what is shown.

Only model-checked. Every liveness property (`RetainedSettles`,
`RemovalCompletes`, `EveryCallerProceeds`, `SessionsEnd`, `DueSettles`,
`DrainsEnd`, `KeepsServing`, `HandoffsEnd`), since the proof system does not treat
fairness. `OneInDoubt` and `ClaimKept` are proved under
`NeverNothing` and false without it (`ResetsStale.cfg`, `ResetsSkipped.cfg`).

## 5. Not modelled, and the plan

PROJECT.json lists every component with its status. What comes next:

1. Proofs: the refinement that item 2 states; `OneInDoubt` for credits that are
   not scheduled again after `nothing_to_reset`, a weaker condition than
   `NeverNothing`.
2. `AuthorityChain`: objects, anchors, receipts and gate of one
   `credentialAuthorityChain`, with torn publications and the file capacity,
   shown to implement the atomic chain `CredentialRefresh` uses. Every operation
   leaves files there that nothing prunes, up to a fixed count.
3. A composition of `WebSocketBroker` with `TurnLease` itself, in place of the
   reduced request; that both implement `LaneRequest` is the first step.
4. Routing policy and operation coordinator stores; primers and reserves.
5. CodexBar renewal, Grok refresh (the second adapter of `Rotate`), single-flight
   callers and endpoint ownership, composed with `CredentialRefresh`.
6. Secure filesystem with a page cache (`registry.json` is replaced without a
   sync while the journal's removal is synced), installer, harness.

Known and not expressed by a property: a reservation that is ready when its idle
upstream closes is forgotten by `closeCodexWSActiveUpstream` and not cancelled
(`codex_ws_broker.go` 854-870), so further prewarms of the lane fail until the
worker restarts; the model takes this path (`IdleClosed`), and no document
promises that a prewarm succeeds. A crash between `reserveUnseen` and
`BeginRequest` makes a turn stale for good. A boot in `ExitRescue` whose release is
unproven has to wait for a restart.

Wire-format translation, rendering, argument parsing, platform probes and
acceptance tooling stay out: their substance is in bytes or in the operating
system, which these models abstract away. The map covers a small share of the
repository's lines for that reason: most of them are such code, and most of the
rest are in the components named above that are still to be modelled.
