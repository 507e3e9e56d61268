-------------------------- MODULE CredentialRefresh --------------------------
(***************************************************************************)
(* The rotating-token refresh of CQ-managed Codex credentials:             *)
(*   internal/credentials/rotation.go            the shared transaction    *)
(*   internal/provider/codex/refresh_broker.go   its Codex adapter         *)
(*   .../codex/refresh_mutation_store.go         reservation chain         *)
(*   .../codex/credential_owner_store.go         commit chain, result file *)
(*   .../codex/credential_coordinator.go         login, activation, removal*)
(*                                                                         *)
(* Everything the coordinator does runs under CredentialCoordinator.mu, so *)
(* at most one candidate is inside an operation; what interleaves with it  *)
(* is the token endpoint, the Codex CLI that also owns auth.json, failing  *)
(* storage and the death of the process between any two durable writes.    *)
(* A storage step either has no effect (StepFails), succeeds, or takes     *)
(* effect and still reports an error (ok = FALSE in the step's action).    *)
(***************************************************************************)
EXTENDS Integers, FiniteSets

CONSTANTS Candidates,      \* CandidateIDs the login flow may create
          MaxOps,          \* bound on refresh operation identities
          MaxTok,          \* bound on tokens the provider mints
          MaxFaults,       \* bound on failures, lost answers and crashes
          MaxActs          \* bound on activations, removals and CLI rotations

ASSUME BoundsAssumption ==
    /\ MaxOps \in Nat /\ MaxTok \in Nat /\ MaxFaults \in Nat /\ MaxActs \in Nat

Ops == 1..MaxOps
NoOp == 0
Tokens == 0..MaxTok
NoTok == 0

\* CredentialMaterial: the refresh token, and a number for the access token.
Material == [rt : Tokens, at : Tokens]
NoMaterial == [rt |-> NoTok, at |-> NoTok]

OperationStates == {"absent", "ready", "refreshing", "rotation_uncertain",
                    "activation_pending", "removed"}
Answers == {"none", "ok", "definitive", "uncertain"}
Phases == {"none", "selected", "terminal"}

\* Anchors of the two chains; phase "none" stands for an anchor not there.
Reservation == [op : 0..MaxOps, phase : Phases, c : Candidates \cup {"none"}]
NoReservation == [op |-> NoOp, phase |-> "none", c |-> "none"]
Commitment == [op : 0..MaxOps, phase : Phases]
NoCommitment == [op |-> NoOp, phase |-> "none"]

\* retainedRefresh; op = NoOp stands for a candidate with no map entry.
\* res folds materialReady ("ok") and resultErr ("definitive", "uncertain").
Retained == [op : 0..MaxOps, digest : BOOLEAN, attempt : BOOLEAN,
             indet : BOOLEAN, res : Answers, mat : Material,
             persisted : BOOLEAN, committed : BOOLEAN]
NoRetained == [op |-> NoOp, digest |-> FALSE, attempt |-> FALSE,
               indet |-> FALSE, res |-> "none", mat |-> NoMaterial,
               persisted |-> FALSE, committed |-> FALSE]

\* Where the holder of CredentialCoordinator.mu stands.
Locations == {"idle", "select", "continuation", "commit", "mark", "attempt",
              "exchange", "wait", "persist", "record", "restore", "receipt",
              "complete", "activate", "activated"}

VARIABLES
    \* durable
    rec,        \* managed record of each candidate
    auth,       \* refresh token in ~/.codex/auth.json
    mut,        \* anchor of the "refresh-mutation" chain
    cmt,        \* anchor of the "commit" chain
    cont,       \* operations whose continuation file is durable
    result,     \* per operation: its result file
    \* volatile
    up,         \* "up", "down" or "refused" (the coordinator did not open)
    pc,         \* location of each candidate's call
    local,      \* Rotation.MaterialCommitted of the running call
    retained,   \* refreshRetained
    mutGate,    \* the mutation chain's release function is set
    cmtGate,    \* the commit chain's release function is set
    mutSeen,    \* the anchor the mutation chain holds in memory
    cmtSeen,    \* the anchor the commit chain holds in memory
    \* environment
    wire,       \* what the endpoint answered to the exchange in flight
    nextOp, nextTok, faults, acts,
    \* history, read by properties only
    sent,       \* exchanges dispatched per operation
    presented,  \* refresh token each operation presented
    spent,      \* refresh tokens an exchange of CQ has rotated away
    applied     \* operations whose outcome reached the managed record

durable == <<rec, auth, mut, cmt, cont, result>>
mutChain == <<mutGate, mutSeen>>
cmtChain == <<cmtGate, cmtSeen>>
volatile == <<up, pc, local, retained, mutChain, cmtChain>>
env == <<wire, nextOp, nextTok, faults, acts>>
history == <<sent, presented, spent, applied>>
vars == <<durable, volatile, env, history>>

Record == [cred : Material, own : {"cq_owned", "exported"},
           st : OperationStates, op : 0..MaxOps]

TypeOK ==
    /\ rec \in [Candidates -> Record]
    /\ auth \in Tokens
    /\ mut \in Reservation
    /\ cmt \in Commitment
    /\ cont \subseteq Ops
    /\ result \in [Ops -> [kind : Answers \cup {"attempt"}, mat : Material]]
    /\ up \in {"up", "down", "refused"}
    /\ pc \in [Candidates -> Locations]
    /\ local \in BOOLEAN
    /\ retained \in [Candidates -> Retained]
    /\ mutGate \in BOOLEAN /\ cmtGate \in BOOLEAN
    /\ mutSeen \in Reservation /\ cmtSeen \in Commitment
    /\ wire \in [kind : Answers, mat : Material]
    /\ nextOp \in 1..(MaxOps + 1)
    /\ nextTok \in 1..(MaxTok + 1)
    /\ faults \in 0..MaxFaults /\ acts \in 0..MaxActs
    /\ sent \in [Ops -> Nat]
    /\ presented \in [Ops -> Tokens]
    /\ spent \subseteq Tokens
    /\ applied \subseteq Ops

Init ==
    /\ rec = [c \in Candidates |-> [cred |-> NoMaterial, own |-> "cq_owned",
                                    st |-> "absent", op |-> NoOp]]
    /\ auth = NoTok
    /\ mut = NoReservation
    /\ cmt = NoCommitment
    /\ cont = {}
    /\ result = [o \in Ops |-> [kind |-> "none", mat |-> NoMaterial]]
    /\ up = "up"
    /\ pc = [c \in Candidates |-> "idle"]
    /\ local = FALSE
    /\ retained = [c \in Candidates |-> NoRetained]
    /\ mutGate = FALSE /\ cmtGate = FALSE
    /\ mutSeen = NoReservation /\ cmtSeen = NoCommitment
    /\ wire = [kind |-> "none", mat |-> NoMaterial]
    /\ nextOp = 1 /\ nextTok = 1 /\ faults = 0 /\ acts = 0
    /\ sent = [o \in Ops |-> 0]
    /\ presented = [o \in Ops |-> NoTok]
    /\ spent = {} /\ applied = {}

-----------------------------------------------------------------------------
(* Control: entering, leaving and failing inside a locked call.            *)

MuFree == up = "up" /\ \A c \in Candidates : pc[c] = "idle"

Goto(c, l) == pc' = [pc EXCEPT ![c] = l]

Fault == faults < MaxFaults /\ faults' = faults + 1

\* A step that took effect: go on, or report an error and leave the call.
Finish(c, ok, l) ==
    IF ok THEN Goto(c, l) /\ UNCHANGED <<local, faults>>
          ELSE Goto(c, "idle") /\ local' = FALSE /\ Fault

RetainedExists(c) == retained[c].op # NoOp
Loaded(c) == rec[c].st \notin {"absent", "removed"}

\* Mutant: a retained answer that is durable counts as committed.
AfterPrepareSkipsCommit(r, committed) ==
    CASE r.indet -> "idle"
      [] ~r.indet /\ r.res = "none" /\ ~r.attempt -> "attempt"
      [] ~r.indet /\ r.res = "none" /\ r.attempt  -> "exchange"
      [] ~r.indet /\ r.res # "none" /\ ~r.persisted -> "persist"
      [] OTHER -> "receipt"

\* Mutant: the exchange is dispatched without a durable attempt.
AfterPrepareSkipsAttempt(r, committed) ==
    CASE r.indet -> "idle"
      [] ~r.indet /\ r.res = "none" -> "exchange"
      [] ~r.indet /\ r.res # "none" /\ ~r.persisted -> "persist"
      [] ~r.indet /\ r.res # "none" /\ r.persisted /\ ~committed -> "record"
      [] OTHER -> "receipt"

\* Mutant: a retry of the completion goes straight to the mutation chain.
AfterPrepareSkipsReceipt(r, committed) ==
    CASE r.indet -> "idle"
      [] ~r.indet /\ r.res = "none" /\ ~r.attempt -> "attempt"
      [] ~r.indet /\ r.res = "none" /\ r.attempt  -> "exchange"
      [] ~r.indet /\ r.res # "none" /\ ~r.persisted -> "persist"
      [] ~r.indet /\ r.res # "none" /\ r.persisted /\ ~committed -> "record"
      [] OTHER -> "complete"

\* Rotate after Prepare: the first step its retained state still needs.
AfterPrepare(r, committed) ==
    CASE r.indet                             -> "idle"
      [] ~r.indet /\ r.res = "none" /\ ~r.attempt -> "attempt"
      [] ~r.indet /\ r.res = "none" /\ r.attempt  -> "exchange"
      [] ~r.indet /\ r.res # "none" /\ ~r.persisted -> "persist"
      [] ~r.indet /\ r.res # "none" /\ r.persisted /\ ~committed -> "record"
      [] OTHER                               -> "receipt"

\* Rotate's Prepare hook once the commit is published.
AfterPublish(c, r, committed) ==
    IF ~r.indet /\ r.res = "none" /\ rec[c].st = "ready"
    THEN "mark" ELSE AfterPrepare(r, committed)

RefreshEligible(c) ==
    /\ rec[c].own = "cq_owned"
    /\ rec[c].st = "ready"
    /\ rec[c].op = NoOp
    /\ rec[c].cred.rt # NoTok

-----------------------------------------------------------------------------
(* refreshOnce. A caller whose expected revision is stale, whose record is *)
(* ineligible or gone, or whose retained operation meets a pending         *)
(* activation leaves without an effect: those returns are stuttering.      *)

\* retryRetainedLocked, entered before the shared-token and eligibility checks.
RetryRetained(c) ==
    /\ MuFree /\ Loaded(c) /\ RetainedExists(c)
    /\ rec[c].st # "activation_pending"
    /\ LET r == retained[c]
           done == \/ r.committed
                   \/ /\ r.res = "ok" /\ rec[c].st = "ready"
                      /\ rec[c].op = NoOp /\ rec[c].cred = r.mat
           l == IF r.digest THEN AfterPublish(c, r, done) ELSE "continuation"
       IN  /\ Goto(c, l)
           /\ local' = (done /\ l # "idle")
    /\ UNCHANGED <<durable, up, retained, mutChain, cmtChain, env, history>>

\* suspendSharedRefreshLocked: auth.json holds this record's refresh token.
SuspendShared(c) ==
    /\ MuFree /\ Loaded(c) /\ ~RetainedExists(c)
    /\ rec[c].cred.rt # NoTok /\ auth = rec[c].cred.rt
    /\ rec[c].own # "exported"
    /\ rec' = [rec EXCEPT ![c].own = "exported"]
    /\ UNCHANGED <<auth, mut, cmt, cont, result, volatile, env, history>>

\* The eligible path, up to the random operation identity.
BeginRefresh(c) ==
    /\ MuFree /\ Loaded(c) /\ ~RetainedExists(c)
    /\ ~(auth = rec[c].cred.rt /\ rec[c].own # "exported")
    /\ RefreshEligible(c)
    /\ nextOp <= MaxOps
    /\ nextOp' = nextOp + 1
    /\ Goto(c, "select")
    /\ UNCHANGED <<durable, up, local, retained, mutChain, cmtChain,
                   wire, nextTok, faults, acts, history>>

CurrentOp == nextOp - 1

\* A selection reads its chain again (reopenUnderGate) only when it has to
\* acquire the gate; the chain that holds its gate answers from memory.
Reopened(gate, seen, anchor) == IF gate THEN seen ELSE anchor

\* ReplaceSelectorExactPrior: the anchor is only replaced by a chain that has
\* the stored one in memory.
MutationSelectable ==
    /\ Reopened(mutGate, mutSeen, mut).phase # "selected"
    /\ Reopened(mutGate, mutSeen, mut) = mut

\* SelectRefreshMutation while another operation is selected: the deferred
\* abandonGate releases the gate the selected operation was holding.
SelectRefused(c) ==
    /\ pc[c] = "select"
    /\ ~MutationSelectable
    /\ mutGate' = FALSE
    /\ mutSeen' = Reopened(mutGate, mutSeen, mut)
    /\ Goto(c, "idle")
    /\ UNCHANGED <<durable, up, local, retained, cmtChain, env, history>>

\* SelectRefreshMutation, then retainRefresh. When the anchor is durable but
\* an error is reported the gate is released, nothing is retained, and the
\* chain may not have taken the anchor up.
SelectRefreshMutation(c) ==
    /\ pc[c] = "select"
    /\ MutationSelectable
    /\ mut' = [op |-> CurrentOp, phase |-> "selected", c |-> c]
    /\ \E ok \in BOOLEAN :
         /\ Finish(c, ok, "continuation")
         /\ mutGate' = ok
         /\ mutSeen' \in {mut'} \cup (IF ok THEN {} ELSE {mut})
         /\ retained' = IF ok
                        THEN [retained EXCEPT ![c] =
                                [NoRetained EXCEPT !.op = CurrentOp]]
                        ELSE retained
    /\ UNCHANGED <<rec, auth, cmt, cont, result, up, cmtChain,
                   wire, nextOp, nextTok, acts, history>>

\* PublishCommit, first half: the continuation file.
PublishContinuation(c) ==
    /\ pc[c] = "continuation"
    /\ cont' = cont \cup {retained[c].op}
    /\ \E ok \in BOOLEAN : Finish(c, ok, "commit")
    /\ UNCHANGED <<rec, auth, mut, cmt, result, up, retained, mutChain,
                   cmtChain, wire, nextOp, nextTok, acts, history>>

\* selectOperation on the commit chain finds the operation selected already,
\* or the chain idle, or terminal under another operation.
CommitSelected(o) ==
    Reopened(cmtGate, cmtSeen, cmt) = cmt /\ cmt.phase = "selected" /\ cmt.op = o
CommitReplaceable(o) ==
    /\ Reopened(cmtGate, cmtSeen, cmt) = cmt
    /\ cmt.phase = "none" \/ (cmt.phase = "terminal" /\ cmt.op # o)
CommitSelectable(o) == CommitSelected(o) \/ CommitReplaceable(o)

\* PublishCommit, second half: selectOperation on the commit chain. It writes
\* nothing for its own selection, and releases its gate on an error.
PublishCommit(c) ==
    /\ pc[c] = "commit"
    /\ CommitSelectable(retained[c].op)
    /\ cmt' = [op |-> retained[c].op, phase |-> "selected"]
    /\ \E ok \in BOOLEAN :
         LET r == [retained[c] EXCEPT !.digest = ok]
         IN  /\ ok \/ CommitReplaceable(retained[c].op)
             /\ retained' = [retained EXCEPT ![c] = r]
             /\ cmtGate' = ok
             /\ cmtSeen' \in {cmt'} \cup (IF ok THEN {} ELSE {cmt})
             /\ Finish(c, ok, AfterPublish(c, r, local))
    /\ UNCHANGED <<rec, auth, mut, cont, result, up, mutChain,
                   wire, nextOp, nextTok, acts, history>>

\* The Prepare hook's Store.Commit of the Refreshing state.
MarkRefreshing(c) ==
    /\ pc[c] = "mark"
    /\ rec' = [rec EXCEPT ![c].st = "refreshing", ![c].op = retained[c].op]
    /\ \E ok \in BOOLEAN : Finish(c, ok, AfterPrepare(retained[c], local))
    /\ UNCHANGED <<auth, mut, cmt, cont, result, up, retained, mutChain,
                   cmtChain, wire, nextOp, nextTok, acts, history>>

\* validateSelectedCommit reads the anchor in memory.
SelectedCommit(o) == cmtSeen.op = o /\ cmtSeen.phase = "selected"

\* PublishRefreshAttempt; an attempt or a result already there is accepted.
PersistAttempt(c) ==
    /\ pc[c] = "attempt"
    /\ SelectedCommit(retained[c].op)
    /\ LET o == retained[c].op
       IN  result' = IF result[o].kind = "none"
                     THEN [result EXCEPT ![o].kind = "attempt"] ELSE result
    /\ \E ok \in BOOLEAN :
         /\ retained' = [retained EXCEPT ![c].attempt = ok]
         /\ Finish(c, ok, "exchange")
    /\ UNCHANGED <<rec, auth, mut, cmt, cont, up, mutChain, cmtChain,
                   wire, nextOp, nextTok, acts, history>>

\* What the token endpoint does with a refresh token: rotate it, keep it,
\* or reject it. A token it has rotated away before is rejected.
ProviderAnswers(c) ==
    LET t == rec[c].cred.rt
        n == nextTok
    IN  \/ /\ t \notin spent /\ n <= MaxTok
           /\ wire' = [kind |-> "ok", mat |-> [rt |-> n, at |-> n]]
           /\ spent' = spent \cup {t}
           /\ nextTok' = n + 1
        \/ /\ t \notin spent /\ n <= MaxTok
           /\ wire' = [kind |-> "ok", mat |-> [rt |-> t, at |-> n]]
           /\ nextTok' = n + 1
           /\ UNCHANGED spent
        \/ /\ wire' = [kind |-> "definitive", mat |-> NoMaterial]
           /\ UNCHANGED <<spent, nextTok>>

\* RefreshExchange leaves the process.
Exchange(c) ==
    /\ pc[c] = "exchange"
    /\ sent' = [sent EXCEPT ![retained[c].op] = @ + 1]
    /\ presented' = [presented EXCEPT ![retained[c].op] = rec[c].cred.rt]
    /\ ProviderAnswers(c)
    /\ Goto(c, "wait")
    /\ UNCHANGED <<durable, up, local, retained, mutChain, cmtChain,
                   nextOp, faults, acts, applied>>

\* Its return: the answer, or a transport error, a timeout, a 5xx or an empty
\* access token, none of which is definitive.
ExchangeReturns(c) ==
    /\ pc[c] = "wait"
    /\ \/ /\ retained' = [retained EXCEPT ![c].res = wire.kind,
                                          ![c].mat = wire.mat]
          /\ UNCHANGED faults
       \/ /\ retained' = [retained EXCEPT ![c].res = "uncertain"]
          /\ Fault
    /\ wire' = [kind |-> "none", mat |-> NoMaterial]
    /\ Goto(c, "persist")
    /\ UNCHANGED <<durable, up, local, mutChain, cmtChain,
                   nextOp, nextTok, acts, history>>

\* The result file holds this operation's attempt, or this very result.
ResultReplaceable(r) ==
    \/ result[r.op].kind = "attempt"
    \/ result[r.op] = [kind |-> r.res, mat |-> r.mat]

\* PublishRefreshResult: the attempt file is replaced by the sealed result.
PersistResult(c) ==
    /\ pc[c] = "persist"
    /\ SelectedCommit(retained[c].op)
    /\ ResultReplaceable(retained[c])
    /\ result' = [result EXCEPT ![retained[c].op] =
                      [kind |-> retained[c].res, mat |-> retained[c].mat]]
    /\ \E ok \in BOOLEAN :
         /\ retained' = [retained EXCEPT ![c].persisted = ok,
                                         ![c].committed = local]
         /\ Finish(c, ok, IF local THEN "receipt" ELSE "record")
    /\ UNCHANGED <<rec, auth, mut, cmt, cont, up, mutChain, cmtChain,
                   wire, nextOp, nextTok, acts, history>>

\* Mutant: a rejected exchange leaves the record in the Refreshing state.
CommittedRecordKeepsState(c) ==
    LET r == retained[c] IN
    CASE r.res = "ok" -> [rec[c] EXCEPT !.st = "ready", !.op = NoOp,
                                        !.cred = r.mat]
      [] r.res = "definitive" -> rec[c]
      [] OTHER -> [rec[c] EXCEPT !.st = "rotation_uncertain", !.op = r.op]

\* Mutant: every exchange error is taken for a definitive rejection.
CommittedRecordIgnoresDoubt(c) ==
    LET r == retained[c] IN
    IF r.res = "ok"
    THEN [rec[c] EXCEPT !.st = "ready", !.op = NoOp, !.cred = r.mat]
    ELSE [rec[c] EXCEPT !.st = "ready", !.op = NoOp]

\* The managed record after the Commit hook.
CommittedRecord(c) ==
    LET r == retained[c] IN
    CASE r.res = "ok"         -> [rec[c] EXCEPT !.st = "ready", !.op = NoOp,
                                                !.cred = r.mat]
      [] r.res = "definitive" -> [rec[c] EXCEPT !.st = "ready", !.op = NoOp]
      [] OTHER                -> [rec[c] EXCEPT !.st = "rotation_uncertain",
                                                !.op = r.op]

\* Rotate's Commit hook. A failed commit of a success goes on to
\* restoreRotationUncertain before the call returns.
CommitRecord(c) ==
    /\ pc[c] = "record"
    /\ \/ /\ rec' = [rec EXCEPT ![c] = CommittedRecord(c)]
          /\ applied' = applied \cup {retained[c].op}
          /\ \/ /\ retained' = [retained EXCEPT ![c].committed = TRUE]
                /\ Goto(c, "receipt")
                /\ UNCHANGED <<faults, local>>
             \/ /\ Fault
                /\ Goto(c, IF retained[c].res = "ok" THEN "restore" ELSE "idle")
                /\ local' = FALSE
                /\ UNCHANGED retained
       \/ /\ retained[c].res = "ok"
          /\ Fault
          /\ Goto(c, "restore")
          /\ UNCHANGED <<rec, applied, retained, local>>
    /\ UNCHANGED <<auth, mut, cmt, cont, result, up, mutChain, cmtChain,
                   wire, nextOp, nextTok, acts, sent, presented, spent>>

\* restoreRotationUncertain; its own commit error is discarded.
RestoreRotationUncertain(c) ==
    /\ pc[c] = "restore"
    /\ rec' = IF rec[c].st = "rotation_uncertain" /\ rec[c].op # NoOp
              THEN rec
              ELSE [rec EXCEPT ![c].st = "rotation_uncertain",
                               ![c].op = IF @ = NoOp THEN retained[c].op ELSE @]
    /\ Goto(c, "idle")
    /\ UNCHANGED <<auth, mut, cmt, cont, result, up, local, retained,
                   mutChain, cmtChain, env, history>>

\* Mutant: terminalise is not idempotent.
RecordedNever(seen, o) == FALSE

\* terminalise answers from memory: a chain that holds the operation's
\* terminal anchor writes nothing.
Recorded(seen, o) == seen.op = o /\ seen.phase = "terminal"

\* Otherwise it replaces the selected anchor, under its gate, and only if the
\* anchor in memory is still the stored one (requirePrior).
Terminalisable(seen, anchor, gate, o) ==
    /\ seen.op = o /\ seen.phase = "selected"
    /\ gate
    /\ seen = anchor

\* The replacement succeeds; or takes effect and reports an error, either from
\* the release of the gate, or from the directory sync after the rename: then
\* the chain keeps the selected anchor in memory, and its gate.
Outcomes == {"ok", "released", "unacknowledged"}

\* completeRefreshMutation, PublishReceipt: terminalise the commit chain.
PublishReceipt(c) ==
    /\ pc[c] = "receipt"
    /\ \/ /\ Recorded(cmtSeen, retained[c].op)
          /\ Goto(c, "complete")
          /\ UNCHANGED <<cmt, cmtChain, local, faults>>
       \/ /\ Terminalisable(cmtSeen, cmt, cmtGate, retained[c].op)
          /\ cmt' = [cmt EXCEPT !.phase = "terminal"]
          /\ \E out \in Outcomes :
               /\ Finish(c, out = "ok", "complete")
               /\ IF out = "unacknowledged" THEN UNCHANGED cmtChain
                  ELSE cmtGate' = FALSE /\ cmtSeen' = cmt'
    /\ UNCHANGED <<rec, auth, mut, cont, result, up, retained, mutChain,
                   wire, nextOp, nextTok, acts, history>>

\* completeRefreshMutation, CompleteRefreshMutation: terminalise the mutation
\* chain, and forget the retained operation.
CompleteRefreshMutation(c) ==
    /\ pc[c] = "complete"
    /\ Goto(c, "idle") /\ local' = FALSE
    /\ \/ /\ Recorded(mutSeen, retained[c].op)
          /\ retained' = [retained EXCEPT ![c] = NoRetained]
          /\ UNCHANGED <<mut, mutChain, faults>>
       \/ /\ Terminalisable(mutSeen, mut, mutGate, retained[c].op)
          /\ mut' = [mut EXCEPT !.phase = "terminal"]
          /\ \E out \in Outcomes :
               /\ IF out = "ok"
                  THEN /\ retained' = [retained EXCEPT ![c] = NoRetained]
                       /\ UNCHANGED faults
                  ELSE Fault /\ UNCHANGED retained
               /\ IF out = "unacknowledged" THEN UNCHANGED mutChain
                  ELSE mutGate' = FALSE /\ mutSeen' = mut'
    /\ UNCHANGED <<rec, auth, cmt, cont, result, up, cmtChain,
                   wire, nextOp, nextTok, acts, history>>

\* What each authority step demands of its chain.
Accepts(c) ==
    LET r == retained[c] IN
    CASE pc[c] = "commit"   -> CommitSelectable(r.op)
      [] pc[c] = "attempt"  -> SelectedCommit(r.op)
      [] pc[c] = "persist"  -> SelectedCommit(r.op) /\ ResultReplaceable(r)
      [] pc[c] = "receipt"  -> Recorded(cmtSeen, r.op)
                                  \/ Terminalisable(cmtSeen, cmt, cmtGate, r.op)
      [] pc[c] = "complete" -> Recorded(mutSeen, r.op)
                                  \/ Terminalisable(mutSeen, mut, mutGate, r.op)
      [] OTHER              -> TRUE

\* An authority step that its store refuses ("operation already selected",
\* "predecessor unavailable", "mutation lock unavailable", ...).
StepRefused(c) ==
    /\ ~Accepts(c)
    /\ Goto(c, "idle") /\ local' = FALSE
    /\ UNCHANGED <<durable, up, retained, mutChain, cmtChain, env, history>>

\* A selection that fails may have failed before, in or after its reopening.
Unread(gate, seen, anchor, none) == IF gate THEN {seen} ELSE {seen, none, anchor}

\* Any storage step that fails before its effect. selectOperation releases
\* its gate on that path.
StepFails(c) ==
    /\ \/ pc[c] \in {"select", "continuation", "commit", "mark", "attempt",
                     "persist", "restore", "receipt", "complete", "activate",
                     "activated"}
       \/ pc[c] = "record" /\ retained[c].res # "ok"
    /\ Fault
    /\ Goto(c, "idle") /\ local' = FALSE
    /\ mutGate' = (mutGate /\ pc[c] # "select")
    /\ cmtGate' = (cmtGate /\ pc[c] # "commit")
    /\ mutSeen' \in IF pc[c] = "select"
                   THEN Unread(mutGate, mutSeen, mut, NoReservation)
                   ELSE {mutSeen}
    /\ cmtSeen' \in IF pc[c] = "commit"
                   THEN Unread(cmtGate, cmtSeen, cmt, NoCommitment)
                   ELSE {cmtSeen}
    /\ UNCHANGED <<durable, up, retained, wire, nextOp, nextTok, acts, history>>

-----------------------------------------------------------------------------
(* The coordinator's other mutations of a managed record.                  *)

\* SaveLogin: a new record, or a new lineage in the existing one. OperationID
\* and the retained operation are left as they are.
SaveLogin(c) ==
    /\ MuFree
    /\ rec[c].st # "removed"
    /\ nextTok <= MaxTok
    /\ nextTok' = nextTok + 1
    /\ rec' = [rec EXCEPT ![c].cred = [rt |-> nextTok, at |-> nextTok],
                          ![c].own = "cq_owned", ![c].st = "ready"]
    /\ UNCHANGED <<auth, mut, cmt, cont, result, volatile,
                   wire, nextOp, faults, acts, history>>

\* Activate: mark the lineage exported and pending.
BeginActivate(c) ==
    /\ MuFree /\ Loaded(c)
    /\ acts < MaxActs /\ acts' = acts + 1
    /\ rec' = [rec EXCEPT ![c].st = "activation_pending", ![c].own = "exported"]
    /\ \E ok \in BOOLEAN : Finish(c, ok, "activate")
    /\ UNCHANGED <<auth, mut, cmt, cont, result, up, retained, mutChain,
                   cmtChain, wire, nextOp, nextTok, history>>

\* Activator.Activate writes auth.json.
WriteSystemAuth(c) ==
    /\ pc[c] = "activate"
    /\ auth' = rec[c].cred.rt
    /\ \E ok \in BOOLEAN : Finish(c, ok, "activated")
    /\ UNCHANGED <<rec, mut, cmt, cont, result, up, retained, mutChain,
                   cmtChain, wire, nextOp, nextTok, acts, history>>

\* Activate's second commit: ready again, ownership stays exported.
FinishActivate(c) ==
    /\ pc[c] = "activated"
    /\ rec' = [rec EXCEPT ![c].st = "ready", ![c].own = "exported"]
    /\ \E ok \in BOOLEAN : Finish(c, ok, "idle")
    /\ UNCHANGED <<auth, mut, cmt, cont, result, up, retained, mutChain,
                   cmtChain, wire, nextOp, nextTok, acts, history>>

\* RemoveManaged of an account with one managed candidate; its journal is
\* the subject of CredentialRemoval.
RemoveManaged(c) ==
    /\ MuFree /\ Loaded(c)
    /\ acts < MaxActs /\ acts' = acts + 1
    /\ rec' = [rec EXCEPT ![c] = [cred |-> NoMaterial, own |-> "cq_owned",
                                  st |-> "removed", op |-> NoOp]]
    /\ auth' = IF auth = rec[c].cred.rt THEN NoTok ELSE auth
    /\ UNCHANGED <<mut, cmt, cont, result, volatile,
                   wire, nextOp, nextTok, faults, history>>

\* The Codex CLI logs in to another account or rotates its own token.
SystemRewritesAuth ==
    /\ acts < MaxActs /\ acts' = acts + 1
    /\ auth # NoTok
    /\ auth' = NoTok
    /\ UNCHANGED <<rec, mut, cmt, cont, result, volatile,
                   wire, nextOp, nextTok, faults, history>>

-----------------------------------------------------------------------------
(* Process death and NewCredentialCoordinatorWithAuthority.                *)

Crash ==
    /\ up = "up"
    /\ Fault
    /\ up' = "down"
    /\ pc' = [c \in Candidates |-> "idle"]
    /\ local' = FALSE
    /\ retained' = [c \in Candidates |-> NoRetained]
    /\ mutGate' = FALSE /\ cmtGate' = FALSE
    /\ mutSeen' = NoReservation /\ cmtSeen' = NoCommitment
    /\ wire' = [kind |-> "none", mat |-> NoMaterial]
    /\ UNCHANGED <<durable, nextOp, nextTok, acts, history>>

\* RecoverRefresh: the continuation may be missing, and is adopted, only
\* while the commit chain has no anchor at all.
Recoverable ==
    mut.phase = "selected" =>
        \/ cmt.phase = "none"
        \/ mut.op \in cont /\ cmt.op = mut.op

\* Mutant: an attempt without a result is resumed instead of indeterminate.
HydratedResumesAttempt ==
    LET o == mut.op
        f == result[o]
        known == f.kind \notin {"none", "attempt"}
    IN  [op |-> o, digest |-> o \in cont, attempt |-> f.kind # "none",
         indet |-> FALSE,
         res |-> IF known THEN f.kind ELSE "none",
         mat |-> IF known THEN f.mat ELSE NoMaterial,
         persisted |-> known, committed |-> FALSE]

\* Mutant: recovery continues under a new operation identity.
HydratedRenames ==
    LET f == result[mut.op]
        known == f.kind \notin {"none", "attempt"}
    IN  [op |-> nextOp, digest |-> mut.op \in cont,
         attempt |-> f.kind # "none", indet |-> f.kind = "attempt",
         res |-> IF known THEN f.kind ELSE "none",
         mat |-> IF known THEN f.mat ELSE NoMaterial,
         persisted |-> known, committed |-> FALSE]

\* hydrateCredentialRefresh: the retained operation rebuilt from durable state.
Hydrated ==
    LET o == mut.op
        f == result[o]
        known == f.kind \notin {"none", "attempt"}
    IN  [op |-> o, digest |-> o \in cont, attempt |-> f.kind # "none",
         indet |-> f.kind = "attempt",
         res |-> IF known THEN f.kind ELSE "none",
         mat |-> IF known THEN f.mat ELSE NoMaterial,
         persisted |-> known, committed |-> FALSE]

Restart ==
    /\ up # "up"
    /\ Recoverable
    /\ up' = "up"
    /\ IF mut.phase = "selected"
       THEN /\ retained' = [retained EXCEPT ![mut.c] = Hydrated]
            /\ cmt' = IF cmt.phase = "none" /\ mut.op \in cont
                      THEN [op |-> mut.op, phase |-> "selected"] ELSE cmt
       ELSE UNCHANGED <<retained, cmt>>
    /\ mutGate' = (mut.phase = "selected")
    /\ cmtGate' = (cmt'.phase = "selected")
    /\ mutSeen' = mut /\ cmtSeen' = cmt'
    /\ UNCHANGED <<rec, auth, mut, cont, result, pc, local, env, history>>

\* RecoverRefresh returns an error and the coordinator is not constructed.
RestartRefused ==
    /\ up # "up"
    /\ ~Recoverable
    /\ up' = "refused"
    /\ UNCHANGED <<durable, pc, local, retained, mutChain, cmtChain, env, history>>

-----------------------------------------------------------------------------
RefreshStep(c) ==
    \/ SelectRefused(c) \/ SelectRefreshMutation(c)
    \/ PublishContinuation(c) \/ PublishCommit(c) \/ MarkRefreshing(c)
    \/ PersistAttempt(c) \/ Exchange(c) \/ ExchangeReturns(c)
    \/ PersistResult(c) \/ CommitRecord(c) \/ RestoreRotationUncertain(c)
    \/ PublishReceipt(c) \/ CompleteRefreshMutation(c) \/ StepRefused(c)
    \/ WriteSystemAuth(c) \/ FinishActivate(c)

Call(c) ==
    \/ RetryRetained(c) \/ SuspendShared(c) \/ BeginRefresh(c)

Other(c) ==
    \/ SaveLogin(c) \/ BeginActivate(c) \/ RemoveManaged(c) \/ StepFails(c)

Next ==
    \/ \E c \in Candidates : RefreshStep(c) \/ Call(c) \/ Other(c)
    \/ SystemRewritesAuth \/ Crash \/ Restart \/ RestartRefused

Spec == Init /\ [][Next]_vars

(***************************************************************************)
(* The holder of mu keeps running, a dead process is started again by its  *)
(* supervisor, and the proxy asks again for a credential it could not      *)
(* refresh.                                                                *)
(***************************************************************************)
Fairness ==
    /\ WF_vars(Restart \/ RestartRefused)
    /\ \A c \in Candidates : WF_vars(RefreshStep(c)) /\ WF_vars(RetryRetained(c))

LiveSpec == Spec /\ Fairness

-----------------------------------------------------------------------------
(* Properties.                                                             *)

\* No operation's exchange is dispatched twice, whatever is retried in the
\* process or recovered after a crash (Rotate: "never dispatched again").
ExchangeAtMostOnce == \A o \in Ops : sent[o] <= 1

\* A refresh token that an exchange has rotated away is never presented again
\* by any later operation, on any candidate, in any process.
NoReplay ==
    [][\A o \in Ops : sent'[o] > sent[o] => presented'[o] \notin spent]_vars

\* The reservation opens before and closes after the commit: a selected commit
\* belongs to the selected mutation, a terminal mutation to a terminal commit.
ChainOrder ==
    /\ cmt.phase = "selected" => mut.phase = "selected" /\ mut.op = cmt.op
    /\ mut.phase = "terminal" => cmt.phase = "terminal" /\ cmt.op = mut.op

\* A durable outcome is not dropped: it has reached the managed record, or its
\* operation is still selected, where a restart finds it.
OutcomeNotDropped ==
    \A o \in Ops : result[o].kind \in {"ok", "definitive", "uncertain"} =>
        o \in applied \/ (mut.phase = "selected" /\ mut.op = o)

\* The operation has left the retained map of a running coordinator, or waits
\* for something other than its own retry: its exchange is indeterminate, its
\* record is gone or awaits activation, or the coordinator cannot be opened.
Settled(c) ==
    \/ ~RetainedExists(c) /\ up = "up"
    \/ retained[c].indet
    \/ rec[c].st \in {"activation_pending", "removed"}
    \/ up = "refused"

\* A terminal anchor of this operation is durable and its chain has not taken
\* it up: until a restart every terminalisation is refused.
Unacknowledged(c) ==
    LET o == retained[c].op IN
    \/ cmtSeen = [op |-> o, phase |-> "selected"] /\ cmt # cmtSeen
    \/ mutSeen = [op |-> o, phase |-> "selected", c |-> c] /\ mut # mutSeen

\* A retained operation reaches the end of both chains by retries, and by the
\* restart after a crash, unless a terminal anchor of it is unacknowledged.
RetainedSettles ==
    \A c \in Candidates : RetainedExists(c) ~> Settled(c) \/ Unacknowledged(c)

\* The refresh implements AtMostOnceEffect: the result file is its intent and
\* then its outcome, the exchange its effect, the operation its identity.
Effect == INSTANCE AtMostOnceEffect WITH
    Ids <- Ops,
    intent <- {o \in Ops : result[o].kind # "none"},
    effects <- sent,
    outcome <- {o \in Ops : result[o].kind \notin {"none", "attempt"}}
ImplementsAtMostOnce == Effect!Spec

(* What comments, documents and tests say and the code does not do.        *)

\* RefreshMutationStore "retains its backend mutation gate until the terminal
\* release is selected".
GateRetained ==
    up = "up" /\ (\E c \in Candidates : RetainedExists(c) /\ mut.op = retained[c].op)
        /\ mut.phase = "selected" => mutGate

\* "Failed persistence is retryable without repeating an exchange already
\* performed": the retries of an up process settle every retained operation.
PersistenceRetryable ==
    \A c \in Candidates : RetainedExists(c) ~> Settled(c)

\* A restart after a crash inside a refresh opens the coordinator.
RestartOpens == up # "refused"

\* An exported credential is read-only: no exchange presents its token.
ExportedIsReadOnly ==
    [][\A c \in Candidates :
         sent' # sent /\ pc[c] = "exchange" => rec[c].own = "cq_owned"]_vars

\* A record's credential is only ever replaced by one minted later: a fresh
\* login is not overwritten by the outcome of an older operation.
FreshLoginSupersedes ==
    [][\A c \in Candidates :
         rec'[c].cred # rec[c].cred /\ rec'[c].st # "removed" =>
             rec'[c].cred.at > rec[c].cred.at]_vars
=============================================================================
