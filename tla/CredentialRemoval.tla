-------------------------- MODULE CredentialRemoval --------------------------
(***************************************************************************)
(* Removal, login, adoption and activation of CQ-managed Codex accounts:   *)
(*   internal/provider/codex/credential_coordinator.go                     *)
(*   .../removal_journal.go   .../registry.go   .../projection_recovery.go *)
(*   .../system_activator.go  .../managed_store.go                         *)
(*                                                                         *)
(* A removal is a plan journalled in one file and then carried out over    *)
(* four others: the managed records, ~/.codex/auth.json, the catalogue and *)
(* the journal itself.  Calls run under CredentialCoordinator.mu, so one   *)
(* location describes the process; the Codex CLI writes auth.json between  *)
(* any two steps, any step may fail before or after its effect, and the    *)
(* process may die.  Every mutating call first finishes a pending removal  *)
(* (finishPendingRemovalLocked): here that is a Resume of its own, which   *)
(* any caller may make before its call.                                    *)
(***************************************************************************)
EXTENDS Naturals, FiniteSets

CONSTANTS Accounts,        \* logical accounts
          Candidates,      \* names of managed record files
          None,            \* no account, no candidate
          MaxRev,          \* bound on revisions written
          MaxFaults        \* bound on failures and crashes

ASSUME RemovalAssumption ==
    /\ MaxRev \in Nat /\ MaxFaults \in Nat
    /\ None \notin Accounts /\ None \notin Candidates

Revisions == 0..MaxRev
NoRev == 0

Provenances == {"cq_oauth", "system_borrowed"}
NoFile == [acct |-> None, prov |-> "cq_oauth", rev |-> NoRev]
NoAuth == [acct |-> None, rev |-> NoRev]
NoPlan == [acct |-> None, cands |-> [c \in Candidates |-> NoRev], sys |-> NoRev]

Locations == {"idle", "upsert", "adopt", "import", "load", "write", "project",
              "ready", "plan", "save", "delete", "system", "deactivate", "rmauth",
              "unproject", "registry", "clear"}

VARIABLES
    rec,        \* managed records, NoFile where there is none
    auth,       \* ~/.codex/auth.json: account and content revision
    rows,       \* registry.json: accounts with a catalogue row
    proj,       \* registry.json: active_account_key
    journal,    \* codex_removal.json, or NoPlan
    open,       \* the credential owner has recovered and serves calls
    at,         \* where the holder of mu stands
    op,         \* its arguments: account, system snapshot, candidate, revision
    plan,       \* the plan RemoveManaged is building
    nextRev, faults

files == <<rec, auth, rows, proj, journal>>
call == <<open, at, op, plan>>
vars == <<files, call, nextRev, faults>>

Record == [acct : Accounts \cup {None}, prov : Provenances, rev : Revisions]
System == [acct : Accounts \cup {None}, rev : Revisions]
Plan == [acct : Accounts \cup {None}, cands : [Candidates -> Revisions],
         sys : Revisions]

TypeOK ==
    /\ rec \in [Candidates -> Record]
    /\ auth \in System
    /\ rows \subseteq Accounts
    /\ proj \in Accounts \cup {None}
    /\ journal \in Plan /\ plan \in Plan
    /\ open \in BOOLEAN
    /\ at \in Locations
    /\ op \in [acct : Accounts \cup {None}, snap : Revisions,
               cand : Candidates \cup {None}, rev : Revisions]
    /\ nextRev \in 1..(MaxRev + 1)
    /\ faults \in 0..MaxFaults

NoCall == [acct |-> None, snap |-> NoRev, cand |-> None, rev |-> NoRev]

Init ==
    /\ rec = [c \in Candidates |-> NoFile]
    /\ auth = NoAuth
    /\ rows = {} /\ proj = None
    /\ journal = NoPlan /\ plan = NoPlan
    /\ open = TRUE /\ at = "idle" /\ op = NoCall
    /\ nextRev = 1 /\ faults = 0

-----------------------------------------------------------------------------
Stored(c) == rec[c].rev # NoRev
RecordsOf(a) == {c \in Candidates : Stored(c) /\ rec[c].acct = a}
Pending == journal.acct # None

\* Mutant: the calls do not finish a pending removal first.
ReadyIgnoresPending == open /\ at = "idle"

\* mu is free and no removal is pending.
Ready == open /\ at = "idle" /\ ~Pending

Fault == faults < MaxFaults /\ faults' = faults + 1

Leave == at' = "idle" /\ op' = NoCall /\ plan' = NoPlan

\* A step that took effect goes on to l, or reports an error.
Then(l) ==
    \/ /\ at' = l
       /\ IF l = "idle" THEN op' = NoCall /\ plan' = NoPlan
                        ELSE UNCHANGED <<op, plan>>
       /\ UNCHANGED faults
    \/ Leave /\ Fault

FreshRev == nextRev <= MaxRev /\ nextRev' = nextRev + 1

\* ManagedStore.Commit of candidate c under a new revision.
Commit(c, a, p) ==
    /\ FreshRev
    /\ rec' = [rec EXCEPT ![c] = [acct |-> a, prov |-> p, rev |-> nextRev]]

-----------------------------------------------------------------------------
(* Login, adoption and activation.                                         *)

\* Mutant: the new record is projected under an empty account key.
SaveLoginUnkeyed(a, c) ==
    /\ Ready
    /\ ~Stored(c)
    /\ Commit(c, a, "cq_oauth")
    /\ at' = "upsert" /\ op' = NoCall
    /\ UNCHANGED <<plan, faults, auth, rows, proj, journal, open>>

\* SaveLogin replaces the account's own OAuth record, or adds one. File names
\* are random and unused; the model may reuse a deleted one.
SaveLogin(a, c) ==
    /\ Ready
    /\ \/ c \in RecordsOf(a) /\ rec[c].prov = "cq_oauth"
       \/ /\ ~Stored(c)
          /\ \A d \in RecordsOf(a) : rec[d].prov # "cq_oauth"
    /\ Commit(c, a, "cq_oauth")
    /\ \/ /\ at' = "upsert"
          /\ op' = [NoCall EXCEPT !.acct = a]
          /\ UNCHANGED <<plan, faults>>
       \/ Leave /\ Fault
    /\ UNCHANGED <<auth, rows, proj, journal, open>>

\* Adopt and Activate begin by adopting what auth.json holds; c and r are the
\* candidate and revision an activation names, None and NoRev an adoption.
BeginAdopt(c, r) ==
    /\ Ready
    /\ c = None => auth # NoAuth
    /\ at' = IF auth = NoAuth THEN "load" ELSE "adopt"
    /\ op' = [acct |-> None, snap |-> auth.rev, cand |-> c, rev |-> r]
    /\ UNCHANGED <<files, open, plan, nextRev, faults>>

\* adoptLocked: auth.json still has the snapshot's revision ...
CheckSnapshot ==
    /\ at = "adopt"
    /\ auth.rev = op.snap
    /\ at' = "import"
    /\ UNCHANGED <<files, open, op, plan, nextRev, faults>>

\* ... and is read once more: what it holds now refreshes a borrowed record,
\* leaves an owned one as it is, or becomes a new one.
Adopt ==
    /\ at = "import"
    /\ auth # NoAuth
    /\ \/ \E c \in RecordsOf(auth.acct) :
            \/ rec[c].prov = "system_borrowed" /\ Commit(c, auth.acct, "system_borrowed")
            \/ rec[c].prov # "system_borrowed" /\ UNCHANGED <<rec, nextRev>>
       \/ /\ RecordsOf(auth.acct) = {}
          /\ \E c \in Candidates : ~Stored(c) /\ Commit(c, auth.acct, "system_borrowed")
    /\ \/ /\ at' = "upsert"
          /\ op' = [op EXCEPT !.acct = auth.acct]
          /\ UNCHANGED <<plan, faults>>
       \/ Leave /\ Fault
    /\ UNCHANGED <<auth, rows, proj, journal, open>>

\* "system snapshot changed before adoption", or auth.json has gone.
AdoptRefused ==
    /\ \/ at = "adopt" /\ auth.rev # op.snap
       \/ at = "import" /\ auth = NoAuth
    /\ Leave
    /\ UNCHANGED <<files, open, nextRev, faults>>

\* projectManagedRecordLocked: the catalogue row follows the record.
UpsertAccount ==
    /\ at = "upsert"
    /\ rows' = rows \cup {op.acct}
    /\ Then(IF op.cand = None THEN "idle" ELSE "load")
    /\ UNCHANGED <<rec, auth, proj, journal, open, nextRev>>

\* Activate: load the candidate and commit its pending, exported state.
CommitActivation ==
    /\ at = "load"
    /\ Stored(op.cand) /\ rec[op.cand].rev = op.rev
    /\ Commit(op.cand, rec[op.cand].acct, rec[op.cand].prov)
    /\ Then("write")
    /\ UNCHANGED <<auth, rows, proj, journal, open>>

\* The candidate is gone, or adoption has just given it another revision.
ActivateRefused ==
    /\ at = "load"
    /\ ~(Stored(op.cand) /\ rec[op.cand].rev = op.rev)
    /\ Leave
    /\ UNCHANGED <<files, open, nextRev, faults>>

\* FileSystemActivator.Activate replaces auth.json.
WriteSystemAuth ==
    /\ at = "write"
    /\ FreshRev
    /\ auth' = [acct |-> rec[op.cand].acct, rev |-> nextRev]
    /\ Then("project")
    /\ UNCHANGED <<rec, rows, proj, journal, open>>

\* ... and projects the active account; a projection error is only reported.
ProjectActive ==
    /\ at = "project"
    /\ \/ proj' = rec[op.cand].acct /\ UNCHANGED faults
       \/ UNCHANGED proj /\ Fault
    /\ at' = "ready"
    /\ UNCHANGED <<rec, auth, rows, journal, open, op, plan, nextRev>>

\* Activate's second commit.
CommitActivated ==
    /\ at = "ready"
    /\ Commit(op.cand, rec[op.cand].acct, rec[op.cand].prov)
    /\ Then("idle")
    /\ UNCHANGED <<auth, rows, proj, journal, open>>

-----------------------------------------------------------------------------
(* Removal.                                                                *)

\* RemoveManaged: one inventory supplies the account's managed revisions,
\* which must be the ones the caller names, and whether it is active.
BeginRemove(a) ==
    /\ Ready
    /\ RecordsOf(a) # {} \/ auth.acct = a
    /\ plan' = [acct |-> a,
                cands |-> [c \in Candidates |->
                             IF c \in RecordsOf(a) THEN rec[c].rev ELSE NoRev],
                sys |-> NoRev]
    /\ at' = IF auth.acct = a THEN "plan" ELSE "save"
    /\ UNCHANGED <<files, open, op, nextRev, faults>>

\* A second read of auth.json supplies the revision to deactivate.
PlanActive ==
    /\ at = "plan"
    /\ IF auth = NoAuth
       THEN Leave
       ELSE at' = "save" /\ plan' = [plan EXCEPT !.sys = auth.rev] /\ UNCHANGED op
    /\ UNCHANGED <<files, open, nextRev, faults>>

\* Journal.Save.
SaveJournal ==
    /\ at = "save"
    /\ journal' = plan
    /\ \/ at' = "delete" /\ plan' = NoPlan /\ UNCHANGED <<op, faults>>
       \/ Leave /\ Fault
    /\ UNCHANGED <<rec, auth, rows, proj, open, nextRev>>

\* resumeRemoval, entered by RecoverRemoval, by RecoverCredentialState when
\* the owner opens, and by every mutating call.
Resume ==
    /\ at = "idle" /\ Pending
    /\ at' = "delete"
    /\ UNCHANGED <<files, open, op, plan, nextRev, faults>>

\* The record is the plan's, at the planned revision.
Planned(c) == rec[c].acct = journal.acct /\ rec[c].rev = journal.cands[c]

\* One planned record: ErrStaleRevision unless it is as planned.
DeleteRecord(c) ==
    /\ at = "delete"
    /\ journal.cands[c] # NoRev /\ Stored(c)
    /\ IF Planned(c)
       THEN rec' = [rec EXCEPT ![c] = NoFile] /\ Then("delete")
       ELSE Leave /\ UNCHANGED <<rec, faults>>
    /\ UNCHANGED <<auth, rows, proj, journal, open, nextRev>>

Deleted == \A c \in Candidates : journal.cands[c] # NoRev => ~Stored(c)

\* Mutant: the system credential is left in place.
AfterDeleteSkipsSystem == "registry"

\* Mutant: a plan without a system revision is cleared before the catalogue.
AfterDeleteSkipsRegistry == IF journal.sys # NoRev THEN "system" ELSE "clear"

AfterDelete == IF journal.sys # NoRev THEN "system" ELSE "registry"

DeletesDone ==
    /\ at = "delete"
    /\ Deleted
    /\ at' = AfterDelete
    /\ UNCHANGED <<files, open, op, plan, nextRev, faults>>

\* Mutant: a system credential that is already gone is a stale plan.
CheckSystemNeedsAuth ==
    /\ at = "system"
    /\ IF auth.rev = journal.sys THEN at' = "deactivate" /\ UNCHANGED <<op, plan>>
                                 ELSE Leave
    /\ UNCHANGED <<files, open, nextRev, faults>>

\* Activator.Active: absent is done, another revision is stale.
CheckSystem ==
    /\ at = "system"
    /\ CASE auth = NoAuth            -> at' = "registry" /\ UNCHANGED <<op, plan>>
         [] auth.rev = journal.sys   -> at' = "deactivate" /\ UNCHANGED <<op, plan>>
         [] OTHER                    -> Leave
    /\ UNCHANGED <<files, open, nextRev, faults>>

\* Deactivate reads auth.json once more and compares it.
Deactivate ==
    /\ at = "deactivate"
    /\ IF auth.rev = journal.sys THEN at' = "rmauth" /\ UNCHANGED <<op, plan>>
                                 ELSE Leave
    /\ UNCHANGED <<files, open, nextRev, faults>>

\* Remove(auth.json), whatever it holds by now.
RemoveAuth ==
    /\ at = "rmauth"
    /\ IF auth = NoAuth
       THEN Leave /\ UNCHANGED faults
       ELSE Then("unproject")
    /\ auth' = NoAuth
    /\ UNCHANGED <<rec, rows, proj, journal, open, nextRev>>

\* ProjectActive(""): an error is only reported.
Unproject ==
    /\ at = "unproject"
    /\ \/ proj' = None /\ UNCHANGED faults
       \/ UNCHANGED proj /\ Fault
    /\ at' = "registry"
    /\ UNCHANGED <<rec, auth, rows, journal, open, op, plan, nextRev>>

\* Registry.RemoveAccounts with the plan's keys.
RemoveRows ==
    /\ at = "registry"
    /\ rows' = rows \ {journal.acct}
    /\ proj' = IF proj = journal.acct THEN None ELSE proj
    /\ Then("clear")
    /\ UNCHANGED <<rec, auth, journal, open, nextRev>>

\* Journal.Clear.
ClearJournal ==
    /\ at = "clear"
    /\ journal' = NoPlan
    /\ Then("idle")
    /\ UNCHANGED <<rec, auth, rows, proj, open, nextRev>>

-----------------------------------------------------------------------------
(* Failures, the Codex CLI and the life of the process.                    *)

\* A storage step fails before its effect.
StepFails ==
    /\ at \notin {"idle", "project", "unproject"}
    /\ Fault
    /\ Leave
    /\ UNCHANGED <<files, open, nextRev>>

\* The Codex CLI logs in to an account or rotates its tokens, or logs out.
CLIWrites(a) ==
    /\ FreshRev
    /\ auth' = [acct |-> a, rev |-> nextRev]
    /\ UNCHANGED <<rec, rows, proj, journal, call, faults>>

CLILogsOut ==
    /\ auth # NoAuth
    /\ auth' = NoAuth
    /\ UNCHANGED <<rec, rows, proj, journal, call, nextRev, faults>>

Crash ==
    /\ Fault
    /\ open' = FALSE
    /\ Leave
    /\ UNCHANGED <<files, nextRev>>

\* RecoverCredentialState after the pending removal: rebuild catalogue rows
\* from the records; an error part of the way leaves the owner closed.
Recover ==
    /\ at = "idle" /\ ~open /\ ~Pending
    /\ LET held == {rec[c].acct : c \in {d \in Candidates : Stored(d)}}
       IN  \/ rows' = rows \cup held /\ open' = TRUE /\ UNCHANGED faults
           \/ /\ \E some \in SUBSET held : rows' = rows \cup some
              /\ open' = FALSE /\ Fault
    /\ UNCHANGED <<rec, auth, proj, journal, at, op, plan, nextRev>>

-----------------------------------------------------------------------------
RemovalStep ==
    \/ PlanActive \/ SaveJournal
    \/ \E c \in Candidates : DeleteRecord(c)
    \/ DeletesDone \/ CheckSystem \/ Deactivate \/ RemoveAuth \/ Unproject
    \/ RemoveRows \/ ClearJournal

ActivationStep ==
    \/ CheckSnapshot \/ Adopt \/ AdoptRefused \/ UpsertAccount
    \/ CommitActivation \/ ActivateRefused \/ WriteSystemAuth
    \/ ProjectActive \/ CommitActivated

Calls ==
    \/ \E a \in Accounts : BeginRemove(a)
    \/ \E a \in Accounts, c \in Candidates : SaveLogin(a, c)
    \/ BeginAdopt(None, NoRev)
    \/ \E c \in Candidates : Stored(c) /\ BeginAdopt(c, rec[c].rev)

Outside == StepFails \/ CLILogsOut \/ Crash \/ \E a \in Accounts : CLIWrites(a)

Next == RemovalStep \/ ActivationStep \/ Calls \/ Resume \/ Recover \/ Outside

Spec == Init /\ [][Next]_vars

\* The holder of mu runs, and callers come back: the supervisor reopens the
\* owner, whose opening resumes the removal, and so does every other call.
LiveSpec ==
    Spec /\ WF_vars(RemovalStep) /\ WF_vars(ActivationStep)
         /\ WF_vars(Resume) /\ WF_vars(Recover)
-----------------------------------------------------------------------------
(* Properties.                                                             *)

\* Every account the catalogue names, by a row or as the active account, has a
\* managed record or is the subject of the journalled removal: no failure or
\* crash between the four files leaves a removed account in registry.json.
CatalogueBacked ==
    \A a \in rows \cup ({proj} \ {None}) : RecordsOf(a) # {} \/ journal.acct = a

\* The managed half of a journalled plan never goes stale: each record it names
\* is gone or still at the planned revision, so resumeRemoval cannot be wedged
\* by CQ's own logins, adoptions and activations, nor delete a newer login.
PlanCurrent ==
    \A c \in Candidates :
        journal.cands[c] # NoRev /\ Stored(c) => Planned(c)

\* When the journal is cleared the removal is complete: the planned records and
\* the planned system credential are gone and the catalogue has forgotten the
\* account, however often the removal was interrupted.
ClearedIsRemoved ==
    [][Pending /\ journal' = NoPlan =>
         /\ Deleted
         /\ journal.sys # NoRev => auth.rev # journal.sys
         /\ journal.acct \notin rows /\ proj # journal.acct]_vars

\* A journalled removal completes, unless auth.json has come to hold something
\* the plan did not expect.
RemovalCompletes ==
    Pending ~> \/ ~Pending
               \/ journal.sys # NoRev /\ auth # NoAuth /\ auth.rev # journal.sys

(* What tests of the repository say and the code does not do.              *)

\* TestCredentialCoordinatorSystemRevisionRaceLeavesRemovalRecoverable: a
\* removal interrupted by a change of auth.json can still be finished.
RemovalRecoverable == Pending ~> ~Pending

\* TestCredentialCoordinatorRemovingInactiveAccountKeepsOtherSystemAccount: a
\* removal that finds the system revision it planned for removes the system
\* credential of its own account and of no other.
UnrelatedSystemKept ==
    [][RemoveAuth /\ auth # NoAuth /\ auth.rev = journal.sys =>
         auth.acct = journal.acct]_vars

\* TestFileSystemActivatorDeactivateRequiresExactActiveRevision: the auth.json
\* that Deactivate removes has the revision it was asked to remove.
DeactivateExact ==
    [][RemoveAuth /\ auth # NoAuth => auth.rev = journal.sys]_vars
=============================================================================
