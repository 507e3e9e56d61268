----------------------- MODULE CredentialRemovalProofs -----------------------
(***************************************************************************)
(* Proofs about CredentialRemoval for every set of accounts and records    *)
(* and every bound.  That the catalogue is backed and a plan stays current *)
(* is not inductive by itself: it needs what each location of the removal  *)
(* says about the files already dealt with, and that a call which changes  *)
(* records is never under way while a plan is journalled.                  *)
(***************************************************************************)
EXTENDS CredentialRemoval, TLAPS

\* None stands for an absent file and for nothing else.
Shapes ==
    /\ \A c \in Candidates : rec[c] = NoFile \/ (Stored(c) /\ rec[c].acct \in Accounts)
    /\ auth = NoAuth \/ (auth.rev # NoRev /\ auth.acct \in Accounts)
    /\ journal = NoPlan \/ journal.acct \in Accounts

\* Revisions in use have been issued.
Issued == auth.rev < nextRev /\ journal.sys < nextRev /\ plan.sys < nextRev

\* A removal is being carried out exactly while its plan is journalled.
Journalled ==
    /\ at \in {"upsert", "adopt", "import", "load", "write", "project",
               "ready", "plan", "save"} => ~Pending
    /\ at \in {"delete", "system", "deactivate", "rmauth", "unproject",
               "registry", "clear"} => Pending

\* The arguments of the call under way.
Arguments ==
    /\ at = "upsert" => op.acct \in Accounts /\ RecordsOf(op.acct) # {}
    /\ at \in {"upsert", "adopt", "import"} => op.cand \in Candidates \cup {None}
    /\ at \in {"load", "write", "project", "ready"} => op.cand \in Candidates
    /\ at \in {"write", "project", "ready"} => Stored(op.cand)
    /\ at \in {"plan", "save"} =>
         /\ plan.acct \in Accounts
         /\ \A c \in Candidates : plan.cands[c] # NoRev =>
              rec[c].acct = plan.acct /\ rec[c].rev = plan.cands[c]

\* What the location of the removal says is done.
Progress ==
    /\ at \in {"system", "deactivate", "rmauth", "unproject", "registry",
               "clear"} => Deleted
    /\ at \in {"unproject", "registry", "clear"} /\ journal.sys # NoRev =>
         auth.rev # journal.sys
    /\ at = "clear" => journal.acct \notin rows /\ proj # journal.acct

Inv ==
    /\ TypeOK /\ Shapes /\ Issued /\ Journalled /\ Arguments /\ Progress
    /\ CatalogueBacked /\ PlanCurrent

-----------------------------------------------------------------------------
(* Steps that share an argument.                                           *)

\* What the invariant says of the files holds while the files stand.
LEMMA FilesKept ==
    ASSUME Inv, UNCHANGED files
    PROVE  Shapes' /\ CatalogueBacked' /\ PlanCurrent'
BY DEF Inv, files, Shapes, CatalogueBacked, PlanCurrent, Planned, Stored,
       RecordsOf

\* Leaving a call without an effect preserves the invariant.
LEMMA LeaveInv ==
    ASSUME Inv, Leave, UNCHANGED <<files, nextRev>>,
           open' \in BOOLEAN, faults' \in 0..MaxFaults
    PROVE  Inv'
<1>1. at' = "idle" /\ op' = NoCall /\ plan' = NoPlan
    BY DEF Leave
<1>2. op' \in [acct : Accounts \cup {None}, snap : Revisions,
               cand : Candidates \cup {None}, rev : Revisions]
    BY <1>1, RemovalAssumption DEF NoCall, NoRev, Revisions
<1>3. plan' \in Plan
    BY <1>1, RemovalAssumption DEF NoPlan, Plan, NoRev, Revisions
<1>4. TypeOK'
    BY <1>1, <1>2, <1>3 DEF Inv, TypeOK, files, Locations
<1>5. Shapes' /\ CatalogueBacked' /\ PlanCurrent'
    BY FilesKept
<1>6. Issued'
    BY <1>1 DEF Inv, Issued, TypeOK, NoPlan, NoRev, files
<1>7. Journalled' /\ Arguments' /\ Progress'
    BY <1>1 DEF Journalled, Arguments, Progress
<1> QED
    BY <1>4, <1>5, <1>6, <1>7 DEF Inv

\* A fault stays within its bound.
LEMMA FaultBound ==
    ASSUME faults \in 0..MaxFaults, Fault
    PROVE  faults' \in 0..MaxFaults
BY RemovalAssumption DEF Fault

\* So do the refusals, failures and crashes, which only leave.
LEMMA RefusalsInv ==
    ASSUME Inv, AdoptRefused \/ ActivateRefused \/ StepFails \/ Crash
    PROVE  Inv'
<1>0. open \in BOOLEAN /\ faults \in 0..MaxFaults
    BY DEF Inv, TypeOK
<1>1. CASE AdoptRefused
    BY <1>0, <1>1, LeaveInv DEF AdoptRefused
<1>2. CASE ActivateRefused
    BY <1>0, <1>2, LeaveInv DEF ActivateRefused
<1>3. CASE StepFails
    BY <1>0, <1>3, LeaveInv, FaultBound DEF StepFails
<1>4. CASE Crash
    BY <1>0, <1>4, LeaveInv, FaultBound DEF Crash
<1> QED
    BY <1>1, <1>2, <1>3, <1>4

-----------------------------------------------------------------------------
(* One lemma per remaining action.                                         *)

\* Saving a login preserves the invariant.
LEMMA SaveLoginInv ==
    ASSUME Inv, NEW a \in Accounts, NEW c \in Candidates, SaveLogin(a, c)
    PROVE  Inv'
<1>1. journal = NoPlan /\ journal' = NoPlan
    BY RemovalAssumption DEF Inv, Shapes, Journalled, Pending, Ready, SaveLogin
<1>2. TypeOK'
    BY RemovalAssumption DEF Inv, TypeOK, Record, System, Plan, Provenances,
           Revisions, Locations, NoRev, NoFile, NoAuth, NoPlan, NoCall,
           SaveLogin, Leave, Fault, Commit, Ready, Stored, RecordsOf,
           Pending, FreshRev
<1>3. Shapes'
    BY DEF Inv, Shapes, Stored, NoFile, NoAuth, NoPlan, NoRev, TypeOK,
           SaveLogin, Leave, Fault, Commit, Ready, NoCall, RecordsOf,
           Pending, FreshRev
<1>4. Issued'
    BY RemovalAssumption DEF Inv, Issued, TypeOK, System, Plan, Revisions,
           NoAuth, NoPlan, NoRev, SaveLogin, Leave, Fault, Commit, Ready,
           NoCall, Stored, RecordsOf, Pending, FreshRev
<1>5. Journalled'
    BY DEF Inv, Journalled, Pending, NoPlan, TypeOK, SaveLogin, Leave,
           Fault, Commit, Ready, NoCall, Stored, RecordsOf, NoRev, FreshRev
<1>6. Arguments'
    BY <1>1 DEF Inv, Arguments, Shapes, Stored, RecordsOf, TypeOK, NoAuth,
           NoRev, Issued, SaveLogin, Leave, Fault, Commit, Ready, NoCall,
           Pending, FreshRev, NoPlan
<1>7. Progress'
    BY DEF Inv, Progress, Deleted, Stored, NoAuth, NoRev, NoFile, TypeOK,
           Issued, SaveLogin, Leave, Fault, Commit, Ready, NoCall,
           RecordsOf, Pending, FreshRev, NoPlan
<1>8. CatalogueBacked'
    BY DEF Inv, CatalogueBacked, RecordsOf, Stored, NoFile, NoRev, TypeOK,
           Shapes, Journalled, Pending, Arguments, SaveLogin, Leave, Fault,
           Commit, Ready, NoCall, FreshRev, NoPlan
<1>9. PlanCurrent'
    BY <1>1 DEF PlanCurrent, NoPlan
<1> QED
    BY <1>2, <1>3, <1>4, <1>5, <1>6, <1>7, <1>8, <1>9 DEF Inv

\* Reading the system snapshot preserves the invariant.
LEMMA BeginAdoptInv ==
    ASSUME Inv, NEW c \in Candidates \cup {None}, NEW r \in Revisions, BeginAdopt(c, r)
    PROVE  Inv'
<1>1. TypeOK'
    BY RemovalAssumption DEF Inv, TypeOK, Record, System, Plan, Provenances,
           Revisions, Locations, NoRev, NoFile, NoAuth, NoPlan, NoCall,
           BeginAdopt, Ready, files, Pending
<1>2. Shapes' /\ CatalogueBacked' /\ PlanCurrent'
    BY FilesKept DEF BeginAdopt
<1>3. Issued'
    BY RemovalAssumption DEF Inv, Issued, TypeOK, System, Plan, Revisions,
           NoAuth, NoPlan, NoRev, BeginAdopt, Ready, files, Pending
<1>4. Journalled'
    BY DEF Inv, Journalled, Pending, NoPlan, TypeOK, BeginAdopt, Ready,
           files, NoAuth, NoRev
<1>5. Arguments'
    BY DEF Inv, Arguments, Shapes, Stored, RecordsOf, TypeOK, NoAuth, NoRev,
           Issued, BeginAdopt, Ready, files, Pending
<1>6. Progress'
    BY DEF Inv, Progress, Deleted, Stored, NoAuth, NoRev, NoFile, TypeOK,
           Issued, BeginAdopt, Ready, files, Pending
<1> QED
    BY <1>1, <1>2, <1>3, <1>4, <1>5, <1>6 DEF Inv

\* Checking the system snapshot preserves the invariant.
LEMMA CheckSnapshotInv ==
    ASSUME Inv, CheckSnapshot
    PROVE  Inv'
<1>1. TypeOK'
    BY RemovalAssumption DEF Inv, TypeOK, Record, System, Plan, Provenances,
           Revisions, Locations, NoRev, NoFile, NoAuth, NoPlan, NoCall,
           CheckSnapshot, files
<1>2. Shapes' /\ CatalogueBacked' /\ PlanCurrent'
    BY FilesKept DEF CheckSnapshot
<1>3. Issued'
    BY RemovalAssumption DEF Inv, Issued, TypeOK, System, Plan, Revisions,
           NoAuth, NoPlan, NoRev, CheckSnapshot, files
<1>4. Journalled'
    BY DEF Inv, Journalled, Pending, NoPlan, TypeOK, CheckSnapshot, files
<1>5. Arguments'
    BY DEF Inv, Arguments, Shapes, Stored, RecordsOf, TypeOK, NoAuth, NoRev,
           Issued, CheckSnapshot, files
<1>6. Progress'
    BY DEF Inv, Progress, Deleted, Stored, NoAuth, NoRev, NoFile, TypeOK,
           Issued, CheckSnapshot, files
<1> QED
    BY <1>1, <1>2, <1>3, <1>4, <1>5, <1>6 DEF Inv

\* Adopting the system credential preserves the invariant.
LEMMA AdoptInv ==
    ASSUME Inv, Adopt
    PROVE  Inv'
<1>1. journal = NoPlan /\ journal' = NoPlan
    BY RemovalAssumption DEF Inv, Shapes, Journalled, Pending, Ready, Adopt
<1>2. auth.acct \in Accounts
    BY DEF Inv, Shapes, NoAuth, Adopt
<1>3. TypeOK'
    BY SMTT(30), RemovalAssumption, <1>2 DEF Inv, TypeOK, Record, System, Plan,
           Provenances, Revisions, Locations, NoRev, NoFile, NoAuth, NoPlan,
           NoCall, Adopt, Leave, Fault, Commit, Stored, RecordsOf, FreshRev
<1>4. Shapes'
    BY <1>1, <1>2 DEF Inv, Shapes, Stored, NoFile, NoAuth, NoPlan, NoRev,
           TypeOK, Adopt, Leave, Fault, Commit, RecordsOf, FreshRev, NoCall,
           Arguments
<1>5. Issued'
    BY RemovalAssumption DEF Inv, Issued, TypeOK, System, Plan, Revisions,
           NoAuth, NoPlan, NoRev, Adopt, Leave, Fault, Commit, Stored,
           RecordsOf, FreshRev, NoCall
<1>6. Journalled'
    BY DEF Inv, Journalled, Pending, NoPlan, TypeOK, Adopt, Leave, Fault,
           Commit, NoAuth, Stored, RecordsOf, NoRev, FreshRev, NoCall
<1>7. Arguments'
    BY <1>2 DEF Inv, Arguments, Shapes, Stored, RecordsOf, TypeOK, NoAuth,
           NoRev, Issued, Adopt, Leave, Fault, Commit, FreshRev, NoCall,
           NoPlan
<1>8. Progress'
    BY DEF Inv, Progress, Deleted, Stored, NoAuth, NoRev, NoFile, TypeOK,
           Issued, Adopt, Leave, Fault, Commit, RecordsOf, FreshRev, NoCall,
           NoPlan
<1>9. CatalogueBacked'
    BY DEF Inv, CatalogueBacked, RecordsOf, Stored, NoFile, NoRev, TypeOK,
           Shapes, Journalled, Pending, Arguments, Adopt, Leave, Fault,
           Commit, NoAuth, FreshRev, NoCall, NoPlan
<1>10. PlanCurrent'
    BY <1>1 DEF PlanCurrent, NoPlan
<1> QED
    BY <1>3, <1>4, <1>5, <1>6, <1>7, <1>8, <1>9, <1>10 DEF Inv

\* Projecting the catalogue row preserves the invariant.
LEMMA UpsertAccountInv ==
    ASSUME Inv, UpsertAccount
    PROVE  Inv'
<1>1. op.acct \in Accounts
    BY DEF Inv, Arguments, UpsertAccount
<1>2. TypeOK'
    BY RemovalAssumption, <1>1 DEF Inv, TypeOK, Record, System, Plan,
           Provenances, Revisions, Locations, NoRev, NoFile, NoAuth, NoPlan,
           NoCall, UpsertAccount, Then, Leave, Fault
<1>3. Shapes'
    BY <1>1 DEF Inv, Shapes, Stored, NoFile, NoAuth, NoPlan, NoRev, TypeOK,
           UpsertAccount, Then, Leave, Fault, NoCall
<1>4. Issued'
    BY RemovalAssumption, <1>1 DEF Inv, Issued, TypeOK, System, Plan,
           Revisions, NoAuth, NoPlan, NoRev, UpsertAccount, Then, Leave,
           Fault, NoCall
<1>5. Journalled'
    BY <1>1 DEF Inv, Journalled, Pending, NoPlan, TypeOK, UpsertAccount,
           Then, Leave, Fault, NoCall, NoRev
<1>6. Arguments'
    BY <1>1 DEF Inv, Arguments, Shapes, Stored, RecordsOf, TypeOK, NoAuth,
           NoRev, Issued, UpsertAccount, Then, Leave, Fault, NoCall, NoPlan
<1>7. Progress'
    BY <1>1 DEF Inv, Progress, Deleted, Stored, NoAuth, NoRev, NoFile,
           TypeOK, Issued, UpsertAccount, Then, Leave, Fault, NoCall, NoPlan
<1>8. CatalogueBacked'
    BY <1>1 DEF Inv, CatalogueBacked, RecordsOf, Stored, NoFile, NoRev,
           TypeOK, Shapes, Journalled, Pending, Arguments, UpsertAccount,
           Then, Leave, Fault, NoCall, NoPlan
<1>9. PlanCurrent'
    BY <1>1 DEF Inv, PlanCurrent, Planned, Stored, NoRev, NoFile, NoPlan,
           TypeOK, Journalled, Pending, UpsertAccount, Then, Leave, Fault,
           NoCall
<1> QED
    BY <1>2, <1>3, <1>4, <1>5, <1>6, <1>7, <1>8, <1>9 DEF Inv

\* Committing a pending activation preserves the invariant.
LEMMA CommitActivationInv ==
    ASSUME Inv, CommitActivation
    PROVE  Inv'
<1>1. journal = NoPlan /\ journal' = NoPlan
    BY RemovalAssumption DEF Inv, Shapes, Journalled, Pending, Ready, CommitActivation
<1>2. op.cand \in Candidates /\ Stored(op.cand) /\ rec[op.cand].acct \in Accounts
    BY DEF Inv, Arguments, Shapes, Stored, NoFile, CommitActivation
<1>3. TypeOK'
    BY RemovalAssumption, <1>2 DEF Inv, TypeOK, Record, System, Plan,
           Provenances, Revisions, Locations, NoRev, NoFile, NoAuth, NoPlan,
           NoCall, CommitActivation, Then, Commit, Stored, FreshRev, Leave,
           Fault
<1>4. Shapes'
    BY <1>2 DEF Inv, Shapes, Stored, NoFile, NoAuth, NoPlan, NoRev, TypeOK,
           CommitActivation, Then, Commit, FreshRev, Leave, Fault, NoCall
<1>5. Issued'
    BY RemovalAssumption DEF Inv, Issued, TypeOK, System, Plan, Revisions,
           NoAuth, NoPlan, NoRev, CommitActivation, Then, Commit, Stored,
           FreshRev, Leave, Fault, NoCall
<1>6. Journalled'
    BY DEF Inv, Journalled, Pending, NoPlan, TypeOK, CommitActivation, Then,
           Commit, Stored, NoRev, FreshRev, Leave, Fault, NoCall
<1>7. Arguments'
    BY DEF Inv, Arguments, Shapes, Stored, RecordsOf, TypeOK, NoAuth, NoRev,
           Issued, CommitActivation, Then, Commit, FreshRev, Leave, Fault,
           NoCall, NoPlan
<1>8. Progress'
    BY DEF Inv, Progress, Deleted, Stored, NoAuth, NoRev, NoFile, TypeOK,
           Issued, CommitActivation, Then, Commit, FreshRev, Leave, Fault,
           NoCall, NoPlan
<1>9. CatalogueBacked'
    BY SMTT(30) DEF Inv, CatalogueBacked, RecordsOf, Stored, NoFile, NoRev, TypeOK,
           Shapes, Journalled, Pending, Arguments, CommitActivation, Then,
           Commit, FreshRev, Leave, Fault, NoCall, NoPlan
<1>10. PlanCurrent'
    BY <1>1 DEF PlanCurrent, NoPlan
<1> QED
    BY <1>3, <1>4, <1>5, <1>6, <1>7, <1>8, <1>9, <1>10 DEF Inv

\* Writing auth.json preserves the invariant.
LEMMA WriteSystemAuthInv ==
    ASSUME Inv, WriteSystemAuth
    PROVE  Inv'
<1>1. op.cand \in Candidates /\ Stored(op.cand) /\ rec[op.cand].acct \in Accounts
    BY DEF Inv, Arguments, Shapes, Stored, NoFile, WriteSystemAuth
<1>2. TypeOK'
    BY RemovalAssumption, <1>1 DEF Inv, TypeOK, Record, System, Plan,
           Provenances, Revisions, Locations, NoRev, NoFile, NoAuth, NoPlan,
           NoCall, WriteSystemAuth, Then, FreshRev, Leave, Fault
<1>3. Shapes'
    BY <1>1 DEF Inv, Shapes, Stored, NoFile, NoAuth, NoPlan, NoRev, TypeOK,
           WriteSystemAuth, Then, FreshRev, Leave, Fault, NoCall
<1>4. Issued'
    BY RemovalAssumption, <1>1 DEF Inv, Issued, TypeOK, System, Plan,
           Revisions, NoAuth, NoPlan, NoRev, WriteSystemAuth, Then,
           FreshRev, Leave, Fault, NoCall
<1>5. Journalled'
    BY <1>1 DEF Inv, Journalled, Pending, NoPlan, TypeOK, WriteSystemAuth,
           Then, FreshRev, Leave, Fault, NoCall, NoRev
<1>6. Arguments'
    BY <1>1 DEF Inv, Arguments, Shapes, Stored, RecordsOf, TypeOK, NoAuth,
           NoRev, Issued, WriteSystemAuth, Then, FreshRev, Leave, Fault,
           NoCall, NoPlan
<1>7. Progress'
    BY <1>1 DEF Inv, Progress, Deleted, Stored, NoAuth, NoRev, NoFile,
           TypeOK, Issued, WriteSystemAuth, Then, FreshRev, Leave, Fault,
           NoCall, NoPlan
<1>8. CatalogueBacked'
    BY <1>1 DEF Inv, CatalogueBacked, RecordsOf, Stored, NoFile, NoRev,
           TypeOK, Shapes, Journalled, Pending, Arguments, WriteSystemAuth,
           Then, FreshRev, Leave, Fault, NoCall, NoPlan
<1>9. PlanCurrent'
    BY <1>1 DEF Inv, PlanCurrent, Planned, Stored, NoRev, NoFile, NoPlan,
           TypeOK, Journalled, Pending, WriteSystemAuth, Then, FreshRev,
           Leave, Fault, NoCall
<1> QED
    BY <1>2, <1>3, <1>4, <1>5, <1>6, <1>7, <1>8, <1>9 DEF Inv

\* Projecting the active account preserves the invariant.
LEMMA ProjectActiveInv ==
    ASSUME Inv, ProjectActive
    PROVE  Inv'
<1>1. op.cand \in Candidates /\ Stored(op.cand) /\ rec[op.cand].acct \in Accounts
    BY DEF Inv, Arguments, Shapes, Stored, NoFile, ProjectActive
<1>2. TypeOK'
    BY RemovalAssumption, <1>1 DEF Inv, TypeOK, Record, System, Plan,
           Provenances, Revisions, Locations, NoRev, NoFile, NoAuth, NoPlan,
           NoCall, ProjectActive, Fault
<1>3. Shapes'
    BY <1>1 DEF Inv, Shapes, Stored, NoFile, NoAuth, NoPlan, NoRev, TypeOK,
           ProjectActive, Fault
<1>4. Issued'
    BY RemovalAssumption, <1>1 DEF Inv, Issued, TypeOK, System, Plan,
           Revisions, NoAuth, NoPlan, NoRev, ProjectActive, Fault
<1>5. Journalled'
    BY <1>1 DEF Inv, Journalled, Pending, NoPlan, TypeOK, ProjectActive,
           Fault
<1>6. Arguments'
    BY <1>1 DEF Inv, Arguments, Shapes, Stored, RecordsOf, TypeOK, NoAuth,
           NoRev, Issued, ProjectActive, Fault
<1>7. Progress'
    BY <1>1 DEF Inv, Progress, Deleted, Stored, NoAuth, NoRev, NoFile,
           TypeOK, Issued, ProjectActive, Fault
<1>8. CatalogueBacked'
    BY <1>1 DEF Inv, CatalogueBacked, RecordsOf, Stored, NoFile, NoRev,
           TypeOK, Shapes, Journalled, Pending, Arguments, ProjectActive,
           Fault
<1>9. PlanCurrent'
    BY <1>1 DEF Inv, PlanCurrent, Planned, Stored, NoRev, NoFile, NoPlan,
           TypeOK, Journalled, Pending, ProjectActive, Fault
<1> QED
    BY <1>2, <1>3, <1>4, <1>5, <1>6, <1>7, <1>8, <1>9 DEF Inv

\* Committing a finished activation preserves the invariant.
LEMMA CommitActivatedInv ==
    ASSUME Inv, CommitActivated
    PROVE  Inv'
<1>1. journal = NoPlan /\ journal' = NoPlan
    BY RemovalAssumption DEF Inv, Shapes, Journalled, Pending, Ready, CommitActivated
<1>2. op.cand \in Candidates /\ Stored(op.cand) /\ rec[op.cand].acct \in Accounts
    BY DEF Inv, Arguments, Shapes, Stored, NoFile, CommitActivated
<1>3. TypeOK'
    BY RemovalAssumption, <1>2 DEF Inv, TypeOK, Record, System, Plan,
           Provenances, Revisions, Locations, NoRev, NoFile, NoAuth, NoPlan,
           NoCall, CommitActivated, Then, Commit, FreshRev, Leave, Fault
<1>4. Shapes'
    BY <1>2 DEF Inv, Shapes, Stored, NoFile, NoAuth, NoPlan, NoRev, TypeOK,
           CommitActivated, Then, Commit, FreshRev, Leave, Fault, NoCall
<1>5. Issued'
    BY RemovalAssumption DEF Inv, Issued, TypeOK, System, Plan, Revisions,
           NoAuth, NoPlan, NoRev, CommitActivated, Then, Commit, FreshRev,
           Leave, Fault, NoCall
<1>6. Journalled'
    BY DEF Inv, Journalled, Pending, NoPlan, TypeOK, CommitActivated, Then,
           Commit, FreshRev, Leave, Fault, NoCall, NoRev
<1>7. Arguments'
    BY DEF Inv, Arguments, Shapes, Stored, RecordsOf, TypeOK, NoAuth, NoRev,
           Issued, CommitActivated, Then, Commit, FreshRev, Leave, Fault,
           NoCall, NoPlan
<1>8. Progress'
    BY DEF Inv, Progress, Deleted, Stored, NoAuth, NoRev, NoFile, TypeOK,
           Issued, CommitActivated, Then, Commit, FreshRev, Leave, Fault,
           NoCall, NoPlan
<1>9. CatalogueBacked'
    BY DEF Inv, CatalogueBacked, RecordsOf, Stored, NoFile, NoRev, TypeOK,
           Shapes, Journalled, Pending, Arguments, CommitActivated, Then,
           Commit, FreshRev, Leave, Fault, NoCall, NoPlan
<1>10. PlanCurrent'
    BY <1>1 DEF PlanCurrent, NoPlan
<1> QED
    BY <1>3, <1>4, <1>5, <1>6, <1>7, <1>8, <1>9, <1>10 DEF Inv

\* Planning a removal preserves the invariant.
LEMMA BeginRemoveInv ==
    ASSUME Inv, NEW a \in Accounts, BeginRemove(a)
    PROVE  Inv'
<1>1. TypeOK'
    BY RemovalAssumption DEF Inv, TypeOK, Record, System, Plan, Provenances,
           Revisions, Locations, NoRev, NoFile, NoAuth, NoPlan, NoCall,
           BeginRemove, Ready, files, RecordsOf, Stored, Pending
<1>2. Shapes' /\ CatalogueBacked' /\ PlanCurrent'
    BY FilesKept DEF BeginRemove
<1>3. Issued'
    BY RemovalAssumption DEF Inv, Issued, TypeOK, System, Plan, Revisions,
           NoAuth, NoPlan, NoRev, BeginRemove, Ready, files, RecordsOf,
           Stored, Pending
<1>4. Journalled'
    BY DEF Inv, Journalled, Pending, NoPlan, TypeOK, BeginRemove, Ready,
           files, NoRev, RecordsOf, Stored
<1>5. Arguments'
    BY DEF Inv, Arguments, Shapes, Stored, RecordsOf, TypeOK, NoAuth, NoRev,
           Issued, BeginRemove, Ready, files, Pending
<1>6. Progress'
    BY DEF Inv, Progress, Deleted, Stored, NoAuth, NoRev, NoFile, TypeOK,
           Issued, BeginRemove, Ready, files, RecordsOf, Pending
<1> QED
    BY <1>1, <1>2, <1>3, <1>4, <1>5, <1>6 DEF Inv

\* Planning the system credential preserves the invariant.
LEMMA PlanActiveInv ==
    ASSUME Inv, PlanActive
    PROVE  Inv'
<1>1. TypeOK'
    BY RemovalAssumption DEF Inv, TypeOK, Record, System, Plan, Provenances,
           Revisions, Locations, NoRev, NoFile, NoAuth, NoPlan, NoCall,
           PlanActive, Leave, files
<1>2. Shapes' /\ CatalogueBacked' /\ PlanCurrent'
    BY FilesKept DEF PlanActive
<1>3. Issued'
    BY RemovalAssumption DEF Inv, Issued, TypeOK, System, Plan, Revisions,
           NoAuth, NoPlan, NoRev, PlanActive, Leave, files, NoCall
<1>4. Journalled'
    BY DEF Inv, Journalled, Pending, NoPlan, TypeOK, PlanActive, Leave,
           files, NoAuth, NoRev, NoCall
<1>5. Arguments'
  <2>1. CASE auth = NoAuth
    BY <2>1 DEF PlanActive, Leave, Arguments
  <2>2. CASE auth # NoAuth
    <3>1. at' = "save" /\ plan' = [plan EXCEPT !.sys = auth.rev] /\ rec' = rec
        BY <2>2 DEF PlanActive, files
    <3>2. plan'.acct = plan.acct /\ plan'.cands = plan.cands
        BY <3>1 DEF Inv, TypeOK, Plan
    <3>3. /\ plan.acct \in Accounts
          /\ \A c \in Candidates : plan.cands[c] # NoRev =>
                rec[c].acct = plan.acct /\ rec[c].rev = plan.cands[c]
        BY DEF Inv, Arguments, PlanActive
    <3> QED
        BY <3>1, <3>2, <3>3 DEF Arguments
  <2> QED
    BY <2>1, <2>2
<1>6. Progress'
    BY DEF Inv, Progress, Deleted, Stored, NoAuth, NoRev, NoFile, TypeOK,
           Issued, PlanActive, Leave, files, NoCall, NoPlan
<1> QED
    BY <1>1, <1>2, <1>3, <1>4, <1>5, <1>6 DEF Inv

\* Journalling the plan preserves the invariant.
LEMMA SaveJournalInv ==
    ASSUME Inv, SaveJournal
    PROVE  Inv'
<1>1. journal = NoPlan /\ plan.acct \in Accounts
    BY RemovalAssumption DEF Inv, Shapes, Journalled, Pending, Arguments, SaveJournal
<1>2. plan.acct # None
    BY <1>1, RemovalAssumption
<1>3. TypeOK'
    BY RemovalAssumption DEF Inv, TypeOK, Record, System, Plan, Provenances,
           Revisions, Locations, NoRev, NoFile, NoAuth, NoPlan, NoCall,
           SaveJournal, Leave, Fault
<1>4. Shapes'
    BY <1>1, <1>2 DEF Inv, Shapes, Stored, NoFile, NoAuth, NoPlan, NoRev,
           TypeOK, SaveJournal, Leave, Fault, NoCall
<1>5. Issued'
    BY RemovalAssumption DEF Inv, Issued, TypeOK, System, Plan, Revisions,
           NoAuth, NoPlan, NoRev, SaveJournal, Leave, Fault, NoCall
<1>6. Journalled'
    BY <1>1, <1>2 DEF Inv, Journalled, Pending, NoPlan, TypeOK, SaveJournal,
           Leave, Fault, NoRev, NoCall
<1>7. Arguments'
    BY DEF Inv, Arguments, Shapes, Stored, RecordsOf, TypeOK, NoAuth, NoRev,
           Issued, SaveJournal, Leave, Fault, NoPlan, NoCall
<1>8. Progress'
    BY DEF Inv, Progress, Deleted, Stored, NoAuth, NoRev, NoFile, TypeOK,
           Issued, SaveJournal, Leave, Fault, NoPlan, NoCall
<1>9. CatalogueBacked'
  <2>1. UNCHANGED <<rec, rows, proj>>
    BY DEF SaveJournal
  <2>2. \A a \in rows \cup ({proj} \ {None}) : a # None
    BY RemovalAssumption DEF Inv, TypeOK
  <2>3. \A a \in rows \cup ({proj} \ {None}) : RecordsOf(a) # {}
    BY <1>1, <2>2 DEF Inv, CatalogueBacked, NoPlan
  <2> QED
    BY <2>1, <2>3 DEF CatalogueBacked, RecordsOf, Stored
<1>10. PlanCurrent'
    BY <1>1, <1>2 DEF Inv, PlanCurrent, Planned, Stored, NoRev, NoFile,
           NoPlan, TypeOK, Journalled, Pending, SaveJournal, Leave, Fault,
           NoCall, Arguments
<1> QED
    BY <1>3, <1>4, <1>5, <1>6, <1>7, <1>8, <1>9, <1>10 DEF Inv

\* Resuming a removal preserves the invariant.
LEMMA ResumeInv ==
    ASSUME Inv, Resume
    PROVE  Inv'
<1>1. TypeOK'
    BY RemovalAssumption DEF Inv, TypeOK, Record, System, Plan, Provenances,
           Revisions, Locations, NoRev, NoFile, NoAuth, NoPlan, NoCall,
           Resume, files, Pending
<1>2. Shapes' /\ CatalogueBacked' /\ PlanCurrent'
    BY FilesKept DEF Resume
<1>3. Issued'
    BY RemovalAssumption DEF Inv, Issued, TypeOK, System, Plan, Revisions,
           NoAuth, NoPlan, NoRev, Resume, files, Pending
<1>4. Journalled'
    BY DEF Inv, Journalled, Pending, NoPlan, TypeOK, Resume, files
<1>5. Arguments'
    BY DEF Inv, Arguments, Shapes, Stored, RecordsOf, TypeOK, NoAuth, NoRev,
           Issued, Resume, files, Pending
<1>6. Progress'
    BY DEF Inv, Progress, Deleted, Stored, NoAuth, NoRev, NoFile, TypeOK,
           Issued, Resume, files, Pending
<1> QED
    BY <1>1, <1>2, <1>3, <1>4, <1>5, <1>6 DEF Inv

\* Deleting a planned record preserves the invariant.
LEMMA DeleteRecordInv ==
    ASSUME Inv, NEW c \in Candidates, DeleteRecord(c)
    PROVE  Inv'
<1>1. Planned(c)
    BY DEF Inv, PlanCurrent, DeleteRecord
<1>2. TypeOK'
  <2>1. rec' \in [Candidates -> Record]
    BY <1>1, RemovalAssumption DEF Inv, TypeOK, Record, NoFile, NoRev,
           Revisions, Provenances, DeleteRecord
  <2>2. Then("delete")
    BY <1>1 DEF DeleteRecord
  <2>3. NoPlan \in Plan
    BY RemovalAssumption DEF NoPlan, Plan, NoRev, Revisions
  <2> QED
    BY <2>1, <2>2, <2>3, FaultBound, RemovalAssumption DEF Inv, TypeOK, Then,
           Leave, NoCall, NoRev, Revisions, Locations, DeleteRecord
<1>3. Shapes'
    BY <1>1 DEF Inv, Shapes, Stored, NoFile, NoAuth, NoPlan, NoRev, TypeOK,
           DeleteRecord, Then, Leave, Planned, NoCall, Fault
<1>4. Issued'
    BY RemovalAssumption, <1>1 DEF Inv, Issued, TypeOK, System, Plan,
           Revisions, NoAuth, NoPlan, NoRev, DeleteRecord, Then, Leave,
           NoFile, Stored, Planned, NoCall, Fault
<1>5. Journalled'
    BY <1>1 DEF Inv, Journalled, Pending, NoPlan, TypeOK, DeleteRecord,
           Then, Leave, NoFile, NoRev, Stored, Planned, NoCall, Fault
<1>6. Arguments'
    BY <1>1 DEF Inv, Arguments, Shapes, Stored, RecordsOf, TypeOK, NoAuth,
           NoRev, Issued, DeleteRecord, Then, Leave, NoFile, Planned,
           NoCall, NoPlan, Fault
<1>7. Progress'
    BY <1>1 DEF Inv, Progress, Deleted, Stored, NoAuth, NoRev, NoFile,
           TypeOK, Issued, DeleteRecord, Then, Leave, Planned, NoCall,
           NoPlan, Fault
<1>8. CatalogueBacked'
  <2>1. /\ UNCHANGED <<rows, proj, journal>>
        /\ rec' = [rec EXCEPT ![c] = NoFile] /\ rec[c].acct = journal.acct
    BY <1>1 DEF DeleteRecord, Planned
  <2>2. \A d \in Candidates : d # c => rec'[d] = rec[d]
    BY <2>1 DEF Inv, TypeOK
  <2>3. \A a : a # journal.acct /\ RecordsOf(a) # {} => RecordsOf(a)' # {}
    BY <2>1, <2>2 DEF RecordsOf, Stored
  <2> QED
    BY <2>1, <2>3 DEF Inv, CatalogueBacked
<1>9. PlanCurrent'
    BY <1>1 DEF Inv, PlanCurrent, Planned, Stored, NoRev, NoFile, NoPlan,
           TypeOK, Journalled, Pending, DeleteRecord, Then, Leave, NoCall,
           Fault
<1> QED
    BY <1>2, <1>3, <1>4, <1>5, <1>6, <1>7, <1>8, <1>9 DEF Inv

\* Leaving the managed records preserves the invariant.
LEMMA DeletesDoneInv ==
    ASSUME Inv, DeletesDone
    PROVE  Inv'
<1>1. TypeOK'
    BY RemovalAssumption DEF Inv, TypeOK, Record, System, Plan, Provenances,
           Revisions, Locations, NoRev, NoFile, NoAuth, NoPlan, NoCall,
           DeletesDone, AfterDelete, files, Deleted, Stored
<1>2. Shapes' /\ CatalogueBacked' /\ PlanCurrent'
    BY FilesKept DEF DeletesDone
<1>3. Issued'
    BY RemovalAssumption DEF Inv, Issued, TypeOK, System, Plan, Revisions,
           NoAuth, NoPlan, NoRev, DeletesDone, AfterDelete, files, Deleted,
           Stored
<1>4. Journalled'
    BY DEF Inv, Journalled, Pending, NoPlan, TypeOK, DeletesDone,
           AfterDelete, files, Deleted, NoRev, Stored
<1>5. Arguments'
    BY DEF Inv, Arguments, Shapes, Stored, RecordsOf, TypeOK, NoAuth, NoRev,
           Issued, DeletesDone, AfterDelete, files, Deleted
<1>6. Progress'
    BY DEF Inv, Progress, Deleted, Stored, NoAuth, NoRev, NoFile, TypeOK,
           Issued, DeletesDone, AfterDelete, files
<1> QED
    BY <1>1, <1>2, <1>3, <1>4, <1>5, <1>6 DEF Inv

\* Checking the system credential preserves the invariant.
LEMMA CheckSystemInv ==
    ASSUME Inv, CheckSystem
    PROVE  Inv'
<1>1. TypeOK'
    BY RemovalAssumption DEF Inv, TypeOK, Record, System, Plan, Provenances,
           Revisions, Locations, NoRev, NoFile, NoAuth, NoPlan, NoCall,
           CheckSystem, Leave, files
<1>2. Shapes' /\ CatalogueBacked' /\ PlanCurrent'
    BY FilesKept DEF CheckSystem
<1>3. Issued'
    BY RemovalAssumption DEF Inv, Issued, TypeOK, System, Plan, Revisions,
           NoAuth, NoPlan, NoRev, CheckSystem, Leave, files, NoCall
<1>4. Journalled'
    BY DEF Inv, Journalled, Pending, NoPlan, TypeOK, CheckSystem, Leave,
           files, NoAuth, NoRev, NoCall
<1>5. Arguments'
    BY DEF Inv, Arguments, Shapes, Stored, RecordsOf, TypeOK, NoAuth, NoRev,
           Issued, CheckSystem, Leave, files, NoCall, NoPlan
<1>6. Progress'
    BY DEF Inv, Progress, Deleted, Stored, NoAuth, NoRev, NoFile, TypeOK,
           Issued, CheckSystem, Leave, files, NoCall, NoPlan
<1> QED
    BY <1>1, <1>2, <1>3, <1>4, <1>5, <1>6 DEF Inv

\* Checking it again preserves the invariant.
LEMMA DeactivateInv ==
    ASSUME Inv, Deactivate
    PROVE  Inv'
<1>1. TypeOK'
    BY RemovalAssumption DEF Inv, TypeOK, Record, System, Plan, Provenances,
           Revisions, Locations, NoRev, NoFile, NoAuth, NoPlan, NoCall,
           Deactivate, Leave, files
<1>2. Shapes' /\ CatalogueBacked' /\ PlanCurrent'
    BY FilesKept DEF Deactivate
<1>3. Issued'
    BY RemovalAssumption DEF Inv, Issued, TypeOK, System, Plan, Revisions,
           NoAuth, NoPlan, NoRev, Deactivate, Leave, files, NoCall
<1>4. Journalled'
    BY DEF Inv, Journalled, Pending, NoPlan, TypeOK, Deactivate, Leave,
           files, NoCall, NoRev
<1>5. Arguments'
    BY DEF Inv, Arguments, Shapes, Stored, RecordsOf, TypeOK, NoAuth, NoRev,
           Issued, Deactivate, Leave, files, NoCall, NoPlan
<1>6. Progress'
    BY DEF Inv, Progress, Deleted, Stored, NoAuth, NoRev, NoFile, TypeOK,
           Issued, Deactivate, Leave, files, NoCall, NoPlan
<1> QED
    BY <1>1, <1>2, <1>3, <1>4, <1>5, <1>6 DEF Inv

\* Removing auth.json preserves the invariant.
LEMMA RemoveAuthInv ==
    ASSUME Inv, RemoveAuth
    PROVE  Inv'
<1>1. TypeOK'
    BY RemovalAssumption DEF Inv, TypeOK, Record, System, Plan, Provenances,
           Revisions, Locations, NoRev, NoFile, NoAuth, NoPlan, NoCall,
           RemoveAuth, Then, Leave, Fault
<1>2. Shapes'
    BY DEF Inv, Shapes, Stored, NoFile, NoAuth, NoPlan, NoRev, TypeOK,
           RemoveAuth, Then, Leave, NoCall, Fault
<1>3. Issued'
    BY RemovalAssumption DEF Inv, Issued, TypeOK, System, Plan, Revisions,
           NoAuth, NoPlan, NoRev, RemoveAuth, Then, Leave, NoCall, Fault
<1>4. Journalled'
    BY DEF Inv, Journalled, Pending, NoPlan, TypeOK, RemoveAuth, Then,
           Leave, NoAuth, NoRev, NoCall, Fault
<1>5. Arguments'
    BY DEF Inv, Arguments, Shapes, Stored, RecordsOf, TypeOK, NoAuth, NoRev,
           Issued, RemoveAuth, Then, Leave, NoCall, NoPlan, Fault
<1>6. Progress'
    BY DEF Inv, Progress, Deleted, Stored, NoAuth, NoRev, NoFile, TypeOK,
           Issued, RemoveAuth, Then, Leave, NoCall, NoPlan, Fault
<1>7. CatalogueBacked'
    BY DEF Inv, CatalogueBacked, RecordsOf, Stored, NoFile, NoRev, TypeOK,
           Shapes, Journalled, Pending, Arguments, RemoveAuth, Then, Leave,
           NoAuth, NoCall, NoPlan, Fault
<1>8. PlanCurrent'
    BY DEF Inv, PlanCurrent, Planned, Stored, NoRev, NoFile, NoPlan, TypeOK,
           Journalled, Pending, RemoveAuth, Then, Leave, NoAuth, NoCall,
           Fault
<1> QED
    BY <1>1, <1>2, <1>3, <1>4, <1>5, <1>6, <1>7, <1>8 DEF Inv

\* Clearing the active account preserves the invariant.
LEMMA UnprojectInv ==
    ASSUME Inv, Unproject
    PROVE  Inv'
<1>1. TypeOK'
    BY RemovalAssumption DEF Inv, TypeOK, Record, System, Plan, Provenances,
           Revisions, Locations, NoRev, NoFile, NoAuth, NoPlan, NoCall,
           Unproject, Fault
<1>2. Shapes'
    BY DEF Inv, Shapes, Stored, NoFile, NoAuth, NoPlan, NoRev, TypeOK,
           Unproject, Fault
<1>3. Issued'
    BY RemovalAssumption DEF Inv, Issued, TypeOK, System, Plan, Revisions,
           NoAuth, NoPlan, NoRev, Unproject, Fault
<1>4. Journalled'
    BY DEF Inv, Journalled, Pending, NoPlan, TypeOK, Unproject, Fault
<1>5. Arguments'
    BY DEF Inv, Arguments, Shapes, Stored, RecordsOf, TypeOK, NoAuth, NoRev,
           Issued, Unproject, Fault
<1>6. Progress'
    BY DEF Inv, Progress, Deleted, Stored, NoAuth, NoRev, NoFile, TypeOK,
           Issued, Unproject, Fault
<1>7. CatalogueBacked'
    BY DEF Inv, CatalogueBacked, RecordsOf, Stored, NoFile, NoRev, TypeOK,
           Shapes, Journalled, Pending, Arguments, Unproject, Fault
<1>8. PlanCurrent'
    BY DEF Inv, PlanCurrent, Planned, Stored, NoRev, NoFile, NoPlan, TypeOK,
           Journalled, Pending, Unproject, Fault
<1> QED
    BY <1>1, <1>2, <1>3, <1>4, <1>5, <1>6, <1>7, <1>8 DEF Inv

\* Removing the catalogue rows preserves the invariant.
LEMMA RemoveRowsInv ==
    ASSUME Inv, RemoveRows
    PROVE  Inv'
<1>1. Pending /\ journal.acct # None
    BY DEF Inv, Journalled, Pending, RemoveRows
<1>2. TypeOK'
    BY RemovalAssumption DEF Inv, TypeOK, Record, System, Plan, Provenances,
           Revisions, Locations, NoRev, NoFile, NoAuth, NoPlan, NoCall,
           RemoveRows, Then, Leave, Fault
<1>3. Shapes'
    BY DEF Inv, Shapes, Stored, NoFile, NoAuth, NoPlan, NoRev, TypeOK,
           RemoveRows, Then, Leave, Fault, NoCall
<1>4. Issued'
    BY RemovalAssumption DEF Inv, Issued, TypeOK, System, Plan, Revisions,
           NoAuth, NoPlan, NoRev, RemoveRows, Then, Leave, Fault, NoCall
<1>5. Journalled'
    BY DEF Inv, Journalled, Pending, NoPlan, TypeOK, RemoveRows, Then,
           Leave, Fault, NoCall, NoRev
<1>6. Arguments'
    BY DEF Inv, Arguments, Shapes, Stored, RecordsOf, TypeOK, NoAuth, NoRev,
           Issued, RemoveRows, Then, Leave, Fault, NoCall, NoPlan
<1>7. Progress'
    BY <1>1 DEF Inv, Progress, Deleted, Stored, NoAuth, NoRev, NoFile,
           TypeOK, Issued, RemoveRows, Then, Leave, Fault, NoCall, NoPlan
<1>8. CatalogueBacked'
    BY DEF Inv, CatalogueBacked, RecordsOf, Stored, NoFile, NoRev, TypeOK,
           Shapes, Journalled, Pending, Arguments, RemoveRows, Then, Leave,
           Fault, NoCall, NoPlan
<1>9. PlanCurrent'
    BY DEF Inv, PlanCurrent, Planned, Stored, NoRev, NoFile, NoPlan, TypeOK,
           Journalled, Pending, RemoveRows, Then, Leave, Fault, NoCall
<1> QED
    BY <1>2, <1>3, <1>4, <1>5, <1>6, <1>7, <1>8, <1>9 DEF Inv

\* Clearing the journal preserves the invariant.
LEMMA ClearJournalInv ==
    ASSUME Inv, ClearJournal
    PROVE  Inv'
<1>1. journal' = NoPlan
    BY DEF ClearJournal
<1>2. TypeOK'
    BY RemovalAssumption DEF Inv, TypeOK, Record, System, Plan, Provenances,
           Revisions, Locations, NoRev, NoFile, NoAuth, NoPlan, NoCall,
           ClearJournal, Then, Leave, Fault
<1>3. Shapes'
    BY DEF Inv, Shapes, Stored, NoFile, NoAuth, NoPlan, NoRev, TypeOK,
           ClearJournal, Then, Leave, Fault, NoCall
<1>4. Issued'
    BY RemovalAssumption DEF Inv, Issued, TypeOK, System, Plan, Revisions,
           NoAuth, NoPlan, NoRev, ClearJournal, Then, Leave, Fault, NoCall
<1>5. Journalled'
    BY DEF Inv, Journalled, Pending, NoPlan, TypeOK, ClearJournal, Then,
           NoRev, Leave, Fault, NoCall
<1>6. Arguments'
    BY DEF Inv, Arguments, Shapes, Stored, RecordsOf, TypeOK, NoAuth, NoRev,
           Issued, ClearJournal, Then, NoPlan, Leave, Fault, NoCall
<1>7. Progress'
    BY DEF Inv, Progress, Deleted, Stored, NoAuth, NoRev, NoFile, TypeOK,
           Issued, ClearJournal, Then, NoPlan, Leave, Fault, NoCall
<1>8. CatalogueBacked'
  <2>1. UNCHANGED <<rec, rows, proj>>
    BY DEF ClearJournal
  <2>2. journal.acct \notin rows /\ proj # journal.acct
    BY DEF Inv, Progress, ClearJournal
  <2> QED
    BY <2>1, <2>2 DEF Inv, CatalogueBacked, RecordsOf, Stored
<1>9. PlanCurrent'
    BY <1>1 DEF PlanCurrent, NoPlan
<1> QED
    BY <1>2, <1>3, <1>4, <1>5, <1>6, <1>7, <1>8, <1>9 DEF Inv

\* A write of auth.json by the Codex CLI preserves the invariant.
LEMMA CLIWritesInv ==
    ASSUME Inv, NEW a \in Accounts, CLIWrites(a)
    PROVE  Inv'
<1>1. TypeOK'
    BY RemovalAssumption DEF Inv, TypeOK, Record, System, Plan, Provenances,
           Revisions, Locations, NoRev, NoFile, NoAuth, NoPlan, NoCall,
           CLIWrites, FreshRev, call
<1>2. Shapes'
    BY DEF Inv, Shapes, Stored, NoFile, NoAuth, NoPlan, NoRev, TypeOK,
           CLIWrites, FreshRev, call
<1>3. Issued'
    BY RemovalAssumption DEF Inv, Issued, TypeOK, System, Plan, Revisions,
           NoAuth, NoPlan, NoRev, CLIWrites, FreshRev, call
<1>4. Journalled'
    BY DEF Inv, Journalled, Pending, NoPlan, TypeOK, CLIWrites, FreshRev,
           call
<1>5. Arguments'
    BY DEF Inv, Arguments, Shapes, Stored, RecordsOf, TypeOK, NoAuth, NoRev,
           Issued, CLIWrites, FreshRev, call
<1>6. Progress'
    BY DEF Inv, Progress, Deleted, Stored, NoAuth, NoRev, NoFile, TypeOK,
           Issued, CLIWrites, FreshRev, call
<1>7. CatalogueBacked'
    BY DEF Inv, CatalogueBacked, RecordsOf, Stored, NoFile, NoRev, TypeOK,
           Shapes, Journalled, Pending, Arguments, CLIWrites, FreshRev, call
<1>8. PlanCurrent'
    BY DEF Inv, PlanCurrent, Planned, Stored, NoRev, NoFile, NoPlan, TypeOK,
           Journalled, Pending, CLIWrites, FreshRev, call
<1> QED
    BY <1>1, <1>2, <1>3, <1>4, <1>5, <1>6, <1>7, <1>8 DEF Inv

\* A logout by the Codex CLI preserves the invariant.
LEMMA CLILogsOutInv ==
    ASSUME Inv, CLILogsOut
    PROVE  Inv'
<1>1. TypeOK'
    BY RemovalAssumption DEF Inv, TypeOK, Record, System, Plan, Provenances,
           Revisions, Locations, NoRev, NoFile, NoAuth, NoPlan, NoCall,
           CLILogsOut, call
<1>2. Shapes'
    BY DEF Inv, Shapes, Stored, NoFile, NoAuth, NoPlan, NoRev, TypeOK,
           CLILogsOut, call
<1>3. Issued'
    BY RemovalAssumption DEF Inv, Issued, TypeOK, System, Plan, Revisions,
           NoAuth, NoPlan, NoRev, CLILogsOut, call
<1>4. Journalled'
    BY DEF Inv, Journalled, Pending, NoPlan, TypeOK, CLILogsOut, call,
           NoAuth, NoRev
<1>5. Arguments'
    BY DEF Inv, Arguments, Shapes, Stored, RecordsOf, TypeOK, NoAuth, NoRev,
           Issued, CLILogsOut, call
<1>6. Progress'
    BY DEF Inv, Progress, Deleted, Stored, NoAuth, NoRev, NoFile, TypeOK,
           Issued, CLILogsOut, call
<1>7. CatalogueBacked'
    BY DEF Inv, CatalogueBacked, RecordsOf, Stored, NoFile, NoRev, TypeOK,
           Shapes, Journalled, Pending, Arguments, CLILogsOut, call, NoAuth
<1>8. PlanCurrent'
    BY DEF Inv, PlanCurrent, Planned, Stored, NoRev, NoFile, NoPlan, TypeOK,
           Journalled, Pending, CLILogsOut, call, NoAuth
<1> QED
    BY <1>1, <1>2, <1>3, <1>4, <1>5, <1>6, <1>7, <1>8 DEF Inv

\* Opening the owner preserves the invariant.
LEMMA RecoverInv ==
    ASSUME Inv, Recover
    PROVE  Inv'
<1>1. TypeOK'
  <2> DEFINE held == {rec[c].acct : c \in {d \in Candidates : Stored(d)}}
  <2>1. held \subseteq Accounts
    BY DEF Inv, Shapes, Stored, NoFile
  <2>2. rows' \subseteq rows \cup held
    BY DEF Recover
  <2>3. rows' \subseteq Accounts
    BY <2>1, <2>2 DEF Inv, TypeOK
  <2>4. open' \in BOOLEAN /\ faults' \in 0..MaxFaults
    BY FaultBound DEF Inv, TypeOK, Recover
  <2> QED
    BY <2>3, <2>4 DEF Inv, TypeOK, Recover
<1>2. Shapes'
    BY DEF Inv, Shapes, Stored, NoFile, NoAuth, NoPlan, NoRev, TypeOK,
           Recover, Fault, Pending
<1>3. Issued'
    BY RemovalAssumption DEF Inv, Issued, TypeOK, System, Plan, Revisions,
           NoAuth, NoPlan, NoRev, Recover, Fault, Pending, Stored
<1>4. Journalled'
    BY DEF Inv, Journalled, Pending, NoPlan, TypeOK, Recover, Fault, Stored,
           NoRev
<1>5. Arguments'
    BY DEF Inv, Arguments, Shapes, Stored, RecordsOf, TypeOK, NoAuth, NoRev,
           Issued, Recover, Fault, Pending
<1>6. Progress'
    BY DEF Inv, Progress, Deleted, Stored, NoAuth, NoRev, NoFile, TypeOK,
           Issued, Recover, Fault, Pending
<1>7. CatalogueBacked'
    BY DEF Inv, CatalogueBacked, RecordsOf, Stored, NoFile, NoRev, TypeOK,
           Shapes, Journalled, Pending, Arguments, Recover, Fault
<1>8. PlanCurrent'
    BY DEF Inv, PlanCurrent, Planned, Stored, NoRev, NoFile, NoPlan, TypeOK,
           Journalled, Pending, Recover, Fault
<1> QED
    BY <1>1, <1>2, <1>3, <1>4, <1>5, <1>6, <1>7, <1>8 DEF Inv

-----------------------------------------------------------------------------
(* The invariant and what follows from it.                                 *)

\* The initial state, with no account stored, satisfies the invariant.
LEMMA InitInv == Init => Inv
<1> SUFFICES ASSUME Init PROVE Inv
    OBVIOUS
<1>1. NoPlan \in Plan /\ NoPlan.acct = None /\ NoPlan.sys = NoRev
    BY RemovalAssumption DEF NoPlan, Plan, Revisions, NoRev
<1>2. \A c \in Candidates : NoPlan.cands[c] = NoRev
    BY DEF NoPlan
<1>3. TypeOK
    BY <1>1, RemovalAssumption DEF Init, TypeOK, Record, System, Provenances,
           Revisions, Locations, NoRev, NoFile, NoAuth, NoCall
<1>4. Shapes /\ Issued /\ CatalogueBacked /\ PlanCurrent
    BY <1>1, <1>2 DEF Init, Shapes, Issued, CatalogueBacked, PlanCurrent,
           NoAuth, NoRev
<1>5. Journalled /\ Arguments /\ Progress
    BY DEF Init, Journalled, Arguments, Progress
<1> QED
    BY <1>3, <1>4, <1>5 DEF Inv

\* A stuttering step preserves the invariant.
LEMMA StutterInv ==
    ASSUME Inv, UNCHANGED vars
    PROVE  Inv'
BY DEF vars, files, call, Inv, TypeOK, Shapes, Issued, Journalled, Arguments,
       Progress, CatalogueBacked, PlanCurrent, Planned, Stored, RecordsOf,
       Pending, Deleted

\* Every step preserves the invariant.
LEMMA NextInv ==
    ASSUME Inv, [Next]_vars
    PROVE  Inv'
<1>1. CASE RemovalStep
  <2>1. CASE \E c \in Candidates : DeleteRecord(c)
    BY <2>1, DeleteRecordInv
  <2> QED
    BY <1>1, <2>1, PlanActiveInv, SaveJournalInv, DeletesDoneInv,
       CheckSystemInv, DeactivateInv, RemoveAuthInv, UnprojectInv,
       RemoveRowsInv, ClearJournalInv DEF RemovalStep
<1>2. CASE ActivationStep
    BY <1>2, CheckSnapshotInv, AdoptInv, RefusalsInv, UpsertAccountInv, CommitActivationInv,
       WriteSystemAuthInv, ProjectActiveInv, CommitActivatedInv
       DEF ActivationStep
<1>3. CASE Calls
  <2>1. CASE \E a \in Accounts : BeginRemove(a)
    BY <2>1, BeginRemoveInv
  <2>2. CASE \E a \in Accounts, c \in Candidates : SaveLogin(a, c)
    BY <2>2, SaveLoginInv
  <2>3. CASE BeginAdopt(None, NoRev)
    <3>1. NoRev \in Revisions
        BY RemovalAssumption DEF NoRev, Revisions
    <3> QED
        BY <2>3, <3>1, BeginAdoptInv
  <2>4. CASE \E c \in Candidates : Stored(c) /\ BeginAdopt(c, rec[c].rev)
    <3>1. PICK c \in Candidates : BeginAdopt(c, rec[c].rev)
        BY <2>4
    <3>2. rec[c].rev \in Revisions
        BY DEF Inv, TypeOK, Record
    <3>3. PICK r \in Revisions : r = rec[c].rev
        BY <3>2
    <3>4. BeginAdopt(c, r)
        BY <3>1, <3>3 DEF BeginAdopt
    <3> QED
        BY <3>4, BeginAdoptInv
  <2> QED
    BY <1>3, <2>1, <2>2, <2>3, <2>4 DEF Calls
<1>4. CASE Resume
    BY <1>4, ResumeInv
<1>5. CASE Recover
    BY <1>5, RecoverInv
<1>6. CASE Outside
    BY <1>6, RefusalsInv, CLILogsOutInv, CLIWritesInv DEF Outside
<1>7. CASE UNCHANGED vars
    BY <1>7, StutterInv
<1> QED
    BY <1>1, <1>2, <1>3, <1>4, <1>5, <1>6, <1>7 DEF Next

\* The invariant holds in every reachable state.
THEOREM RemovalInvariant == Spec => []Inv
<1>1. Inv /\ [Next]_vars => Inv'
    BY NextInv
<1> QED
    BY <1>1, InitInv, PTL DEF Spec

\* Every reachable state of login, activation and removal is well typed.
THEOREM RemovalTypeCorrect == Spec => []TypeOK
<1>1. Inv => TypeOK
    BY DEF Inv
<1> QED
    BY <1>1, RemovalInvariant, PTL

\* Whatever fails between the four files, registry.json names no account that
\* has neither a managed record nor a journalled removal.
THEOREM CatalogueIsBacked == Spec => []CatalogueBacked
<1>1. Inv => CatalogueBacked
    BY DEF Inv
<1> QED
    BY <1>1, RemovalInvariant, PTL

\* The managed records a journalled plan names are gone or as planned, so
\* resumeRemoval never meets a record it must refuse.
THEOREM PlanStaysCurrent == Spec => []PlanCurrent
<1>1. Inv => PlanCurrent
    BY DEF Inv
<1> QED
    BY <1>1, RemovalInvariant, PTL

\* Only Journal.Clear drops a journalled plan; calls that may save a plan run
\* while none is journalled.
LEMMA OnlyClearDrops ==
    ASSUME Inv, [Next]_vars, Pending, journal' = NoPlan
    PROVE  ClearJournal
<1>1. journal' # journal
    BY DEF Pending, NoPlan
<1>2. ~ SaveJournal
    BY DEF Inv, Journalled, SaveJournal
<1>3. ~ UNCHANGED vars /\ ~ Resume /\ ~ Recover
    BY <1>1 DEF vars, files, Resume, Recover
<1>4. ~ Outside
    BY <1>1 DEF Outside, files, StepFails, CLILogsOut, Crash, CLIWrites
<1>5. ~ Calls
    BY <1>1 DEF Calls, files, BeginRemove, SaveLogin, BeginAdopt
<1>6. ~ ActivationStep
    BY <1>1 DEF ActivationStep, files, CheckSnapshot, Adopt, AdoptRefused,
           UpsertAccount,           CommitActivation, ActivateRefused, WriteSystemAuth, ProjectActive,
           CommitActivated
<1>7. RemovalStep
    BY <1>3, <1>4, <1>5, <1>6 DEF Next
<1> QED
    BY <1>1, <1>2, <1>7 DEF RemovalStep, files, PlanActive, DeleteRecord,
           DeletesDone, CheckSystem, Deactivate, RemoveAuth,
           Unproject, RemoveRows

\* A removal's journal is cleared only when its records and its system
\* credential are gone and the catalogue has forgotten the account.
THEOREM ClearedMeansRemoved == Spec => ClearedIsRemoved
<1>1. Inv /\ [Next]_vars =>
        [Pending /\ journal' = NoPlan =>
           /\ Deleted
           /\ journal.sys # NoRev => auth.rev # journal.sys
           /\ journal.acct \notin rows /\ proj # journal.acct]_vars
    BY OnlyClearDrops DEF Inv, Progress, ClearJournal
<1> QED
    BY <1>1, RemovalInvariant, PTL DEF Spec, ClearedIsRemoved

=============================================================================
