-------------------------- MODULE ResetAutomation --------------------------
(***************************************************************************)
(* Banked Codex resets: the journal of attempts, the automation schedule,  *)
(* and the three parties that share them -- schedulers (StepSchedule in a  *)
(* proxy worker), users who redeem a credit by hand, and an editor of the  *)
(* schedule -- with the service that redeems the credits.                  *)
(*   internal/provider/codex/reset_attempts.go, reset_schedule_store.go    *)
(*   internal/app/codex_resets.go, codex_reset_automation.go               *)
(*                                                                         *)
(* The revision of the schedule is compared for equality only: `fresh'     *)
(* holds the readers whose copy still has the stored revision.             *)
(***************************************************************************)
EXTENDS Naturals, FiniteSets, SequencesExt

CONSTANTS Credits, Account,  \* the account of each credit
          Expiry,            \* the time at which each credit expires
          Schedulers, Users, Editor, None,
          MaxNow, MaxEntries,  \* bounds of the time and of the schedule
          Environments         \* what each behaviour may meet

\* read: credits or usage cannot be read.  save: an update of the schedule
\* reports an error, with or without the file replaced.  journal: a write or a
\* removal in the attempt directory fails.  lost: no answer to a redemption.
\* full: the quota windows are full.  nothing: the service has nothing to reset.
\* paused: the worker's admission is paused.  forecast: no complete plan.
FaultKinds == {"read", "save", "journal", "lost", "full", "nothing", "paused", "forecast"}
Commands == {"accept", "add", "set", "mode", "enable", "disable", "remove", "cancel"}

\* active: the schedulers that run.  until: the end of the time.  uses, changes,
\* crashes: how many redemptions by hand, schedule commands and crashes are left.
Environment == [faults : SUBSET FaultKinds, edits : SUBSET Commands,
                active : SUBSET Schedulers, until : 0..MaxNow, entries : 0..MaxEntries,
                uses : Nat, changes : Nat, crashes : Nat]

Procs == Schedulers \cup Users
Never == MaxNow + 1
Times == 0..MaxNow

ASSUME ResetAssumption ==
    /\ IsFiniteSet(Credits)
    /\ Account \in [Credits -> Range(Account)] /\ Expiry \in [Credits -> 0..Never]
    /\ Schedulers \cap Users = {} /\ Editor \notin Procs /\ None \notin Credits \cup Procs
    /\ MaxNow \in Nat /\ MaxEntries \in Nat /\ Environments \subseteq Environment

VARIABLES
    now,
    stored,    \* codex-reset-schedule.json
    attempts,  \* the attempt file of each credit: none, torn or whole
    executor,  \* holder of the executor lock
    proc,      \* what each process is doing
    edit,      \* the state the editor prepared, or None
    fresh,     \* readers whose revision is the stored one
    wire,      \* credits with an undelivered redemption request
    redeemed,  \* credits the service has redeemed
    open,      \* credits whose request was sent and not answered since
    planned,   \* schedulers that saved a plan in their current step
    env        \* the environment, and what of it is left

vars == <<now, stored, attempts, executor, proc, edit, fresh, wire, redeemed, open,
          planned, env>>

Claimed == {"running", "retrying"}
Terminal == {"completed", "skipped", "missed", "cancelled"}
EntryStates == {"pending", "blocked"} \cup Claimed \cup Terminal
Outcomes == {"reset", "already_redeemed", "nothing_to_reset", "no_credit"}

Entry == [credit : Credits, state : EntryStates, outcome : BOOLEAN,
          at : Times \cup {Never}, pinned : BOOLEAN, backoff : BOOLEAN]
Schedule == [saved : BOOLEAN, enabled : BOOLEAN, adaptive : BOOLEAN,
             entries : UNION {[1..n -> Entry] : n \in 0..MaxEntries},
             planValid : BOOLEAN, replanDue : BOOLEAN]

NoSchedule == [saved |-> FALSE, enabled |-> FALSE, adaptive |-> FALSE, entries |-> <<>>,
               planValid |-> FALSE, replanDue |-> TRUE]
Idle == [at |-> "idle", snap |-> NoSchedule, entry |-> 0, credit |-> None,
         resume |-> FALSE, answer |-> None]

Locked == {"cleaning", "planning", "picking", "rebuilding", "rewriting", "preflight",
           "claiming", "using", "writing", "posting", "sent", "saving", "removing", "warning"}
Places == {"idle", "loaded", "locking", "confirming"} \cup Locked
Process == [at : Places, snap : Schedule, entry : 0..MaxEntries, credit : Credits \cup {None},
            resume : BOOLEAN, answer : Outcomes \cup {"error", None}]

TypeOK ==
    /\ now \in Times /\ stored \in Schedule
    /\ attempts \in [Credits -> {"none", "torn", "whole"}]
    /\ executor \in Procs \cup {None}
    /\ proc \in [Procs -> Process]
    /\ edit = None \/ edit \in Schedule
    /\ fresh \subseteq Procs \cup {Editor}
    /\ wire \cup redeemed \cup open \subseteq Credits
    /\ planned \subseteq Schedulers
    /\ env \in Environment

Init ==
    /\ now = 0 /\ stored = NoSchedule
    /\ attempts = [c \in Credits |-> "none"]
    /\ executor = None /\ proc = [p \in Procs |-> Idle]
    /\ edit = None /\ fresh = {}
    /\ wire = {} /\ redeemed = {} /\ open = {} /\ planned = {}
    /\ env \in Environments
----------------------------------------------------------------------------
(* The attempt journal.                                                    *)

\* Pending reads every file of the directory, whatever account is asked for.
PendingFails == \E c \in Credits : attempts[c] = "torn"
Pending(account) == {c \in Credits : Account[c] = account /\ attempts[c] = "whole"}

Expired(c) == Expiry[c] <= now
Eligible(c) == c \notin redeemed /\ ~Expired(c)

SelectableAnyway(c) == c \in Pending(Account[c]) \/ Eligible(c)

\* SelectResetCredit for an explicit credit: an unresolved attempt comes first.
Selectable(c) ==
    LET pending == Pending(Account[c]) IN
    IF pending # {} THEN c \in pending ELSE Eligible(c)
----------------------------------------------------------------------------
(* The schedule.                                                           *)

IsTerminal(e) == e.state \in Terminal
Editable(e) == e.state \in {"pending", "blocked"}
Following(e) == Editable(e) /\ ~e.pinned
Due(e) == e.at <= now
NewEntry(c, at, pinned) == [credit |-> c, state |-> "pending", outcome |-> FALSE,
                            at |-> at, pinned |-> pinned, backoff |-> FALSE]

MapEntries(s, F(_)) == [s EXCEPT !.entries = [i \in DOMAIN @ |-> F(@[i])]]
Invalidated(s) == [s EXCEPT !.planValid = FALSE, !.replanDue = TRUE]

\* Accounts whose claim or attempt has no outcome yet.
Unresolved(s) ==
    {Account[s.entries[i].credit] : i \in {j \in DOMAIN s.entries :
        LET e == s.entries[j] IN
        \/ e.state \in Claimed
        \/ ~IsTerminal(e) /\ Pending(Account[e.credit]) # {}}}

\* replanAutomationState: a forecast gives each following entry a time or none.
Replans(s) ==
    LET open_ == {i \in DOMAIN s.entries : ~IsTerminal(s.entries[i])}
        held == {i \in DOMAIN s.entries : Following(s.entries[i])}
        free == {i \in held : Account[s.entries[i].credit] \notin Unresolved(s)}
        Block(S) == [s EXCEPT !.planValid = FALSE, !.replanDue = FALSE,
                              !.entries = [i \in DOMAIN @ |->
                                  IF i \in S THEN [@[i] EXCEPT !.state = "blocked"] ELSE @[i]]]
        Dated(at) == [s EXCEPT !.planValid = TRUE, !.replanDue = FALSE,
                               !.entries = [i \in DOMAIN @ |->
                                   IF i \in free
                                   THEN [@[i] EXCEPT !.state = "pending", !.at = at[i]]
                                   ELSE @[i]]]
        Useful(i) == {t \in now..env.until : t < Expiry[s.entries[i].credit]} \cup {Never}
    IN  IF PendingFails /\ open_ # {} THEN {Block(held)}
        ELSE {Dated(at) : at \in {f \in [free -> Times \cup {Never}] :
                                     \A i \in free : f[i] \in Useful(i)}}
             \cup (IF "forecast" \in env.faults THEN {Block(free)} ELSE {})

ApplyResultUnmapped(s, i, answer) ==
    Invalidated([s EXCEPT !.entries[i] =
        [@ EXCEPT !.backoff = FALSE, !.outcome = TRUE,
                  !.state = IF answer \in {"reset", "already_redeemed"} THEN "completed" ELSE answer]])

\* applyAutomationUseResult
ApplyResult(s, i, answer) ==
    Invalidated([s EXCEPT !.entries[i] =
        [@ EXCEPT !.backoff = FALSE, !.outcome = TRUE,
                  !.state = CASE answer \in {"reset", "already_redeemed"} -> "completed"
                              [] answer = "nothing_to_reset" -> "skipped"
                              [] OTHER -> "missed"]])
----------------------------------------------------------------------------
(* Steps shared by the processes.                                          *)

\* What a process's own steps leave to time, the service and the editor.
outside == <<now, wire, redeemed, open, env>>
disk == <<stored, attempts, fresh, edit>>

Goto(p, place) == proc' = [proc EXCEPT ![p].at = place]

\* The step or the command returns, and its deferred Close frees the lock.
Return(p) ==
    /\ proc' = [proc EXCEPT ![p] = Idle]
    /\ executor' = IF executor = p THEN None ELSE executor
    /\ planned' = planned \ {p}

Put(s) == stored' = [s EXCEPT !.saved = TRUE] /\ fresh' = {}

\* ResetAutomationStore.Update reports an error: the file is as it was, or it was
\* replaced and the sync of its directory failed.
UpdateFails(s) ==
    /\ "save" \in env.faults
    /\ Put(s) \/ UNCHANGED <<stored, fresh>>

\* An update that ends the step and applies to the revision that was read only.
FencedUpdate(p, Change(_)) ==
    /\ \/ p \in fresh /\ (Put(Change(stored)) \/ UpdateFails(Change(stored)))
       \/ p \notin fresh /\ UNCHANGED <<stored, fresh>>
    /\ Return(p)

SetEntry(s, i, state) == [s EXCEPT !.entries[i].state = state]

\* finishAutomationEntry
Finish(p, i, state) ==
    FencedUpdate(p, LAMBDA s : Invalidated(SetEntry(s, i, state)))

\* blockAutomationEntry: a claimed entry stays claimed.
Blocked(e) == [e EXCEPT !.state = IF @ \in Claimed THEN @ ELSE "blocked", !.backoff = TRUE]
Block(p) ==
    LET i == proc[p].entry IN
    FencedUpdate(p, LAMBDA s : [s EXCEPT !.entries[i] = Blocked(@)])
----------------------------------------------------------------------------
(* StepSchedule: one step of a scheduler.                                  *)

Load(p) ==
    /\ proc[p].at = "idle" /\ p \in env.active
    /\ proc' = [proc EXCEPT ![p] = [Idle EXCEPT !.at = "loaded", !.snap = stored]]
    /\ fresh' = fresh \cup {p}
    /\ UNCHANGED <<stored, attempts, edit, executor, planned, outside>>

\* cleanupScheduleAttempts goes through the entries of the copy that have an outcome,
\* reads the journal for each and removes the attempt of its credit; `entry' is the
\* last one it is done with.
Settled(e) == IsTerminal(e) /\ e.outcome
ToClean(p) == {i \in DOMAIN proc[p].snap.entries :
                  proc[p].entry < i /\ Settled(proc[p].snap.entries[i])}

CleanEntry(p) ==
    \E i \in ToClean(p) :
       /\ \A j \in ToClean(p) : i <= j
       /\ LET c == proc[p].snap.entries[i].credit
              removed == [attempts EXCEPT ![c] = "none"]
          IN  \/ /\ ~PendingFails /\ attempts' = removed
                 /\ proc' = [proc EXCEPT ![p].entry = i] /\ UNCHANGED <<executor, planned>>
              \/ PendingFails /\ UNCHANGED attempts /\ Return(p)
              \/ /\ "journal" \in env.faults /\ attempts[c] = "whole"
                 /\ attempts' \in {attempts, removed} /\ Return(p)

CleanedTo(p, place) ==
    /\ proc' = [proc EXCEPT ![p] = [@ EXCEPT !.at = place, !.entry = 0]]
    /\ UNCHANGED <<executor, planned>>

\* The first cleanup is made before the executor lock is asked for.
CleanLoaded(p) ==
    /\ proc[p].at = "loaded"
    /\ LET s == proc[p].snap IN
       \/ CleanEntry(p)
       \/ /\ ToClean(p) = {} /\ UNCHANGED attempts
          /\ IF s.enabled /\ \E i \in DOMAIN s.entries : ~IsTerminal(s.entries[i])
             THEN CleanedTo(p, "locking")
             ELSE Return(p)
    /\ UNCHANGED <<stored, fresh, edit, outside>>

\* A held lock ends the step; the schedule is read again under the lock.
AcquireExecutor(p) ==
    /\ proc[p].at = "locking"
    /\ IF executor = None /\ stored.enabled
       THEN /\ executor' = p /\ fresh' = fresh \cup {p}
            /\ proc' = [proc EXCEPT ![p].at = "cleaning", ![p].snap = stored]
            /\ UNCHANGED planned
       ELSE Return(p) /\ UNCHANGED fresh
    /\ UNCHANGED <<stored, attempts, edit, outside>>

CleanLocked(p) ==
    /\ proc[p].at = "cleaning"
    /\ \/ CleanEntry(p)
       \/ ToClean(p) = {} /\ UNCHANGED attempts /\ CleanedTo(p, "planning")
    /\ UNCHANGED <<stored, fresh, edit, outside>>

NeedsReplan(s) ==
    /\ s.adaptive
    /\ \/ s.replanDue
       \/ s.planValid /\ \E i \in DOMAIN s.entries :
                            Following(s.entries[i]) /\ Due(s.entries[i])

\* The new plan replaces the revision it was made from, or the step ends.
Replan(p) ==
    /\ proc[p].at = "planning"
    /\ LET s == proc[p].snap IN
       \/ /\ ~NeedsReplan(s)
          /\ Goto(p, "picking") /\ UNCHANGED <<stored, fresh, executor, planned>>
       \/ /\ NeedsReplan(s) /\ p \in fresh
          /\ \E new \in Replans(s) :
                \/ /\ stored' = new /\ fresh' = {p}
                   /\ proc' = [proc EXCEPT ![p].at = "picking", ![p].snap = new]
                   /\ planned' = planned \cup {p} /\ UNCHANGED executor
                \/ UpdateFails(new) /\ Return(p)
       \/ NeedsReplan(s) /\ p \notin fresh /\ Return(p) /\ UNCHANGED <<stored, fresh>>
    /\ UNCHANGED <<attempts, edit, outside>>

Retries(e) == e.state \in Claimed \/ attempts[e.credit] = "whole"
ActionableUnblocked(s, i) ==
    LET e == s.entries[i] IN
    /\ ~IsTerminal(e) /\ ~e.backoff /\ e.state # "blocked"
    /\ \/ Retries(e)
       \/ Expired(e.credit)
       \/ Due(e) /\ (~s.adaptive \/ e.pinned \/ s.planValid)
Actionable(s, i) ==
    LET e == s.entries[i] IN
    /\ ~IsTerminal(e) /\ ~e.backoff
    /\ \/ Retries(e)
       \/ Expired(e.credit)
       \/ Due(e) /\ (~s.adaptive \/ e.pinned \/ s.planValid)

\* The entries in the order of their times, undated ones last.
Before(s, i, j) == \/ s.entries[i].at < s.entries[j].at
                   \/ s.entries[i].at = s.entries[j].at /\ i < j

Pick(p) ==
    /\ proc[p].at = "picking"
    /\ LET s == proc[p].snap
           act == {i \in DOMAIN s.entries : Actionable(s, i)}
           readable == ~PendingFails
           Execute(i) ==
               /\ proc' = [proc EXCEPT ![p].entry = i, ![p].credit = s.entries[i].credit,
                              ![p].at = IF s.entries[i].state \in Claimed THEN "rebuilding"
                                        ELSE "preflight"]
               /\ UNCHANGED <<stored, fresh, executor, planned>>
       IN  \/ /\ act = {} \/ ~readable
              /\ Return(p) /\ UNCHANGED <<stored, fresh>>
           \/ /\ readable
              /\ \E i \in act :
                    /\ \A j \in act \ {i} : Before(s, i, j)
                    /\ IF ~Retries(s.entries[i]) /\ Expired(s.entries[i].credit)
                       THEN Finish(p, i, "missed")
                       ELSE Execute(i)
    /\ UNCHANGED <<attempts, edit, outside>>

\* ResetAttemptStore.Ensure has created the file of the attempt; it writes, syncs and
\* reads it.  A failure removes the file again, if it can and if it was not the last
\* read that failed.
Ensured(p) == attempts' = [attempts EXCEPT ![proc[p].credit] = "whole"]
EnsureFails(p) ==
    /\ "journal" \in env.faults
    /\ \E left \in {"none", "torn", "whole"} :
          attempts' = [attempts EXCEPT ![proc[p].credit] = left]

\* A claim without its attempt rebuilds the attempt of the claimed credit only.
Rebuild(p) ==
    /\ proc[p].at = "rebuilding"
    /\ LET c == proc[p].credit
           pending == Pending(Account[c])
           refused == PendingFails \/ (c \notin pending /\ pending # {})
       IN  \/ refused /\ Block(p) /\ UNCHANGED attempts
           \/ /\ ~refused /\ c \in pending
              /\ Goto(p, "preflight") /\ UNCHANGED <<stored, fresh, attempts, executor, planned>>
           \/ /\ ~refused /\ c \notin pending
              /\ attempts' = [attempts EXCEPT ![c] = "torn"]
              /\ Goto(p, "rewriting") /\ UNCHANGED <<stored, fresh, executor, planned>>
    /\ UNCHANGED <<edit, outside>>

Rewrite(p) ==
    /\ proc[p].at = "rewriting"
    /\ \/ /\ Ensured(p)
          /\ Goto(p, "preflight") /\ UNCHANGED <<stored, fresh, executor, planned>>
       \/ EnsureFails(p) /\ Block(p)
    /\ UNCHANGED <<edit, outside>>

\* prepareUse for the entry's credit, and the check of the current windows.
Preflight(p) ==
    /\ proc[p].at = "preflight"
    /\ LET c == proc[p].credit
           i == proc[p].entry
           s == proc[p].snap
           resume == c \in Pending(Account[c])
           refused == PendingFails \/ ~Selectable(c)
       IN  \/ (refused \/ "read" \in env.faults) /\ Block(p)
           \/ /\ ~refused
              /\ proc' = [proc EXCEPT ![p].at = "claiming", ![p].resume = resume]
              /\ UNCHANGED <<stored, fresh, executor, planned>>
           \/ /\ ~refused /\ ~resume /\ "full" \in env.faults
              /\ IF s.adaptive /\ ~s.entries[i].pinned
                 THEN FencedUpdate(p, LAMBDA t : [t EXCEPT !.entries[i].at = Never,
                                         !.planValid = FALSE, !.replanDue = FALSE])
                 ELSE Finish(p, i, "skipped")
    /\ UNCHANGED <<attempts, edit, outside>>

\* The claim holds only for the revision that was read, while it is enabled.
Claimable(p) ==
    /\ stored.enabled /\ p \in fresh
    /\ ~IsTerminal(stored.entries[proc[p].entry])
    /\ proc[p].resume \/ ~Expired(proc[p].credit)

ClaimUnsaved(p) ==
    /\ proc[p].at = "claiming" /\ Claimable(p)
    /\ proc' = [proc EXCEPT ![p].at = "using", ![p].snap = NoSchedule]
    /\ UNCHANGED <<disk, executor, planned, outside>>

Claim(p) ==
    /\ proc[p].at = "claiming"
    /\ LET claimed == SetEntry(stored, proc[p].entry, "running") IN
       \/ /\ Claimable(p) /\ Put(claimed)
          /\ proc' = [proc EXCEPT ![p].at = "using", ![p].snap = NoSchedule]
          /\ UNCHANGED <<executor, planned>>
       \/ Claimable(p) /\ UpdateFails(claimed) /\ Return(p)
       \/ /\ ~Claimable(p) \/ "paused" \in env.faults
          /\ Return(p) /\ UNCHANGED <<stored, fresh>>
    /\ UNCHANGED <<attempts, edit, outside>>
----------------------------------------------------------------------------
(* executeUse, on behalf of a scheduler or of a user.                      *)

\* An error: the scheduler records it, a user is told.
UseFails(p) ==
    IF p \in Schedulers
    THEN /\ proc' = [proc EXCEPT ![p].at = "saving", ![p].answer = "error"]
         /\ UNCHANGED <<executor, planned>>
    ELSE Return(p)

\* The selection is made again, and Ensure creates the attempt's file.
Use(p) ==
    /\ proc[p].at = "using"
    /\ LET c == proc[p].credit
           refused == PendingFails \/ ~Selectable(c)
       IN  \/ (refused \/ "read" \in env.faults) /\ UseFails(p) /\ UNCHANGED attempts
           \/ /\ ~refused /\ attempts[c] = "whole"
              /\ Goto(p, "posting") /\ UNCHANGED <<attempts, executor, planned>>
           \/ /\ ~refused /\ attempts[c] = "none"
              /\ attempts' = [attempts EXCEPT ![c] = "torn"]
              /\ Goto(p, "writing") /\ UNCHANGED <<executor, planned>>
    /\ UNCHANGED <<stored, fresh, edit, outside>>

Write(p) ==
    /\ proc[p].at = "writing"
    /\ \/ Ensured(p) /\ Goto(p, "posting") /\ UNCHANGED <<executor, planned>>
       \/ EnsureFails(p) /\ UseFails(p)
    /\ UNCHANGED <<stored, fresh, edit, outside>>

\* Consume: the request leaves with the credit's idempotency key.
Post(p) ==
    /\ proc[p].at = "posting"
    /\ wire' = wire \cup {proc[p].credit}
    /\ open' = open \cup {proc[p].credit}
    /\ Goto(p, "sent")
    /\ UNCHANGED <<disk, now, redeemed, env, executor, planned>>

\* The service acts on a request; its answer may be lost.
Deliver(c, answered) ==
    /\ c \in wire /\ wire' = wire \ {c}
    /\ \E answer \in Outcomes :
          /\ answer = "already_redeemed" <=> c \in redeemed
          /\ answer = "no_credit" <=> c \notin redeemed /\ Expired(c)
          /\ answer = "nothing_to_reset" => "nothing" \in env.faults
          /\ redeemed' = IF answer = "reset" THEN redeemed \cup {c} ELSE redeemed
          /\ IF answered
             THEN \E p \in Procs :
                    /\ proc[p].at = "sent" /\ proc[p].credit = c
                    /\ proc' = [proc EXCEPT ![p].at = "saving", ![p].answer = answer]
                    /\ open' = open \ {c}
             ELSE "lost" \in env.faults /\ UNCHANGED <<proc, open>>
    /\ UNCHANGED <<disk, now, env, executor, planned>>

NoAnswer(p) ==
    /\ proc[p].at = "sent"
    /\ "lost" \in env.faults
    /\ UseFails(p)
    /\ UNCHANGED <<disk, outside>>

\* The outcome is merged into the schedule as it is now.
Recorded(p) ==
    LET answer == proc[p].answer
        own == {i \in DOMAIN stored.entries :
                  /\ stored.entries[i].credit = proc[p].credit
                  /\ ~IsTerminal(stored.entries[i])}
    IN  CASE p \in Schedulers /\ answer = "error" ->
                 [stored EXCEPT !.entries[proc[p].entry] =
                     [@ EXCEPT !.state = "retrying", !.backoff = TRUE]]
          [] p \in Schedulers /\ answer # "error" ->
                 ApplyResult(stored, proc[p].entry, answer)
          [] p \in Users /\ own # {} ->
                 ApplyResult(stored, CHOOSE i \in own : \A j \in own : i <= j, answer)
          [] OTHER -> stored

Record(p) ==
    /\ proc[p].at = "saving"
    /\ \/ /\ IF Recorded(p) = stored THEN UNCHANGED <<stored, fresh>> ELSE Put(Recorded(p))
          /\ IF proc[p].answer = "error" THEN Return(p)
             ELSE Goto(p, "removing") /\ UNCHANGED <<executor, planned>>
       \/ UpdateFails(Recorded(p)) /\ Return(p)
    /\ UNCHANGED <<attempts, edit, outside>>

\* The attempt goes last, once its outcome is recorded.  A removal that fails leaves a
\* warning: a scheduler's in the entry, by one more update, a user's in the answer.
RemoveAttempt(p) ==
    /\ proc[p].at = "removing"
    /\ LET removed == [attempts EXCEPT ![proc[p].credit] = "none"] IN
       \/ attempts' = removed /\ Return(p)
       \/ /\ "journal" \in env.faults /\ attempts' \in {attempts, removed}
          /\ IF p \in Schedulers
             THEN Goto(p, "warning") /\ UNCHANGED <<executor, planned>>
             ELSE Return(p)
    /\ UNCHANGED <<stored, fresh, edit, outside>>

Warn(p) ==
    /\ proc[p].at = "warning"
    /\ Put(stored) \/ UpdateFails(stored)
    /\ Return(p)
    /\ UNCHANGED <<attempts, edit, outside>>
----------------------------------------------------------------------------
(* A user's `use': PrepareUse, a confirmation, ExecuteUse.                 *)

\* Without a credit the unresolved attempt is resumed, or the next to expire taken.
PrepareUse(u) ==
    /\ proc[u].at = "idle" /\ env.uses > 0 /\ ~PendingFails
    /\ \E c \in Credits :
          /\ Selectable(c)
          /\ proc' = [proc EXCEPT ![u].at = "confirming", ![u].credit = c]
    /\ env' = [env EXCEPT !.uses = @ - 1]
    /\ UNCHANGED <<disk, executor, planned, now, wire, redeemed, open>>

ExecuteUse(u) ==
    /\ proc[u].at = "confirming"
    /\ \/ /\ executor = None /\ executor' = u
          /\ Goto(u, "using") /\ UNCHANGED planned
       \/ Return(u)
    /\ UNCHANGED <<disk, outside>>
----------------------------------------------------------------------------
(* Edits of the schedule: PrepareSchedule computes a whole new state from  *)
(* the one it loads, ApplySchedule saves it if the revision is the same.   *)

Cancelled(e) == IF Editable(e) THEN [e EXCEPT !.state = "cancelled"] ELSE e

\* The credits of a complete recommendation that may be enrolled.
Enrollable(s) ==
    {c \in Credits :
        /\ Eligible(c) /\ Pending(Account[c]) = {}
        /\ ~ \E i \in DOMAIN s.entries :
               s.entries[i].state \in Claimed /\ Account[s.entries[i].credit] = Account[c]}

\* The times before a credit's expiry that are not in the past.
UsableTimes(c) == {t \in now..env.until : t < Expiry[c]}

\* accept: some recommended credits in the place of every entry not yet claimed.
Enrolled(S, at) ==
    LET order == SetToSeq(S) IN [k \in DOMAIN order |-> NewEntry(order[k], at[order[k]], FALSE)]
Accepted(s, adaptive, entries) ==
    [MapEntries(s, Cancelled) EXCEPT
        !.enabled = @ \/ ~s.saved, !.adaptive = adaptive,
        !.planValid = TRUE, !.replanDue = FALSE, !.entries = @ \o entries]
Accepts(s) ==
    {Accepted(s, adaptive, entries) :
        adaptive \in BOOLEAN,
        entries \in UNION {{Enrolled(S, at) : at \in {f \in [S -> Times] :
                                                      \A c \in S : f[c] \in UsableTimes(c)}} :
                           S \in {T \in SUBSET Enrollable(s) : T # {} /\ ~PendingFails}}}

Adds(s) ==
    {[s EXCEPT !.entries = Append(@, entry)] :
        entry \in UNION {{NewEntry(c, at, TRUE) : at \in UsableTimes(c)} :
           c \in {d \in Credits : /\ Eligible(d) /\ Pending(Account[d]) = {} /\ ~PendingFails
                                  /\ \A i \in DOMAIN s.entries :
                                        s.entries[i].credit = d => IsTerminal(s.entries[i])}}}

\* set: a time of its own, or the mode's time again.
SetsOf(s, i) ==
    LET Redated(pinned, at) ==
            [s EXCEPT !.entries[i] = [@ EXCEPT !.pinned = pinned, !.at = at,
                                              !.state = "pending", !.backoff = FALSE]]
    IN  {Redated(TRUE, at) : at \in UsableTimes(s.entries[i].credit)}
        \cup {Redated(FALSE, IF s.adaptive THEN Never ELSE s.entries[i].at)}
Sets(s) == UNION {SetsOf(s, i) : i \in {j \in DOMAIN s.entries : Editable(s.entries[j])}}

\* An adaptive plan becomes a fixed one only as far as it is valid.
Fix(s, e) ==
    LET at == IF s.planValid THEN e.at ELSE Never IN
    IF Following(e) THEN [e EXCEPT !.at = at, !.state = IF at = Never THEN "blocked" ELSE "pending"]
    ELSE e
Modes(s) ==
    {[s EXCEPT !.adaptive = TRUE],
     [(IF s.adaptive THEN MapEntries(s, LAMBDA e : Fix(s, e)) ELSE s) EXCEPT !.adaptive = FALSE]}

Removes(s) ==
    {[s EXCEPT !.entries[i] = Cancelled(@)] : i \in DOMAIN s.entries}

\* The edited states, before the adaptive plan is made again.
Edited(command, s) ==
    CASE command = "accept" -> Accepts(s)
      [] command = "add" -> Adds(s)
      [] command = "set" -> Sets(s)
      [] command = "mode" -> Modes(s)
      [] command = "enable" -> {[s EXCEPT !.enabled = TRUE]}
      [] command = "disable" -> {[s EXCEPT !.enabled = FALSE]}
      [] command = "remove" -> Removes(s)
      [] command = "cancel" -> {[MapEntries(s, Cancelled) EXCEPT !.enabled = FALSE]}

Invalidates(command, s) == command # "disable" /\ (command = "accept" => s.adaptive)
Prepared(command, s) ==
    IF ~Invalidates(command, s) THEN {s}
    ELSE IF s.enabled /\ s.adaptive /\ command \notin {"remove", "cancel"}
         THEN Replans(Invalidated(s))
         ELSE {Invalidated(s)}

PrepareSchedule(command) ==
    /\ edit = None /\ env.changes > 0 /\ command \in env.edits
    /\ \E changed \in Edited(command, stored) :
          /\ Len(changed.entries) <= env.entries
          /\ edit' \in Prepared(command, changed)
    /\ fresh' = fresh \cup {Editor}
    /\ env' = [env EXCEPT !.changes = @ - 1]
    /\ UNCHANGED <<now, stored, attempts, executor, proc, wire, redeemed, open, planned>>

ApplyScheduleUnfenced ==
    /\ edit # None /\ edit' = None
    /\ \/ Put(edit)
       \/ fresh' = fresh \ {Editor} /\ UNCHANGED stored
    /\ UNCHANGED <<attempts, executor, proc, planned, outside>>

\* Confirmed and applied, or given up.
ApplySchedule ==
    /\ edit # None /\ edit' = None
    /\ \/ Editor \in fresh /\ Put(edit)
       \/ fresh' = fresh \ {Editor} /\ UNCHANGED stored
    /\ UNCHANGED <<attempts, executor, proc, planned, outside>>
----------------------------------------------------------------------------
(* Time, and the end of a process.                                         *)

Tick ==
    /\ now < env.until /\ now' = now + 1
    /\ UNCHANGED <<disk, executor, proc, planned, wire, redeemed, open, env>>

\* A moment that a schedule names is past in every copy of it.
Past(F(_)) ==
    /\ stored' = F(stored) /\ stored' # stored
    /\ proc' = [p \in Procs |-> [proc[p] EXCEPT !.snap = F(@)]]
    /\ edit' = IF edit = None THEN None ELSE F(edit)
    /\ UNCHANGED <<attempts, fresh, executor, planned, outside>>

\* A minute after the failures of some entries, and five after a plan.
Rested(s, S) == [s EXCEPT !.entries = [i \in DOMAIN @ |->
                     IF i \in S THEN [@[i] EXCEPT !.backoff = FALSE] ELSE @[i]]]
BackoffEnds(S) == Past(LAMBDA s : Rested(s, S))
ReplanFallsDue == Past(LAMBDA s : [s EXCEPT !.replanDue = TRUE])

Crash(p) ==
    /\ proc[p].at # "idle" /\ env.crashes > 0
    /\ Return(p)
    /\ env' = [env EXCEPT !.crashes = @ - 1]
    /\ UNCHANGED <<disk, now, wire, redeemed, open>>

Step(p) ==
    \/ Load(p) \/ CleanLoaded(p) \/ AcquireExecutor(p) \/ CleanLocked(p) \/ Replan(p)
    \/ Pick(p) \/ Rebuild(p) \/ Rewrite(p) \/ Preflight(p) \/ Claim(p)
Execute(p) == Use(p) \/ Write(p) \/ Post(p) \/ NoAnswer(p) \/ Record(p)
              \/ RemoveAttempt(p) \/ Warn(p)

Next ==
    \/ \E p \in Schedulers : Step(p)
    \/ \E p \in Procs : Execute(p) \/ Crash(p)
    \/ \E u \in Users : PrepareUse(u) \/ ExecuteUse(u)
    \/ \E c \in Credits, answered \in BOOLEAN : Deliver(c, answered)
    \/ \E command \in Commands : PrepareSchedule(command)
    \/ ApplySchedule
    \/ Tick \/ ReplanFallsDue
    \/ \E S \in SUBSET (1..MaxEntries) : BackoffEnds(S)

Spec == Init /\ [][Next]_vars

\* A step follows the last one after five seconds: the minute that a failed entry
\* waits outlasts the steps for the entries that are ready.
MinuteOutlastsSteps ==
    (\E S \in SUBSET (1..MaxEntries) : BackoffEnds(S))
      => ~ \E i \in DOMAIN stored.entries : Actionable(stored, i)

\* The minute of entry i is over.
BackoffOf(i) ==
    /\ i \in DOMAIN stored.entries /\ stored.entries[i].backoff
    /\ \E S \in SUBSET (1..MaxEntries) : i \in S /\ BackoffEnds(S)
    /\ MinuteOutlastsSteps

\* The scheduler's timer, the running commands, the service and the clock go on;
\* a redemption that is tried again and again is answered at last.
LiveSpec ==
    /\ Init /\ [][Next /\ MinuteOutlastsSteps]_vars
    /\ \A p \in Schedulers : WF_vars(Step(p))
    /\ \A p \in Procs : WF_vars(Execute(p))
    /\ \A u \in Users : WF_vars(ExecuteUse(u))
    /\ \A c \in Credits : SF_vars(Deliver(c, TRUE))
    /\ WF_vars(Tick) /\ \A i \in 1..MaxEntries : SF_vars(BackoffOf(i))
----------------------------------------------------------------------------
(* What the journal and the schedule are for.                              *)

\* Credits that may or may not have been redeemed, as far as the schedule knows: it
\* does not show them as redeemed or as unknown to the service.
InDoubt == {c \in open : ~ \E i \in DOMAIN stored.entries :
                /\ stored.entries[i].credit = c /\ stored.entries[i].outcome
                /\ stored.entries[i].state \in {"completed", "missed"}}

\* No other credit of an account is used while one request is in doubt
\* (SelectResetCredit, Rebuild and the executor lock together).
OneInDoubt == \A c, d \in InDoubt : Account[c] = Account[d] => c = d

\* A scheduler redeems only under the executor lock and for an entry that the saved
\* schedule shows as running: a cancellation or another edit that came before the
\* claim prevents the request, one that comes after does not hide it.
SentIsClaimed ==
    \A p \in Schedulers : proc[p].at \in {"writing", "posting", "sent"} =>
        executor = p /\ stored.entries[proc[p].entry].state = "running"

\* A claimed entry is left only with an outcome: no edit, plan or failed preflight
\* returns it to the entries that may be cancelled, missed or replaced.
ClaimKept ==
    [][\A i \in DOMAIN stored.entries : stored.entries[i].state \in Claimed =>
          \/ stored'.entries[i].state \in Claimed
          \/ stored'.entries[i].state \in Terminal /\ stored'.entries[i].outcome]_vars

\* An adaptive entry without a time of its own is claimed only by a step that made
\* a new plan first ("adaptive work first obtains a complete fresh plan").
ClaimsFreshPlan ==
    [][\A p \in Schedulers :
          LET e == proc[p].snap.entries[proc[p].entry] IN
          /\ proc[p].at = "claiming" /\ proc'[p].at = "using"
          /\ proc[p].snap.adaptive /\ ~e.pinned /\ ~proc[p].resume
          => p \in planned]_vars

Listed(i) == i \in DOMAIN stored.entries
Settles(i) == Listed(i) => IsTerminal(stored.entries[i]) \/ ~stored.enabled

\* A dated entry of an enabled fixed schedule is used, skipped or missed at last
\* ("fixed overdues catch up before expiry").
DueSettles ==
    \A i \in 1..MaxEntries :
        (/\ stored.enabled /\ ~stored.adaptive
         /\ Listed(i) /\ stored.entries[i].at # Never) ~> Settles(i)
============================================================================
