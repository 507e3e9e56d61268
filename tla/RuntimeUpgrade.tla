--------------------------- MODULE RuntimeUpgrade ---------------------------
(***************************************************************************)
(* A runtime upgrade across processes (macOS): the supervisor stops its    *)
(* worker, leaves the listening socket with a guard process and replaces   *)
(* its own image by the candidate's, which commits or returns to the       *)
(* previous image.  A supervisor that dies is started again by launchd and *)
(* reads the receipt; an unfinished handoff is recovered from the guard.   *)
(*   cmd/cq/proxy_upgrade_darwin.go      cmd/cq/proxy_unix.go              *)
(*   internal/proxy/runtime_upgrade.go   runtime_upgrade_guard_darwin.go   *)
(*                                                                         *)
(* What happens inside the serving supervisor is in RuntimeSupervisor; its *)
(* drain is one step here, and a worker that serves is not lost by itself. *)
(***************************************************************************)
EXTENDS Naturals, Sequences, FiniteSets

CONSTANTS Pids,         \* process identifiers, reused once nobody names them
          NoPid,
          First, Second,\* the two retained images
          Environments  \* what may happen: one of them does in a behaviour

\* boot: a worker does not boot.  late: its release is not proven.  save: a
\* write of the receipt reports an error, with or without the file replaced.
\* exec: the handoff fails before the image is replaced.  deadline: a control
\* message is not answered in time.  guard: the guard dies or reaches its limit
\* of five minutes while the upgrade is unfinished.
FaultKinds == {"boot", "late", "save", "exec", "deadline", "guard"}

\* Where the supervisor process is: reading the receipt and binding; serving and
\* on its way to the handoff; resumed in a new image.
Starting == {"binding", "asking", "recovered"}
Serving == {"serving", "begun", "waiting"}
Handing == {"handoff", "released", "started", "guarded", "prepared", "rollback"}
Resumed == {"resuming", "returning", "booted", "ready", "committed", "unready", "failing"}
Places == {"down"} \cup Starting \cup Serving \cup Handing \cup Resumed

ASSUME UpgradeAssumption ==
    /\ NoPid \notin Pids /\ First # Second
    \* The faults, the places where the supervisor process may be killed, how
    \* often it may, and how many transactions are begun.
    /\ Environments \subseteq
         [faults : SUBSET FaultKinds, places : SUBSET Places, crashes : Nat,
          upgrades : Nat]

VARIABLES
    receipt,  \* runtime-upgrade.json
    sup,      \* the process of the launchd job
    workers,  \* live worker processes: the supervisor's pid and the image
    guard,    \* the guard process
    link,     \* the control socket: none, open, or broken by the supervisor's death
    toGuard, toSup, \* frames on it
    env       \* the environment, with the crashes that are left

vars == <<receipt, sup, workers, guard, link, toGuard, toSup, env>>
wire == <<link, toGuard, toSup>>

Unfinished == {"handoff", "verifying", "rolling_back"}
Terminal == {"none", "committed", "deferred", "rolled_back", "failed"}
Phases == {"prepared", "waiting"} \cup Unfinished \cup Terminal
RecoveryLimit == 3
Images == {First, Second}

NoReceipt == [phase |-> "none", gen |-> 0, previous |-> First, candidate |-> Second,
              pid |-> NoPid, guard |-> FALSE, attempts |-> 0, unproven |-> FALSE]
NoSup == [at |-> "down", pid |-> NoPid, image |-> First, adopted |-> FALSE,
          recovery |-> FALSE]
NoGuard == [at |-> "none", recovery |-> FALSE, verified |-> FALSE]

TypeOK ==
    /\ receipt \in [phase : Phases, gen : 0..env.upgrades, previous : Images,
                    candidate : Images, pid : Pids \cup {NoPid}, guard : BOOLEAN,
                    attempts : 0..RecoveryLimit, unproven : BOOLEAN]
    /\ sup \in [at : Places, pid : Pids \cup {NoPid}, image : Images,
                adopted : BOOLEAN,    \* the listener came with the image
                recovery : BOOLEAN]   \* resume.Recovery
    /\ workers \subseteq Pids \X Images
    /\ guard \in [at : {"none", "started", "announced", "ready"},
                  recovery : BOOLEAN, verified : BOOLEAN]
    /\ link \in {"none", "open", "broken"}
    /\ toGuard \in Seq({"ready", "commit", "rollback"})
    /\ toSup \in Seq({"guard_ready", "resume", "recover", "verified",
                      "retired"})
    /\ env \in [faults : SUBSET FaultKinds, places : SUBSET Places, crashes : Nat,
               upgrades : Nat]

Init ==
    /\ receipt = NoReceipt
    /\ sup = NoSup
    /\ workers = {}
    /\ guard = NoGuard
    /\ link = "none" /\ toGuard = <<>> /\ toSup = <<>>
    /\ env \in Environments

-----------------------------------------------------------------------------
(* The receipt.                                                            *)

validRuntimeUpgradeTransition ==
    {<<"prepared", "waiting">>, <<"prepared", "deferred">>, <<"prepared", "failed">>,
     <<"waiting", "handoff">>, <<"waiting", "deferred">>, <<"waiting", "failed">>,
     <<"handoff", "verifying">>, <<"handoff", "rolling_back">>,
     <<"verifying", "committed">>, <<"verifying", "rolling_back">>,
     <<"rolling_back", "rolled_back">>, <<"rolling_back", "failed">>}

\* What Save accepts as the successor of the receipt on disk.
Follows(old, new) ==
    \/ /\ new.gen = old.gen + 1 /\ old.phase \in Terminal /\ new.phase = "prepared"
    \/ /\ new.gen = old.gen
       /\ old.guard # new.guard => new.guard /\ new.phase = "handoff"
       /\ IF old.attempts # new.attempts
          THEN /\ new.attempts = old.attempts + 1
               /\ new.phase = "rolling_back" /\ old.phase \in Unfinished
          ELSE old.pid = new.pid
       /\ \/ old.phase = new.phase
          \/ <<old.phase, new.phase>> \in validRuntimeUpgradeTransition

\* How a Save may end.
Save(new) ==
    IF ~Follows(receipt, new) THEN {[ok |-> FALSE, receipt |-> receipt]}
    ELSE {[ok |-> TRUE, receipt |-> new]} \cup
         (IF "save" \in env.faults
          THEN {[ok |-> FALSE, receipt |-> receipt], [ok |-> FALSE, receipt |-> new]}
          ELSE {})

Phase(p) == [receipt EXCEPT !.phase = p]

-----------------------------------------------------------------------------
(* The job process: its end and its start.                                 *)

\* The process ends: its descriptors close, and a guard it talked to can read
\* what was sent before it sees the end of the stream.
ProcessEnds ==
    /\ sup' = NoSup
    /\ link' = IF link = "open" THEN "broken" ELSE link
    /\ toSup' = <<>> /\ toGuard' = toGuard

\* A killed supervisor leaves its worker behind for a while.
Crash ==
    /\ sup.at \in env.places \ {"down"} /\ env.crashes > 0
    /\ env' = [env EXCEPT !.crashes = @ - 1]
    /\ ProcessEnds
    /\ UNCHANGED <<receipt, workers, guard>>

\* An orphaned worker reads the end of its control stream and exits.
OrphanExits(w) ==
    /\ w \in workers /\ w[1] # sup.pid
    /\ workers' = workers \ {w}
    /\ UNCHANGED <<receipt, sup, guard, wire, env>>

own == <<sup.pid, sup.image>>
\* A pid that nobody names.  The bound on Pids makes a start wait for one.
FreshPids == {p \in Pids : p # receipt.pid /\ \A w \in workers : w[1] # p}
FreshPid == CHOOSE p \in FreshPids : TRUE

\* runDarwinRuntimeUpgradeEntry.  With an unfinished handoff a start that does
\* not reach the recorded guard fails, as does any start after an unproven release.
MutantStartPrevious ==
    /\ sup.at = "down" /\ receipt.phase \in Terminal
    /\ sup' = [NoSup EXCEPT !.at = "binding", !.pid = FreshPid, !.image = receipt.previous]
    /\ UNCHANGED <<receipt, workers, guard, wire, env>>

Start ==
    /\ sup.at = "down" /\ FreshPids # {}
    /\ \/ /\ receipt.phase \in Unfinished
          /\ receipt.guard /\ guard.at \in {"announced", "ready"}
          /\ sup' = [NoSup EXCEPT !.at = "asking", !.pid = FreshPid]
          /\ UNCHANGED receipt
       \/ /\ receipt.phase \notin Unfinished /\ ~receipt.unproven
          /\ \E s \in IF receipt.phase \in {"prepared", "waiting"}
                      THEN Save(Phase("deferred"))
                      ELSE {[ok |-> TRUE, receipt |-> receipt]} :
               /\ receipt' = s.receipt
               /\ sup' = IF ~s.ok THEN sup
                         ELSE [NoSup EXCEPT !.at = "binding", !.pid = FreshPid,
                                 !.image = IF receipt.phase = "committed"
                                           THEN receipt.candidate ELSE receipt.previous]
    /\ UNCHANGED <<workers, guard, wire, env>>

\* runUnixProxyOwnedRuntime: the address is free once no guard holds it.  The
\* supervisor serves even if its worker does not boot.
Bind ==
    /\ sup.at = "binding"
    /\ IF guard.at # "none"
       THEN ProcessEnds /\ UNCHANGED workers
       ELSE /\ sup' = [sup EXCEPT !.at = "serving"]
            /\ \/ workers' = workers \cup {own}
               \/ "boot" \in env.faults /\ UNCHANGED workers
            /\ UNCHANGED wire
    /\ UNCHANGED <<receipt, guard, env>>

\* The guard ends and closes the listener; what it sent can still be read.
GuardEnds == guard' = NoGuard /\ link' = "none" /\ toGuard' = <<>>

\* RecoverRuntimeUpgradeListener, served by the guard: nobody may hold the
\* lifecycle lock beside the process that asks, so that no worker is left.
MutantRecoverAnyOwner ==
    /\ sup.at = "asking" /\ guard.at = "ready"
    /\ receipt.attempts < RecoveryLimit
    /\ receipt' = [Phase("rolling_back") EXCEPT !.attempts = @ + 1, !.pid = sup.pid]
    /\ sup' = [sup EXCEPT !.at = "recovered"]
    /\ guard' = [guard EXCEPT !.recovery = TRUE, !.verified = FALSE]
    /\ link' = "open" /\ toGuard' = <<>> /\ toSup' = <<"recover">>
    /\ UNCHANGED <<workers, env>>

MutantRecoverUnlimited ==
    /\ sup.at = "asking" /\ guard.at = "ready" /\ workers = {}
    /\ receipt' = [Phase("rolling_back") EXCEPT !.attempts = @ + 1, !.pid = sup.pid]
    /\ sup' = [sup EXCEPT !.at = "recovered"]
    /\ guard' = [guard EXCEPT !.recovery = TRUE, !.verified = FALSE]
    /\ link' = "open" /\ toGuard' = <<>> /\ toSup' = <<"recover">>
    /\ UNCHANGED <<workers, env>>

\* The guard answers from before it announces itself.  Its own loop takes the
\* recovered process up, unless it ends first: on the resume it still has to write
\* to a supervisor that is gone, or on a frame of that supervisor, whose pid is no
\* longer the receipt's.
serveRuntimeUpgradeRecovery ==
    /\ sup.at = "asking" /\ guard.at \in {"announced", "ready"}
    /\ receipt.phase \notin Terminal /\ receipt.attempts < RecoveryLimit
    /\ receipt.pid # sup.pid
    /\ workers = {}
    /\ \E s \in Save([Phase("rolling_back") EXCEPT !.attempts = @ + 1, !.pid = sup.pid]) :
         /\ receipt' = s.receipt
         /\ \/ /\ s.ok /\ guard.at = "ready"
               /\ sup' = [sup EXCEPT !.at = "recovered"]
               /\ guard' = [guard EXCEPT !.recovery = TRUE, !.verified = FALSE]
               /\ link' = "open" /\ toGuard' = <<>> /\ toSup' = <<"recover">>
            \/ /\ s.ok /\ (guard.at = "announced" \/ toGuard # <<>>)
               /\ sup' = [sup EXCEPT !.at = "recovered"]
               /\ GuardEnds /\ toSup' = <<>>
            \/ /\ ~s.ok
               /\ sup' = NoSup /\ UNCHANGED <<guard, wire>>
    /\ UNCHANGED <<workers, env>>

\* The guard closes the connection of a request it refuses, or is gone.
RecoveryRefused ==
    /\ sup.at = "asking"
    /\ \/ guard.at \notin {"announced", "ready"}
       \/ receipt.attempts >= RecoveryLimit \/ workers # {}
    /\ sup' = NoSup
    /\ UNCHANGED <<receipt, workers, guard, wire, env>>

RecoveredExec ==
    /\ sup.at = "recovered"
    /\ sup' = [sup EXCEPT !.at = "resuming", !.image = receipt.previous, !.adopted = TRUE]
    /\ UNCHANGED <<receipt, workers, guard, wire, env>>

-----------------------------------------------------------------------------
(* The predecessor, until its image is replaced.                           *)

Begin ==
    /\ sup.at = "serving" /\ own \in workers
    /\ receipt.phase \in Terminal /\ receipt.gen < env.upgrades
    /\ \E s \in Save([NoReceipt EXCEPT !.phase = "prepared", !.gen = receipt.gen + 1,
                        !.previous = sup.image,
                        !.candidate = CHOOSE i \in Images : i # sup.image,
                        !.pid = sup.pid]) :
         /\ receipt' = s.receipt
         /\ sup' = IF s.ok THEN [sup EXCEPT !.at = "begun"] ELSE sup
    /\ UNCHANGED <<workers, guard, wire, env>>

\* run: the drain, which is deferred at its deadline, and the save of handoff.
\* A goroutine whose save failed ends, and the supervisor serves on.
Drain ==
    /\ \/ /\ sup.at = "begun"
          /\ \E s \in Save(Phase("waiting")) :
               /\ receipt' = s.receipt
               /\ sup' = [sup EXCEPT !.at = IF s.ok THEN "waiting" ELSE "serving"]
       \/ /\ sup.at = "waiting"
          /\ \/ \E s \in Save(Phase("deferred")) :
                  receipt' = s.receipt /\ sup' = [sup EXCEPT !.at = "serving"]
             \/ \E s \in Save(Phase("handoff")) :
                  /\ receipt' = s.receipt
                  /\ sup' = [sup EXCEPT !.at = IF s.ok THEN "handoff" ELSE "serving"]
    /\ UNCHANGED <<workers, guard, wire, env>>

\* The worker is reaped.  Without a proof the transaction fails, and its monitor
\* replaces the worker.
ReapWorker ==
    /\ sup.at = "handoff"
    /\ \/ /\ sup' = [sup EXCEPT !.at = "released"]
          /\ workers' = workers \ {own}
          /\ UNCHANGED receipt
       \/ /\ "late" \in env.faults
          /\ sup' = [sup EXCEPT !.at = "serving"]
          /\ receipt' \in {Phase("failed")} \cup
                (IF "save" \in env.faults THEN {receipt, Phase("rolling_back")} ELSE {})
          /\ UNCHANGED workers
    /\ UNCHANGED <<guard, wire, env>>

\* The guard is started with the listener, unless an earlier one still answers.
StartGuard ==
    /\ sup.at = "released" /\ guard.at = "none"
    /\ sup' = [sup EXCEPT !.at = "started"]
    /\ guard' = [NoGuard EXCEPT !.at = "started"]
    /\ link' = "open" /\ toGuard' = <<>> /\ toSup' = <<>>
    /\ UNCHANGED <<receipt, workers, env>>

\* The guard's pid is recorded, and the guard is told to prepare.
RecordGuard ==
    /\ sup.at = "started"
    /\ \E s \in Save([receipt EXCEPT !.guard = TRUE]) :
         /\ receipt' = s.receipt
         /\ sup' = [sup EXCEPT !.at = IF s.ok THEN "guarded" ELSE "rollback"]
         /\ guard' = IF s.ok THEN guard ELSE NoGuard
         /\ link' = IF s.ok THEN link ELSE "none"
    /\ UNCHANGED <<workers, toGuard, toSup, env>>

\* The guard is ready, and the image is replaced; the process keeps its pid.
GuardIsReady ==
    /\ sup.at = "guarded" /\ toSup # <<>> /\ Head(toSup) = "guard_ready"
    /\ toSup' = Tail(toSup)
    /\ sup' = [sup EXCEPT !.at = "prepared"]
    /\ UNCHANGED <<receipt, workers, guard, link, toGuard, env>>

Exec ==
    /\ sup.at = "prepared"
    /\ sup' = [sup EXCEPT !.at = "resuming", !.image = receipt.candidate,
                          !.adopted = TRUE, !.recovery = FALSE]
    /\ UNCHANGED <<receipt, workers, guard, wire, env>>

\* The handoff fails in the predecessor, which kills its guard.
HandoffFails ==
    /\ \/ sup.at = "released" /\ guard.at # "none"
       \/ sup.at \in {"guarded", "prepared"} /\ guard.at = "none"
       \/ sup.at \in {"released", "started", "guarded", "prepared"} /\ "exec" \in env.faults
    /\ sup' = [sup EXCEPT !.at = "rollback"]
    /\ IF sup.at = "released" THEN UNCHANGED <<guard, wire>>
       ELSE guard' = NoGuard /\ link' = "none" /\ toGuard' = <<>> /\ toSup' = <<>>
    /\ UNCHANGED <<receipt, workers, env>>

\* rollback: the previous worker is booted here once rolling_back is saved; if
\* that save fails the goroutine ends, and the supervisor has no worker.
Rollback ==
    /\ sup.at = "rollback"
    /\ \/ /\ receipt.phase # "rolling_back"
          /\ \E s \in Save(Phase("rolling_back")) :
               receipt' = s.receipt /\ sup' = [sup EXCEPT !.at = IF s.ok THEN @ ELSE "serving"]
          /\ UNCHANGED workers
       \/ /\ receipt.phase = "rolling_back"
          /\ sup' = [sup EXCEPT !.at = "serving"]
          /\ \/ /\ \E s \in Save(Phase("rolled_back")) : receipt' = s.receipt
                /\ workers' = workers \cup {own}
             \/ /\ "boot" \in env.faults
                /\ \E s \in Save(Phase("failed")) : receipt' = s.receipt
                /\ UNCHANGED workers
    /\ UNCHANGED <<guard, wire, env>>

-----------------------------------------------------------------------------
(* The resumed image: the candidate, or the previous one in recovery.      *)

Receives(frame) == toSup # <<>> /\ Head(toSup) = frame
\* Reading fails: the stream has ended, or the deadline passes.
ReadFails == toSup = <<>> /\ (guard.at = "none" \/ "deadline" \in env.faults)

Resume(frame) ==
    /\ sup.at \in {"resuming", "returning"}
    /\ Receives(frame)
    /\ receipt.pid = sup.pid
    /\ sup.image = IF frame = "recover" THEN receipt.previous ELSE receipt.candidate
    /\ toSup' = Tail(toSup)
    /\ \/ /\ sup' = [sup EXCEPT !.at = "booted", !.recovery = frame = "recover"]
          /\ workers' = workers \cup {own}
       \/ /\ "boot" \in env.faults
          /\ sup' = [sup EXCEPT !.at = "unready", !.recovery = frame = "recover"]
          /\ UNCHANGED workers
    /\ UNCHANGED <<receipt, guard, link, toGuard, env>>

\* A resume that is refused before its worker exists leaves the receipt alone.
ResumeRefused ==
    /\ sup.at \in {"resuming", "returning"}
    /\ ReadFails \/ (toSup # <<>> /\ Head(toSup) \notin {"resume", "recover"})
    /\ ProcessEnds
    /\ UNCHANGED <<receipt, workers, guard, env>>

\* The candidate records verifying; either image then reports to the guard.
SendReady ==
    /\ sup.at = "booted"
    /\ \E s \in IF sup.recovery THEN {[ok |-> TRUE, receipt |-> receipt]}
                ELSE Save(Phase("verifying")) :
         /\ receipt' = s.receipt
         /\ IF s.ok /\ link = "open"
            THEN sup' = [sup EXCEPT !.at = "ready"] /\ toGuard' = Append(toGuard, "ready")
            ELSE sup' = [sup EXCEPT !.at = "unready"] /\ UNCHANGED toGuard
    /\ UNCHANGED <<workers, guard, link, toSup, env>>

\* Verified by the guard, the outcome is saved and the guard told to retire.
CommitOutcome ==
    /\ sup.at = "ready" /\ Receives("verified")
    /\ toSup' = Tail(toSup)
    /\ \E s \in Save(Phase(IF sup.recovery THEN "rolled_back" ELSE "committed")) :
         /\ receipt' = s.receipt
         /\ sup' = [sup EXCEPT !.at = IF s.ok THEN "committed" ELSE "unready"]
         /\ toGuard' = IF s.ok /\ link = "open" THEN Append(toGuard, "commit") ELSE toGuard
    /\ UNCHANGED <<workers, guard, link, env>>

NotVerified ==
    /\ sup.at = "ready"
    /\ ReadFails \/ (toSup # <<>> /\ Head(toSup) # "verified")
    /\ sup' = [sup EXCEPT !.at = "unready"]
    /\ UNCHANGED <<receipt, workers, guard, wire, env>>

Serve ==
    /\ sup.at = "committed"
    /\ toSup # <<>> \/ ReadFails
    /\ sup' = [sup EXCEPT !.at = "serving"]
    /\ link' = IF guard.at = "none" THEN "none" ELSE "broken"
    /\ toSup' = <<>>
    /\ UNCHANGED <<receipt, workers, guard, toGuard, env>>

\* The failed image's worker is reaped and rolling_back saved.  In recovery, or
\* without a proof of release, this is the end of the transaction.
Fail(proven) ==
    /\ sup.at = "unready"
    /\ proven \/ "late" \in env.faults
    /\ workers' = workers \ {own}
    /\ \E s \in Save(Phase("rolling_back")) :
         IF s.ok /\ proven /\ ~sup.recovery
         THEN /\ receipt' = s.receipt
              /\ sup' = [sup EXCEPT !.at = "failing"]
              /\ UNCHANGED wire
         ELSE /\ receipt' \in
                   IF ~s.ok THEN {s.receipt}
                   ELSE {[s.receipt EXCEPT !.phase = "failed", !.unproven = ~proven]}
                        \cup (IF "save" \in env.faults THEN {s.receipt} ELSE {})
              /\ ProcessEnds
    /\ UNCHANGED <<guard, env>>

\* The guard is told to roll back, and the previous image takes over.
MutantReturnUnannounced ==
    /\ sup.at = "failing"
    /\ sup' = [sup EXCEPT !.at = "returning", !.image = receipt.previous]
    /\ UNCHANGED <<receipt, workers, guard, wire, env>>

ReturnToPrevious ==
    /\ sup.at = "failing"
    /\ IF link = "open"
       THEN /\ sup' = [sup EXCEPT !.at = "returning", !.image = receipt.previous]
            /\ toGuard' = Append(toGuard, "rollback")
            /\ UNCHANGED <<link, toSup>>
       ELSE ProcessEnds
    /\ UNCHANGED <<receipt, workers, guard, env>>

-----------------------------------------------------------------------------
(* The guard.                                                              *)

\* Prepared, it opens its private socket, answers and sends upgrade_resume.  A
\* write to a supervisor that is gone fails, and ends the guard.
GuardPrepares ==
    /\ \/ /\ guard.at = "started" /\ link = "open" /\ sup.at = "guarded"
          /\ receipt.phase = "handoff" /\ receipt.guard
          /\ guard' = [guard EXCEPT !.at = "announced"]
          /\ toSup' = Append(toSup, "guard_ready")
          /\ UNCHANGED <<link, toGuard>>
       \/ /\ guard.at = "announced" /\ link = "open"
          /\ guard' = [guard EXCEPT !.at = "ready"]
          /\ toSup' = Append(toSup, "resume")
          /\ UNCHANGED <<link, toGuard>>
       \/ /\ guard.at \in {"started", "announced"} /\ link = "broken"
          /\ GuardEnds /\ UNCHANGED toSup
    /\ UNCHANGED <<receipt, sup, workers, env>>

\* What the receipt says when a frame is sent, and that of a commit it follows a
\* verified ready.
Expected(frame) ==
    \/ /\ frame = "ready"
       /\ receipt.phase = IF guard.recovery THEN "rolling_back" ELSE "verifying"
    \/ frame = "rollback" /\ receipt.phase = "rolling_back"
    \/ /\ frame = "commit" /\ guard.verified
       /\ receipt.phase = IF guard.recovery THEN "rolled_back" ELSE "committed"

\* A frame it does not expect, or an answer it cannot write, ends the guard.
GuardReads ==
    /\ guard.at = "ready" /\ toGuard # <<>>
    /\ LET frame == Head(toGuard)
           answered == link = "open" /\ Expected(frame)
       IN  \/ /\ answered /\ frame = "ready"
              /\ guard' = [guard EXCEPT !.verified = TRUE]
              /\ toSup' = Append(toSup, "verified")
              /\ toGuard' = Tail(toGuard) /\ UNCHANGED link
           \/ /\ answered /\ frame = "rollback"
              /\ guard' = [guard EXCEPT !.recovery = TRUE, !.verified = FALSE]
              /\ toSup' = Append(toSup, "recover")
              /\ toGuard' = Tail(toGuard) /\ UNCHANGED link
           \/ /\ answered /\ frame = "commit"
              /\ toSup' = Append(toSup, "retired")
              /\ GuardEnds
           \/ ~answered /\ GuardEnds /\ UNCHANGED toSup
    /\ UNCHANGED <<receipt, sup, workers, env>>

\* The end of the stream: the guard keeps the listener for a recovery.
MutantGuardEndsAtEof ==
    /\ guard.at = "ready" /\ link = "broken" /\ toGuard = <<>>
    /\ GuardEnds
    /\ UNCHANGED <<receipt, sup, workers, toSup, env>>

GuardAtEof ==
    /\ guard.at = "ready" /\ link = "broken" /\ toGuard = <<>>
    /\ link' = "none"
    /\ UNCHANGED <<receipt, sup, workers, guard, toGuard, toSup, env>>

\* Its limit of five minutes passes.
GuardExpires ==
    /\ guard.at # "none"
    /\ receipt.phase \notin Unfinished \/ "guard" \in env.faults
    /\ GuardEnds
    /\ UNCHANGED <<receipt, sup, workers, toSup, env>>

-----------------------------------------------------------------------------
StartStep ==
    Start \/ Bind \/ serveRuntimeUpgradeRecovery \/ RecoveryRefused \/ RecoveredExec
HandoffStep ==
    \/ Drain \/ ReapWorker \/ StartGuard \/ RecordGuard \/ GuardIsReady \/ Exec
    \/ HandoffFails \/ Rollback
ResumeStep ==
    \/ Resume("resume") \/ Resume("recover") \/ ResumeRefused \/ SendReady
    \/ CommitOutcome \/ NotVerified \/ Serve
    \/ (\E proven \in BOOLEAN : Fail(proven)) \/ ReturnToPrevious
GuardStep == GuardPrepares \/ GuardReads \/ GuardAtEof

Next ==
    \/ Crash \/ (\E w \in Pids \X Images : OrphanExits(w))
    \/ StartStep \/ Begin \/ HandoffStep \/ ResumeStep \/ GuardStep \/ GuardExpires

Spec == Init /\ [][Next]_vars

\* launchd starts the job again, orphans exit, the guard's time ends, and each
\* process goes on.  A start that asks before the orphan is gone is refused and
\* repeated, so recovery needs the stronger form.
Fairness ==
    /\ WF_vars(StartStep) /\ SF_vars(serveRuntimeUpgradeRecovery)
    /\ WF_vars(HandoffStep) /\ WF_vars(ResumeStep) /\ WF_vars(GuardStep)
    /\ WF_vars(GuardExpires)
    /\ \A w \in Pids \X Images : WF_vars(OrphanExits(w))
LiveSpec == Spec /\ Fairness

-----------------------------------------------------------------------------
(* Properties.                                                             *)

\* A resumed image never runs its worker beside one of the image it replaced,
\* and a supervisor that recovered the listener runs the only worker there is,
\* whatever crashed before. (execDarwinRuntimeUpgrade, serveRuntimeUpgradeRecovery,
\* runDarwinRuntimeUpgradeResume)
SoleOwner ==
    /\ sup.adopted => \A w \in workers : w[1] = sup.pid => w = own
    /\ sup.adopted /\ receipt.attempts > 0 /\ receipt.pid = sup.pid => workers \subseteq {own}

\* Who serves under a finished transaction runs the image it selected.
\* (runDarwinRuntimeUpgradeEntry, runDarwinRuntimeUpgradeResume, rollback)
ServesSelected ==
    sup.at = "serving" =>
        /\ receipt.phase = "committed" => sup.image = receipt.candidate
        /\ receipt.phase \in {"deferred", "rolled_back", "failed"}
             => sup.image = receipt.previous

\* The guard or the supervisor that goes on after it is there whenever the
\* supervisor is killed at one of these places.  In between the receipt is
\* ahead of the guard (from the stop of the worker until the guard listens),
\* and a guard that answers a supervisor that just died ends.
GuardedPlaces ==
    Serving \cup {"binding", "asking", "recovered", "booted", "committed", "unready",
                 "failing"}
Guarded == env.faults \subseteq {"boot", "exec", "late"} /\ env.places \subseteq GuardedPlaces

\* Until the transaction is over some process holds the listening socket.
\* (RunRuntimeUpgradeGuardWithFiles)
ListenerRetained ==
    Guarded /\ receipt.phase \in Unfinished =>
        guard.at # "none" \/ sup.at \in Serving \cup Handing \cup Resumed \cup {"recovered"}

\* Every recorded handoff is finished, if every release is proven.
\* (runDarwinRuntimeUpgradeEntry)
HandoffsEnd ==
    Guarded /\ "late" \notin env.faults /\ receipt.phase \in Unfinished
      ~> receipt.phase \in Terminal

=============================================================================
