-------------------------- MODULE RuntimeSupervisor --------------------------
(***************************************************************************)
(* The ingress supervisor of the proxy, its worker, rescue mode and the    *)
(* in-process half of a runtime upgrade:                                   *)
(*   internal/proxy/runtime_supervisor.go    runtime_evidence.go           *)
(*   .../runtime_upgrade_controller.go       runtime_upgrade_ingress.go    *)
(*   .../runtime_upgrade.go                  runtime_worker.go             *)
(*                                                                         *)
(* One mutex guards the supervisor's fields, and a step here is one        *)
(* section under it.  Rescue is entered and left by goroutines that give   *)
(* the mutex up while they drain; each works for the mode generation that  *)
(* started it.  A monitor goroutine per worker replaces it when it exits.  *)
(* The upgrade controller is one more goroutine, with upgradeBusy as its   *)
(* fence.  Two things survive the process: the mode evidence and the       *)
(* receipt of the upgrade.                                                 *)
(***************************************************************************)
EXTENDS Naturals, FiniteSets

CONSTANTS Workers,      \* identities of worker processes, reused once forgotten
          Requests,     \* client connections
          None,         \* no worker
          CrashLimit,   \* runtimeCrashLimit
          MaxGen,       \* bound on mode generations
          Upgrades,     \* whether upgrades are requested
          Faults        \* the faults of the environment that may occur

\* launch: no process starts.  boot: the worker's handshake or its checkpoint
\* fails.  activate: its background work does not start.  late: a reap
\* completes after its deadline.  commit, save: a write of the mode evidence or
\* of the receipt reports an error, with or without the file replaced.
\* resume: the worker does not answer ResumeUpgrade.
FaultKinds == {"launch", "boot", "activate", "late", "commit", "save", "resume"}

ASSUME SupervisorAssumption ==
    /\ None \notin Workers
    /\ IsFiniteSet(Requests)
    /\ CrashLimit \in Nat /\ MaxGen \in Nat
    /\ Upgrades \in BOOLEAN
    /\ Faults \subseteq FaultKinds

VARIABLES
    up,         \* the supervisor process: down, starting or serving
    mode,       \* trafficMode
    gen,        \* modeGeneration
    disk,       \* the runtime-mode file: generation and effective mode
    current,    \* the evidence the store believes is on disk
    own,        \* worker, admissionReady, recoveryPending and pendingRelease
    proc,       \* the worker processes
    watched,    \* workers with a monitor goroutine
    crashes,    \* crashStarts inside the window
    flags,      \* rescueEntryRun and rescueExitRun
    run,        \* the goroutine of each generation, entering or leaving rescue
    req,        \* the client requests
    upg,        \* the upgrade controller's goroutine, and upgradeBusy
    phase,      \* the phase of the receipt on disk
    paused      \* whether the listener is paused

modeVars == <<mode, gen, disk, current, flags, run>>
workerVars == <<own, proc, watched, crashes>>
upgradeVars == <<upg, phase, paused>>
vars == <<up, modeVars, workerVars, req, upgradeVars>>

Modes == {"normal", "rescue_draining", "rescue", "rescue_exit_draining"}
Intents == {"rescue_draining", "rescue_exit_draining"}
Phases == {"none", "prepared", "waiting", "handoff", "verifying", "committed",
           "deferred", "rolling_back", "rolled_back", "failed"}
Gens == 0..MaxGen
Optional == Workers \cup {None}

NoRun == [at |-> "none", worker |-> None, zero |-> TRUE]
NoRequest == [at |-> "none", counted |-> FALSE]
NoUpgrade == [at |-> "idle", selected |-> None]
NoOwner == [worker |-> None, ready |-> FALSE, recovering |-> FALSE,
            pending |-> FALSE, released |-> FALSE, chain |-> TRUE]

TypeOK ==
    /\ up \in {"down", "starting", "serving"}
    /\ mode \in Modes /\ gen \in Gens
    /\ disk \in [gen : Gens, mode : Modes] /\ current \in [gen : Gens, mode : Modes]
    /\ own \in [worker : Optional, ready : BOOLEAN, recovering : BOOLEAN,
                pending : BOOLEAN,    \* pendingRelease is the last release
                released : BOOLEAN,   \* some worker was released
                chain : BOOLEAN]      \* checkpointDigest is the store's own
    /\ proc \in [Workers -> {"gone", "alive", "dead"}]
    /\ watched \subseteq Workers
    /\ crashes \in 0..CrashLimit
    /\ flags \in [entry : BOOLEAN, exit : BOOLEAN]
    /\ run \in [Gens -> [at : {"none", "start", "drain", "reaped", "wait", "end"},
                         worker : Optional, zero : BOOLEAN]]
    /\ req \in [Requests -> [at : {"none", "entered", "routed", "normal", "rescue"},
                             counted : BOOLEAN]]
    /\ upg \in [at : {"idle", "begun", "waiting", "paused", "prepared", "quiet",
                      "drained", "handoff", "released", "rollback"},
                selected : Optional]
    /\ phase \in Phases
    /\ paused \in BOOLEAN

Init ==
    /\ up = "down"
    /\ mode = "normal" /\ gen = 0
    /\ disk = [gen |-> 0, mode |-> "normal"] /\ current = disk
    /\ own = NoOwner
    /\ proc = [w \in Workers |-> "gone"]
    /\ watched = {}
    /\ crashes = 0
    /\ flags = [entry |-> FALSE, exit |-> FALSE]
    /\ run = [g \in Gens |-> NoRun]
    /\ req = [r \in Requests |-> NoRequest]
    /\ upg = NoUpgrade
    /\ phase = "none"
    /\ paused = FALSE

busy == upg.at # "idle"
terminal(p) == p \in {"none", "committed", "deferred", "rolled_back", "failed"}

-----------------------------------------------------------------------------
(* Helpers of several handlers.                                            *)

\* StopAndReap kills the process once its deadline passes and reaps it in any
\* case; it reports an error, next to a valid release, if the deadline passed.
StopAndReap(p, w) == [p EXCEPT ![w] = "gone"]
ReapResults == {TRUE} \cup (IF "late" \in Faults THEN {FALSE} ELSE {})

\* A worker identity that no goroutine still holds.  The bound on Workers makes a
\* boot wait for the monitor of some earlier worker to end.
Fresh ==
    {w \in Workers :
        /\ proc[w] = "gone" /\ w \notin watched /\ w # own.worker
        /\ w # upg.selected
        /\ \A g \in Gens : run[g].worker # w}

bootLocked(o, p) ==
    LET w == CHOOSE v \in Fresh : TRUE
        Result(o2, p2, watch, ok) ==
            [own |-> o2, proc |-> p2, watch |-> watch, ok |-> ok]
        releaseFailedBoot(intact) ==
            {Result(IF proven
                    THEN [o EXCEPT !.pending = TRUE, !.released = TRUE, !.chain = intact]
                    ELSE [o EXCEPT !.worker = w, !.ready = FALSE, !.recovering = TRUE,
                                   !.pending = FALSE, !.released = TRUE, !.chain = intact],
                    p, {}, FALSE) : proven \in ReapResults}
        booted == Result([o EXCEPT !.worker = w, !.ready = TRUE],
                         [p EXCEPT ![w] = "alive"], {w}, TRUE)
    IN  IF Fresh = {} THEN {} ELSE UNION {
          IF "launch" \in Faults THEN {Result(o, p, {}, FALSE)} ELSE {},
          IF "boot" \in Faults \/ ~o.chain THEN releaseFailedBoot(o.chain) ELSE {},
          IF "activate" \in Faults /\ o.chain THEN releaseFailedBoot(FALSE) ELSE {},
          IF o.chain THEN {booted} ELSE {} }

Commit(g, m) ==
    LET new == [gen |-> g, mode |-> m]
        ordered == \/ g > current.gen
                   \/ g = current.gen /\ current.mode \in Intents /\ m \notin Intents
        Outcome(ok, d, c) == [ok |-> ok, disk |-> d, current |-> c]
    IN  IF ~ordered \/ disk # current
        THEN {Outcome(FALSE, disk, current)}
        ELSE {Outcome(TRUE, new, new)} \cup
             (IF "commit" \in Faults
              THEN {Outcome(FALSE, disk, current), Outcome(FALSE, new, current)}
              ELSE {})

Evidence(c) == disk' = c.disk /\ current' = c.current

-----------------------------------------------------------------------------
(* Process start and loss.                                                 *)

\* Everything but the two files goes with the process.  A worker it leaves
\* behind sees its control pipe close and exits.
ForgetProcess ==
    /\ up' = "down"
    /\ own' = NoOwner
    /\ proc' = [w \in Workers |-> "gone"]
    /\ watched' = {} /\ crashes' = 0
    /\ flags' = [entry |-> FALSE, exit |-> FALSE]
    /\ run' = [g \in Gens |-> NoRun]
    /\ req' = [r \in Requests |-> NoRequest]
    /\ upg' = NoUpgrade /\ paused' = FALSE

\* The process dies, or is told to stop: the deferred cleanup reaps the worker.
ProcessLost ==
    /\ up # "down"
    /\ ForgetProcess
    /\ UNCHANGED <<mode, gen, disk, current, phase>>

\* What startup does with the receipt of an unfinished upgrade.  Past the
\* handoff this is the recovery that RuntimeUpgrade models.
startupReceipt(p) ==
    IF p \in {"prepared", "waiting"} THEN "deferred"
    ELSE IF terminal(p) THEN p ELSE "rolled_back"

\* The store is opened, and ConfigureRescue restores the mode from it.
ConfigureRescue ==
    /\ up = "down"
    /\ up' = "starting"
    /\ phase' = startupReceipt(phase)
    /\ mode' = disk.mode /\ gen' = disk.gen /\ current' = disk
    /\ UNCHANGED <<disk, flags, run, workerVars, req, upg, paused>>

\* A normal start serves even if the worker does not boot.  A draining mode is
\* reconciled first, with no worker and no request of its own to wait for, and
\* a failure there ends the process before it serves.
MutantStartupNeedsWorker ==
    /\ up = "starting"
    /\ IF mode = "normal"
       THEN \E b \in bootLocked(own, proc) :
              /\ up' = "serving" /\ own' = b.own /\ proc' = b.proc /\ watched' = b.watch
       ELSE up' = "down" /\ UNCHANGED <<own, proc, watched>>
    /\ UNCHANGED <<modeVars, crashes, req, upgradeVars>>

Startup ==
    /\ up = "starting"
    /\ \/ /\ mode = "normal"
          /\ up' = "serving"
          /\ \E b \in bootLocked(own, proc) :
               own' = b.own /\ proc' = b.proc /\ watched' = b.watch
          /\ UNCHANGED <<mode, disk, current>>
       \/ /\ mode = "rescue"
          /\ up' = "serving"
          /\ UNCHANGED <<mode, disk, current, own, proc, watched>>
       \/ /\ mode = "rescue_draining"
          /\ \E c \in Commit(gen, "rescue") :
               /\ Evidence(c)
               /\ mode' = IF c.ok THEN "rescue" ELSE mode
               /\ up' = IF c.ok THEN "serving" ELSE "down"
          /\ UNCHANGED <<own, proc, watched>>
       \/ /\ mode = "rescue_exit_draining"
          /\ \E b \in bootLocked(own, proc) :
               \/ /\ ~b.ok
                  /\ up' = "down"
                  /\ UNCHANGED <<mode, disk, current, own, proc, watched>>
               \/ /\ b.ok
                  /\ \E c \in Commit(gen, "normal") :
                       /\ Evidence(c)
                       /\ IF c.ok
                          THEN /\ up' = "serving" /\ mode' = "normal"
                               /\ own' = b.own /\ proc' = b.proc /\ watched' = b.watch
                          ELSE up' = "down" /\ UNCHANGED <<mode, own, proc, watched>>
    /\ UNCHANGED <<gen, flags, run, crashes, req, upg, phase, paused>>

-----------------------------------------------------------------------------
(* Client requests.                                                        *)

\* A connection is accepted and its request counted by the upgrade gate.
Accept(r) ==
    /\ up = "serving" /\ ~paused
    /\ req[r].at = "none"
    /\ req' = [req EXCEPT ![r] = [at |-> "entered", counted |-> TRUE]]
    /\ UNCHANGED <<up, modeVars, workerVars, upgradeVars>>

\* The mode is read under the mutex, which is then given up for a normal
\* request while its caller is authenticated and its body is read.
Route(r) ==
    /\ req[r].at = "entered"
    /\ req' = [req EXCEPT ![r].at =
                 IF mode \in {"rescue", "rescue_draining"} THEN "rescue" ELSE "routed"]
    /\ UNCHANGED <<up, modeVars, workerVars, upgradeVars>>

\* The second section only looks at the worker and at admissionReady.
Admit(r) ==
    /\ req[r].at = "routed"
    /\ own.ready /\ own.worker # None
    /\ req' = [req EXCEPT ![r].at = "normal"]
    /\ UNCHANGED <<up, modeVars, workerVars, upgradeVars>>

\* A routed request ends unserved: not ready, or its caller was refused.
Refuse(r) ==
    /\ req[r].at = "routed"
    /\ req' = [req EXCEPT ![r] = NoRequest]
    /\ UNCHANGED <<up, modeVars, workerVars, upgradeVars>>

\* A hijacked connection leaves the upgrade gate before its request ends.
Hijack(r) ==
    /\ req[r].at \in {"normal", "rescue"} /\ req[r].counted
    /\ req' = [req EXCEPT ![r].counted = FALSE]
    /\ UNCHANGED <<up, modeVars, workerVars, upgradeVars>>

\* releaseNormalAdmission and releaseRescueAdmission: the last rescue request
\* closes the channel that goroutines leaving rescue captured.
MutantFinishSilent(r) ==
    /\ req[r].at \in {"normal", "rescue"}
    /\ req' = [req EXCEPT ![r] = NoRequest]
    /\ UNCHANGED <<up, modeVars, workerVars, upgradeVars>>

Finish(r) ==
    /\ req[r].at \in {"normal", "rescue"}
    /\ req' = [req EXCEPT ![r] = NoRequest]
    /\ run' = IF req[r].at = "rescue" /\ \A q \in Requests \ {r} : req[q].at # "rescue"
              THEN [g \in Gens |-> [run[g] EXCEPT !.zero = TRUE]] ELSE run
    /\ UNCHANGED <<up, mode, gen, disk, current, flags, workerVars, upgradeVars>>

-----------------------------------------------------------------------------
(* Entering and leaving rescue.                                            *)

\* startRescueEntryLocked and startRescueExitLocked, the second with the
\* channel that closes when no rescue request is left.
EntryStarted(g) == run' = [run EXCEPT ![g] = [NoRun EXCEPT !.at = "start"]]
ExitStarted(g) ==
    run' = [run EXCEPT ![g] =
              [at |-> "wait", worker |-> None,
               zero |-> \A r \in Requests : req[r].at # "rescue"]]

EnterRescue ==
    /\ up = "serving" /\ ~busy
    /\ \/ /\ mode \in {"normal", "rescue_exit_draining"} /\ gen < MaxGen
          /\ \E c \in Commit(gen + 1, "rescue_draining") :
               /\ Evidence(c)
               /\ IF c.ok
                  THEN /\ mode' = "rescue_draining" /\ gen' = gen + 1
                       /\ own' = [own EXCEPT !.ready = FALSE]
                       /\ flags' = [entry |-> TRUE,
                                    exit |-> flags.exit /\ mode = "normal"]
                       /\ EntryStarted(gen + 1)
                  ELSE UNCHANGED <<mode, gen, own, flags, run>>
       \/ /\ mode = "rescue_draining" /\ ~flags.entry
          /\ flags' = [flags EXCEPT !.entry = TRUE]
          /\ EntryStarted(gen)
          /\ UNCHANGED <<mode, gen, disk, current, own>>
    /\ UNCHANGED <<up, proc, watched, crashes, req, upgradeVars>>

\* completeRescueEntry: its first section captures the worker to reap.
EntryBegins(g) ==
    /\ run[g].at = "start"
    /\ run' = IF mode = "rescue_draining" /\ gen = g
              THEN [run EXCEPT ![g].at = "drain", ![g].worker = own.worker]
              ELSE [run EXCEPT ![g].at = "end"]
    /\ UNCHANGED <<up, mode, gen, disk, current, flags, workerVars, req, upgradeVars>>

\* The drain ends, quiet or at its limit of five seconds, and the captured
\* worker is reaped outside the mutex.
MutantEntryLeavesWorker(g) ==
    /\ run[g].at = "drain"
    /\ run' = [run EXCEPT ![g].at = "reaped"]
    /\ UNCHANGED <<up, mode, gen, disk, current, flags, workerVars, req, upgradeVars>>

EntryReaps(g) ==
    /\ run[g].at = "drain"
    /\ run' = [run EXCEPT ![g].at = "reaped"]
    /\ proc' = IF run[g].worker = None THEN proc ELSE StopAndReap(proc, run[g].worker)
    /\ UNCHANGED <<up, mode, gen, disk, current, flags, own, watched, crashes, req,
                   upgradeVars>>

\* Its last section.  The worker is given up even if the receipt then fails.
EntryCompletes(g) ==
    /\ run[g].at = "reaped"
    /\ run' = [run EXCEPT ![g].at = "end", ![g].worker = None]
    /\ IF mode = "rescue_draining" /\ gen = g /\ own.worker = run[g].worker
       THEN /\ own' = IF own.worker = None THEN own
                      ELSE [own EXCEPT !.worker = None, !.pending = TRUE, !.released = TRUE]
            /\ \E c \in Commit(g, "rescue") :
                 /\ Evidence(c)
                 /\ mode' = IF c.ok THEN "rescue" ELSE mode
       ELSE UNCHANGED <<mode, disk, current, own>>
    /\ UNCHANGED <<up, gen, flags, proc, watched, crashes, req, upgradeVars>>

\* The worker is booted before the intent is committed: if the commit fails,
\* rescue goes on with a worker that is ready.
ExitRescue ==
    /\ up = "serving" /\ ~busy
    /\ \/ /\ mode = "rescue" /\ gen < MaxGen
          /\ own.worker = None \/ own.ready
          /\ \E b \in IF own.worker = None THEN bootLocked(own, proc)
                      ELSE {[own |-> own, proc |-> proc, watch |-> {}, ok |-> TRUE]} :
               /\ proc' = b.proc /\ watched' = watched \cup b.watch
               /\ own' = IF b.ok /\ own.worker = None
                         THEN [b.own EXCEPT !.recovering = FALSE, !.pending = FALSE]
                         ELSE b.own
               /\ IF ~b.ok THEN UNCHANGED modeVars
                  ELSE \E c \in Commit(gen + 1, "rescue_exit_draining") :
                         /\ Evidence(c)
                         /\ IF c.ok
                            THEN /\ mode' = "rescue_exit_draining" /\ gen' = gen + 1
                                 /\ flags' = [flags EXCEPT !.exit = TRUE]
                                 /\ ExitStarted(gen + 1)
                            ELSE UNCHANGED <<mode, gen, flags, run>>
       \/ /\ mode = "rescue_exit_draining" /\ ~flags.exit
          /\ flags' = [flags EXCEPT !.exit = TRUE]
          /\ ExitStarted(gen)
          /\ UNCHANGED <<mode, gen, disk, current, own, proc, watched>>
    /\ UNCHANGED <<up, crashes, req, upgradeVars>>

\* completeRescueExit, once the captured channel is closed.
MutantExitAnyGeneration(g) ==
    /\ run[g].at = "wait" /\ run[g].zero
    /\ run' = [run EXCEPT ![g].at = "end"]
    /\ IF mode = "rescue_exit_draining"
       THEN \E c \in Commit(gen, "normal") :
              /\ Evidence(c) /\ mode' = IF c.ok THEN "normal" ELSE mode
       ELSE UNCHANGED <<mode, disk, current>>
    /\ UNCHANGED <<up, gen, flags, workerVars, req, upgradeVars>>

ExitCompletes(g) ==
    /\ run[g].at = "wait" /\ run[g].zero
    /\ run' = [run EXCEPT ![g].at = "end"]
    /\ IF mode = "rescue_exit_draining" /\ gen = g
       THEN \E b \in IF own.worker = None THEN bootLocked(own, proc)
                     ELSE {[own |-> own, proc |-> proc, watch |-> {}, ok |-> TRUE]} :
              /\ proc' = b.proc /\ watched' = watched \cup b.watch
              /\ own' = IF b.ok /\ own.worker = None
                        THEN [b.own EXCEPT !.recovering = FALSE, !.pending = FALSE]
                        ELSE b.own
              /\ IF ~b.ok THEN UNCHANGED <<mode, disk, current>>
                 ELSE \E c \in Commit(g, "normal") :
                        /\ Evidence(c)
                        /\ mode' = IF c.ok THEN "normal" ELSE mode
       ELSE UNCHANGED <<mode, disk, current, own, proc, watched>>
    /\ UNCHANGED <<up, gen, flags, crashes, req, upgradeVars>>

\* The last section of either goroutine: only the goroutine of the current
\* generation says that it is over.  While gen = g, the mode tells which of the
\* two the goroutine of g is: an entry in both rescue modes, else an exit.
MutantRunEndsSilently(g) ==
    /\ run[g].at = "end"
    /\ run' = [run EXCEPT ![g] = NoRun]
    /\ UNCHANGED <<up, mode, gen, disk, current, flags, workerVars, req, upgradeVars>>

RunEnds(g) ==
    /\ run[g].at = "end"
    /\ run' = [run EXCEPT ![g] = NoRun]
    /\ flags' = IF gen # g THEN flags
                ELSE IF mode \in {"rescue_draining", "rescue"}
                     THEN [flags EXCEPT !.entry = FALSE]
                     ELSE [flags EXCEPT !.exit = FALSE]
    /\ UNCHANGED <<up, mode, gen, disk, current, workerVars, req, upgradeVars>>

-----------------------------------------------------------------------------
(* The worker's monitor.                                                   *)

\* A worker process exits on its own.
WorkerExits(w) ==
    /\ proc[w] = "alive"
    /\ proc' = [proc EXCEPT ![w] = "dead"]
    /\ UNCHANGED <<up, modeVars, own, watched, crashes, req, upgradeVars>>

\* Crash starts leave the window of ten minutes.
CrashWindowPasses ==
    /\ crashes > 0
    /\ crashes' = crashes - 1
    /\ UNCHANGED <<up, modeVars, own, proc, watched, req, upgradeVars>>

\* replaceFailedWorker, called once by the monitor when its worker exited; the
\* monitor calls again only if an upgrade was under way.  For a worker that is
\* not the supervisor's any more it never will be again, so it makes no
\* difference whether the monitor waits for the upgrade before it ends.
MutantReplaceUnlimited(w) ==
    /\ w \in watched /\ proc[w] # "alive" /\ ~busy
    /\ own.worker = w /\ own.ready
    /\ crashes' = crashes + 1
    /\ \E b \in bootLocked([own EXCEPT !.ready = FALSE], StopAndReap(proc, w)) :
         /\ own' = b.own /\ proc' = b.proc
         /\ watched' = (watched \ {w}) \cup b.watch
    /\ UNCHANGED <<up, modeVars, req, upgradeVars>>

replaceFailedWorker(w) ==
    /\ w \in watched /\ proc[w] # "alive"
    /\ ~busy \/ own.worker # w
    /\ IF own.worker # w \/ ~own.ready \/ mode \notin {"normal", "rescue_exit_draining"}
       THEN /\ watched' = watched \ {w}
            /\ UNCHANGED <<own, proc, crashes, paused>>
       ELSE \E proven \in ReapResults :
              LET reaped == [own EXCEPT !.worker = None, !.ready = FALSE,
                                        !.pending = TRUE, !.released = TRUE]
              IN  IF ~proven
                  THEN /\ own' = [own EXCEPT !.ready = FALSE]
                       /\ proc' = StopAndReap(proc, w)
                       /\ watched' = watched \ {w}
                       /\ UNCHANGED <<crashes, paused>>
                  ELSE IF crashes >= CrashLimit
                  THEN /\ own' = reaped
                       /\ proc' = StopAndReap(proc, w)
                       /\ watched' = watched \ {w}
                       /\ UNCHANGED <<crashes, paused>>
                  ELSE \E b \in bootLocked(reaped, StopAndReap(proc, w)) :
                         /\ crashes' = crashes + 1
                         /\ own' = [b.own EXCEPT !.recovering = ~b.ok,
                                                 !.pending = @ /\ ~b.ok]
                         /\ proc' = b.proc
                         /\ watched' = (watched \ {w}) \cup b.watch
                         /\ paused' = (paused /\ ~b.ok)
    /\ UNCHANGED <<up, modeVars, req, upg, phase>>

-----------------------------------------------------------------------------
(* The upgrade controller.                                                 *)

\* Save of the receipt: what may be on disk afterwards, and whether the caller
\* is told that it succeeded.
Save(new) ==
    {[ok |-> TRUE, phase |-> new]} \cup
    (IF "save" \in Faults
     THEN {[ok |-> FALSE, phase |-> phase], [ok |-> FALSE, phase |-> new]} ELSE {})

Step(at) == upg' = [upg EXCEPT !.at = at]
Over == upg' = NoUpgrade

\* Begin, for a new transaction.
Begin ==
    /\ Upgrades /\ up = "serving" /\ ~busy
    /\ terminal(phase)
    /\ own.ready /\ mode = "normal"
    /\ \E s \in Save("prepared") :
         /\ phase' = s.phase
         /\ upg' = IF s.ok THEN [at |-> "begun", selected |-> own.worker] ELSE upg
    /\ UNCHANGED <<up, modeVars, workerVars, req, paused>>

SaveWaiting ==
    /\ upg.at = "begun"
    /\ \E s \in Save("waiting") :
         phase' = s.phase /\ IF s.ok THEN Step("waiting") ELSE Over
    /\ UNCHANGED <<up, modeVars, workerVars, req, paused>>

\* resume: the worker answers ResumeUpgrade, and ingress is opened again.
Resumes == (IF proc[upg.selected] = "alive" THEN {TRUE} ELSE {FALSE})
           \cup (IF "resume" \in Faults THEN {FALSE} ELSE {})

deferUpgrade ==
    /\ \E resumed \in Resumes :
         /\ paused' = (paused /\ ~resumed)
         /\ \E s \in Save(IF resumed THEN "deferred" ELSE "failed") : phase' = s.phase
    /\ Over
    /\ UNCHANGED <<up, modeVars, workerVars, req>>

\* Pausing the listener, then preparing the worker; either may fail, at its
\* deadline or because the worker is gone.
PauseIngress ==
    /\ upg.at = "waiting"
    /\ \/ paused' = TRUE /\ Step("paused") /\ UNCHANGED <<up, modeVars, workerVars, req, phase>>
       \/ deferUpgrade

PrepareUpgrade ==
    /\ upg.at = "paused"
    /\ \/ /\ proc[upg.selected] = "alive" /\ Step("prepared")
          /\ UNCHANGED <<up, modeVars, workerVars, req, phase, paused>>
       \/ deferUpgrade

\* The requests counted by the gate end, then the worker reports quiet.
AwaitRequests ==
    /\ upg.at = "prepared"
    /\ \/ /\ \A r \in Requests : ~req[r].counted
          /\ proc[upg.selected] = "alive" /\ Step("quiet")
          /\ UNCHANGED <<up, modeVars, workerVars, req, phase, paused>>
       \/ deferUpgrade

\* The last wait is for every normal admission, hijacked ones included.
MutantAwaitAdmissionsIgnored ==
    /\ upg.at = "quiet"
    /\ \/ /\ Step("drained")
          /\ UNCHANGED <<up, modeVars, workerVars, req, phase, paused>>
       \/ deferUpgrade

AwaitAdmissions ==
    /\ upg.at = "quiet"
    /\ \/ /\ \A r \in Requests : req[r].at # "normal"
          /\ own.worker = upg.selected /\ Step("drained")
          /\ UNCHANGED <<up, modeVars, workerVars, req, phase, paused>>
       \/ deferUpgrade

SaveHandoff ==
    /\ upg.at = "drained"
    /\ \E s \in Save("handoff") :
         /\ phase' = s.phase
         /\ IF s.ok THEN Step("handoff") /\ paused' = paused
            ELSE \E resumed \in Resumes : Over /\ paused' = (paused /\ ~resumed)
    /\ UNCHANGED <<up, modeVars, workerVars, req>>

ReapSelected ==
    /\ upg.at = "handoff"
    /\ proc' = StopAndReap(proc, upg.selected)
    /\ \E proven \in ReapResults :
         IF proven
         THEN /\ Step("released")
              /\ own' = [own EXCEPT !.worker = None, !.ready = FALSE, !.pending = FALSE,
                                    !.released = TRUE]
              /\ phase' = phase
         ELSE /\ Over
              /\ phase' \in {"failed"} \cup
                            (IF "save" \in Faults THEN {phase, "rolling_back"} ELSE {})
              /\ UNCHANGED own
    /\ UNCHANGED <<up, modeVars, watched, crashes, req, paused>>

\* The handoff replaces the process image, and the successor ends the
\* transaction as RuntimeUpgrade models; or it fails and is rolled back.
Handoff ==
    /\ upg.at = "released"
    /\ \/ /\ ForgetProcess
          /\ phase' \in {"committed", "rolled_back"}
          /\ UNCHANGED <<mode, gen, disk, current>>
       \/ /\ \E s \in Save("rolling_back") :
               phase' = s.phase /\ IF s.ok THEN Step("rollback") ELSE Over
          /\ UNCHANGED <<up, modeVars, workerVars, req, paused>>

Rollback ==
    /\ upg.at = "rollback"
    /\ Over
    /\ \E b \in bootLocked(own, proc) :
         /\ own' = b.own /\ proc' = b.proc /\ watched' = watched \cup b.watch
         /\ paused' = (paused /\ ~b.ok)
         /\ \E s \in Save(IF b.ok THEN "rolled_back" ELSE "failed") : phase' = s.phase
    /\ UNCHANGED <<up, modeVars, crashes, req>>

-----------------------------------------------------------------------------
RunStep(g) ==
    EntryBegins(g) \/ EntryReaps(g) \/ EntryCompletes(g) \/ ExitCompletes(g) \/ RunEnds(g)
UpgradeStep ==
    \/ SaveWaiting \/ PauseIngress \/ PrepareUpgrade \/ AwaitRequests
    \/ AwaitAdmissions \/ SaveHandoff \/ ReapSelected \/ Handoff \/ Rollback

Next ==
    \/ ConfigureRescue \/ Startup \/ ProcessLost
    \/ \E r \in Requests :
         Accept(r) \/ Route(r) \/ Admit(r) \/ Refuse(r) \/ Hijack(r) \/ Finish(r)
    \/ EnterRescue \/ ExitRescue
    \/ \E g \in Gens : RunStep(g)
    \/ \E w \in Workers : WorkerExits(w) \/ replaceFailedWorker(w)
    \/ CrashWindowPasses
    \/ Begin \/ UpgradeStep

Spec == Init /\ [][Next]_vars

\* launchd restarts the process, which is not killed in the middle of every
\* start; goroutines run on, and requests end.  The fairness asks nothing of
\* operators, of workers, or of what a boot returns.
Fairness ==
    /\ WF_vars(ConfigureRescue) /\ SF_vars(Startup)
    /\ \A g \in Gens : WF_vars(RunStep(g))
    /\ \A w \in Workers : WF_vars(replaceFailedWorker(w))
    /\ \A r \in Requests : WF_vars(Route(r) \/ Admit(r) \/ Refuse(r) \/ Finish(r))
    /\ WF_vars(UpgradeStep)
LiveSpec == Spec /\ Fairness

-----------------------------------------------------------------------------
(* Properties.                                                             *)

\* At most one worker process of the supervisor is alive, whatever failed
\* boots, crash replacements, rescue transitions and rollbacks interleave.
\* (bootLocked, releaseFailedBoot, completeRescueEntry, run)
OneOwner == \A v, w \in Workers : proc[v] = "alive" /\ proc[w] = "alive" => v = w

\* A run flag that stops a retry stands for a goroutine of this generation
\* that is still going to act, so a request to enter or to leave rescue is
\* never swallowed by a goroutine that is gone or stale.
\* (EnterRescue, ExitRescue, startRescueEntryLocked, startRescueExitLocked)
RetryNotSwallowed ==
    /\ up = "serving" /\ mode = "rescue_draining" /\ flags.entry => run[gen].at # "none"
    /\ up = "serving" /\ mode = "rescue_exit_draining" /\ flags.exit => run[gen].at # "none"

\* Normal mode means that every rescue request ended: none is cut off from the
\* drain by an exit that was cancelled and started over.
\* (releaseRescueAdmission, completeRescueExit)
RescueDrained == mode = "normal" => \A r \in Requests : req[r].at # "rescue"

\* A worker that is gone while the supervisor still admits requests to it has
\* a monitor that will replace it. (monitorWorkerLocked, replaceFailedWorker)
GoneWorkerIsWatched ==
    up = "serving" /\ mode = "normal" /\ own.ready /\ proc[own.worker] # "alive"
        => own.worker \in watched

\* Without a worker the supervisor holds the release of its last one, so the
\* next checkpoint cites it. (replaceFailedWorker, releaseFailedBoot, rollback)
ReleaseKept == own.worker = None /\ own.released => own.pending

\* After a failed boot whose worker was released the next boot can succeed: the
\* digest the supervisor builds on is the one the store selected last.
\* (bootLocked, RuntimeHashCheckpointStore.Select)
ChainIntact == own.chain

\* A recorded transaction that is not over has a goroutine that works on it.
\* (Begin, run, save)
TransactionHasRunner == up = "serving" /\ ~terminal(phase) => busy

\* The worker an upgrade stops serves nobody, and no request is on its way to
\* it. (run: the waits before the handoff)
HandoffIsQuiet ==
    [][ReapSelected => \A r \in Requests : req[r].at \notin {"entered", "routed", "normal"}]_vars

\* Every drain into and out of rescue ends, through retries, cancelled exits,
\* crashes of the worker and restarts. (completeRescueEntry, completeRescueExit)
DrainsEnd == \A m \in Intents : mode = m ~> mode # m

\* Paused ingress is opened again. (resume, replaceFailedWorker, rollback)
IngressReopens == paused ~> ~paused

\* The process keeps coming back to serve its listener, rescue control included.
\* (RunAdoptedRuntimeSupervisorConfigured, ReconcileRescue)
KeepsServing == []<>(up = "serving")

=============================================================================
