----------------------- MODULE RuntimeSupervisorProofs -----------------------
(***************************************************************************)
(* Proofs about RuntimeSupervisor for every set of workers and requests,   *)
(* every bound and every set of faults.  That one worker is alive needs    *)
(* that a live worker is always the supervisor's own, so that whoever      *)
(* boots the next one has reaped it; that rescue is drained needs what the *)
(* closed channel of the exit in progress says of the requests; that a     *)
(* handoff is quiet needs the gates the upgrade closed on its way there.   *)
(***************************************************************************)
EXTENDS RuntimeSupervisor, TLAPS

\* The types of TypeOK, by name.
Evidences == [gen : Gens, mode : Modes]
Owners == [worker : Optional, ready : BOOLEAN, recovering : BOOLEAN,
           pending : BOOLEAN, released : BOOLEAN, chain : BOOLEAN]
Procs == [Workers -> {"gone", "alive", "dead"}]
Runs == [at : {"none", "start", "drain", "reaped", "wait", "end"},
         worker : Optional, zero : BOOLEAN]
Asked == [at : {"none", "entered", "routed", "normal", "rescue"}, counted : BOOLEAN]
Transactions ==
    [at : {"idle", "begun", "waiting", "paused", "prepared", "quiet",
           "drained", "handoff", "released", "rollback"},
     selected : Optional]

\* A process that does not serve has no worker, no request, and no goroutine.
QuietUnlessServing ==
    up # "serving" =>
      /\ own.worker = None /\ upg.at = "idle"
      /\ \A g \in Gens : run[g].at = "none"
      /\ \A r \in Requests : req[r].at = "none"

\* A live worker is the supervisor's; the one a rescue entry reaped is gone.
AliveIsOwned == \A w \in Workers : proc[w] = "alive" => own.worker = w
ReapedIsGone ==
    \A g \in Gens : \A w \in Workers :
      run[g].at = "reaped" /\ run[g].worker = w => proc[w] = "gone"

\* An upgrade works on the supervisor's worker, in normal mode, behind a
\* listener that it paused.
UpgradeOwns ==
    /\ upg.at # "idle" => mode = "normal"
    /\ upg.at \in {"drained", "handoff"} => own.worker = upg.selected
    /\ upg.at \in {"released", "rollback"} => own.worker = None
UpgradeWaits ==
    /\ upg.at \in {"paused", "prepared", "quiet", "drained", "handoff"} => paused
    /\ \A r \in Requests : req[r].at \in {"entered", "routed"} => req[r].counted
    /\ upg.at \in {"quiet", "drained", "handoff"} => \A r \in Requests : ~req[r].counted
    /\ upg.at \in {"drained", "handoff"} => \A r \in Requests : req[r].at # "normal"

\* A closed channel of the exit in progress: no rescue request is left.
ZeroIsZero ==
    mode = "rescue_exit_draining" /\ run[gen].at = "wait" /\ run[gen].zero =>
      \A r \in Requests : req[r].at # "rescue"

IndInv ==
    /\ TypeOK /\ QuietUnlessServing
    /\ AliveIsOwned /\ ReapedIsGone /\ UpgradeOwns /\ UpgradeWaits
    /\ RetryNotSwallowed /\ RescueDrained /\ ZeroIsZero

Typed ==
    /\ up \in {"down", "starting", "serving"}
    /\ mode \in Modes /\ gen \in Gens /\ disk \in Evidences /\ current \in Evidences
    /\ own \in Owners /\ proc \in Procs /\ watched \subseteq Workers
    /\ crashes \in 0..CrashLimit /\ flags \in [entry : BOOLEAN, exit : BOOLEAN]
    /\ run \in [Gens -> Runs] /\ req \in [Requests -> Asked] /\ upg \in Transactions
    /\ phase \in Phases /\ paused \in BOOLEAN

-----------------------------------------------------------------------------
(* The operators that handlers share.                                      *)

\* TypeOK in the names of this module.
LEMMA Types == TypeOK <=> Typed
BY DEF TypeOK, Typed, Evidences, Owners, Procs, Runs, Asked, Transactions

\* The same of the state after a step.
LEMMA TypesNext ==
    ASSUME Typed'
    PROVE  TypeOK'
BY DEF TypeOK, Typed, Evidences, Owners, Procs, Runs, Asked, Transactions

\* An identity for a new worker, when there is one.
LEMMA FreshChosen ==
    ASSUME Fresh # {}
    PROVE  (CHOOSE v \in Fresh : TRUE) \in Fresh
OBVIOUS

\* What bootLocked returns for the identity w: no process; a process released
\* again, whose release is proven or which the supervisor keeps for recovery;
\* or the booted worker.
Freed(o, intact) == [o EXCEPT !.pending = TRUE, !.released = TRUE, !.chain = intact]
Kept(o, w, intact) ==
    [o EXCEPT !.worker = w, !.ready = FALSE, !.recovering = TRUE, !.pending = FALSE,
              !.released = TRUE, !.chain = intact]
BootOutcome(o, p, w, b) ==
    \/ b.own = o /\ b.proc = p /\ b.watch = {} /\ b.ok = FALSE
    \/ /\ b.proc = p /\ b.watch = {} /\ b.ok = FALSE
       /\ \E intact \in BOOLEAN : b.own = Freed(o, intact) \/ b.own = Kept(o, w, intact)
    \/ /\ b.own = [o EXCEPT !.worker = w, !.ready = TRUE]
       /\ b.proc = [p EXCEPT ![w] = "alive"] /\ b.watch = {w} /\ b.ok = TRUE

\* bootLocked returns nothing else.
LEMMA BootCases ==
    ASSUME NEW o \in Owners, NEW p \in Procs, NEW b \in bootLocked(o, p)
    PROVE  \E w \in Fresh : BootOutcome(o, p, w, b)
<1> DEFINE w == CHOOSE v \in Fresh : TRUE
           Released(intact) ==
             {[own |-> IF proven THEN Freed(o, intact) ELSE Kept(o, w, intact),
               proc |-> p, watch |-> {}, ok |-> FALSE] : proven \in ReapResults}
<1>1. Fresh # {}
    BY DEF bootLocked
<1>2. w \in Fresh
    BY <1>1, FreshChosen
<1>3. o.chain \in BOOLEAN
    BY DEF Owners
<1>4. \/ b = [own |-> o, proc |-> p, watch |-> {}, ok |-> FALSE]
      \/ b \in Released(o.chain) \/ b \in Released(FALSE)
      \/ b = [own |-> [o EXCEPT !.worker = w, !.ready = TRUE],
              proc |-> [p EXCEPT ![w] = "alive"], watch |-> {w}, ok |-> TRUE]
    BY <1>1 DEF bootLocked, Freed, Kept
<1> HIDE DEF w
<1>5. ASSUME NEW intact \in BOOLEAN, b \in Released(intact)
      PROVE  BootOutcome(o, p, w, b)
    <2>1. PICK proven \in ReapResults :
            b = [own |-> IF proven THEN Freed(o, intact) ELSE Kept(o, w, intact),
                 proc |-> p, watch |-> {}, ok |-> FALSE]
        BY <1>5
    <2>2. /\ b.own = Freed(o, intact) \/ b.own = Kept(o, w, intact)
          /\ b.proc = p /\ b.watch = {} /\ b.ok = FALSE
        BY <2>1
    <2> QED
        BY <2>2 DEF BootOutcome
<1> HIDE DEF Released
<1>6. CASE b = [own |-> o, proc |-> p, watch |-> {}, ok |-> FALSE]
    BY <1>2, <1>6 DEF BootOutcome
<1>7. CASE b = [own |-> [o EXCEPT !.worker = w, !.ready = TRUE],
                proc |-> [p EXCEPT ![w] = "alive"], watch |-> {w}, ok |-> TRUE]
    <2>1. /\ b.own = [o EXCEPT !.worker = w, !.ready = TRUE]
          /\ b.proc = [p EXCEPT ![w] = "alive"] /\ b.watch = {w} /\ b.ok = TRUE
        BY <1>7
    <2> QED
        BY <1>2, <2>1, Zenon DEF BootOutcome
<1> QED
    BY <1>2, <1>3, <1>4, <1>5, <1>6, <1>7

\* Its result has the types, a worker that it leaves alive is the owner's, and
\* no other process is touched.
LEMMA BootOK ==
    ASSUME NEW o \in Owners, NEW p \in Procs, NEW b \in bootLocked(o, p)
    PROVE  /\ b.own \in Owners /\ b.proc \in Procs /\ b.watch \subseteq Workers
           /\ b.ok \in BOOLEAN
           /\ \A v \in Workers : b.proc[v] = "alive" => p[v] = "alive" \/ b.own.worker = v
           /\ \A v \in Workers : v \notin Fresh => b.proc[v] = p[v]
<1>1. PICK w \in Fresh : BootOutcome(o, p, w, b)
    BY BootCases
<1>2. w \in Workers /\ w \in Optional
    BY DEF Fresh, Optional
<1>3. CASE b.own = o /\ b.proc = p /\ b.watch = {} /\ b.ok = FALSE
    BY <1>3
<1>4. CASE /\ b.proc = p /\ b.watch = {} /\ b.ok = FALSE
           /\ \E intact \in BOOLEAN : b.own = Freed(o, intact) \/ b.own = Kept(o, w, intact)
    <2>1. PICK intact \in BOOLEAN : b.own = Freed(o, intact) \/ b.own = Kept(o, w, intact)
        BY <1>4
    <2>2. Freed(o, intact) \in Owners
        BY DEF Owners, Freed
    <2>3. Kept(o, w, intact) \in Owners
        BY <1>2 DEF Owners, Kept
    <2> QED
        BY <1>4, <2>1, <2>2, <2>3
<1>5. CASE /\ b.own = [o EXCEPT !.worker = w, !.ready = TRUE]
           /\ b.proc = [p EXCEPT ![w] = "alive"] /\ b.watch = {w} /\ b.ok = TRUE
    <2>1. b.own \in Owners /\ b.own.worker = w
        BY <1>2, <1>5 DEF Owners
    <2>2. b.proc \in Procs /\ b.proc[w] = "alive" /\ \A v \in Workers \ {w} : b.proc[v] = p[v]
        BY <1>2, <1>5 DEF Procs
    <2> QED
        BY <1>2, <1>5, <2>1, <2>2
<1> QED
    BY <1>1, <1>3, <1>4, <1>5 DEF BootOutcome

\* A commit of the mode evidence leaves evidence on disk and in memory.
LEMMA CommitOK ==
    ASSUME Typed, NEW g \in Gens, NEW m \in Modes, NEW c \in Commit(g, m)
    PROVE  c.ok \in BOOLEAN /\ c.disk \in Evidences /\ c.current \in Evidences
<1> DEFINE new == [gen |-> g, mode |-> m]
<1>1. new \in Evidences /\ disk \in Evidences /\ current \in Evidences
    BY DEF Typed, Evidences
<1>2. \E ok \in BOOLEAN, d \in {disk, new}, e \in {current, new} :
        c = [ok |-> ok, disk |-> d, current |-> e]
    BY DEF Commit
<1> HIDE DEF new
<1> QED
    BY <1>1, <1>2

\* A save of the receipt leaves a phase.
LEMMA SaveOK ==
    ASSUME Typed, NEW new \in Phases, NEW s \in Save(new)
    PROVE  s.ok \in BOOLEAN /\ s.phase \in Phases
<1>1. phase \in Phases
    BY DEF Typed
<1>2. \E ok \in BOOLEAN, f \in {phase, new} : s = [ok |-> ok, phase |-> f]
    BY DEF Save
<1> QED
    BY <1>1, <1>2

-----------------------------------------------------------------------------
(* The parts of the invariant that stand while the state they read stands. *)

\* What is said of workers.
LEMMA WorkersKept ==
    ASSUME IndInv, UNCHANGED <<own, proc, run>>
    PROVE  AliveIsOwned' /\ ReapedIsGone'
BY DEF IndInv, AliveIsOwned, ReapedIsGone

\* What is said of the mode and of the goroutines that change it.
LEMMA ModeKept ==
    ASSUME IndInv, UNCHANGED <<up, mode, gen, flags, run, req>>
    PROVE  RetryNotSwallowed' /\ RescueDrained' /\ ZeroIsZero'
BY DEF IndInv, RetryNotSwallowed, RescueDrained, ZeroIsZero

\* What is said of the upgrade.
LEMMA UpgradeKept ==
    ASSUME IndInv, UNCHANGED <<mode, own, upg, paused, req>>
    PROVE  UpgradeOwns' /\ UpgradeWaits'
BY DEF IndInv, UpgradeOwns, UpgradeWaits

\* What is said of a process that does not serve.
LEMMA QuietKept ==
    ASSUME IndInv, up' = up, up = "serving" \/ UNCHANGED <<own, upg, run, req>>
    PROVE  QuietUnlessServing'
BY DEF IndInv, QuietUnlessServing

-----------------------------------------------------------------------------
(* Requests.                                                               *)

\* A request that is at work shows that the process serves.
LEMMA RequestServed ==
    ASSUME IndInv, NEW r \in Requests, req[r].at # "none"
    PROVE  up = "serving"
BY DEF IndInv, QuietUnlessServing

\* A step of a request that leaves the mode and the goroutines alone.
LEMMA RequestInv ==
    ASSUME IndInv, NEW r \in Requests, NEW q \in Asked, req' = [req EXCEPT ![r] = q],
           up = "serving", UNCHANGED <<up, modeVars, workerVars, upgradeVars>>,
           q.at = "rescue" => req[r].at = "rescue" \/ mode \in {"rescue", "rescue_draining"},
           q.at \in {"entered", "routed"} => q.counted,
           q.counted => req[r].counted \/ ~paused,
           q.at = "normal" => req[r].at \in {"routed", "normal"}
    PROVE  IndInv'
<1>1. /\ req' \in [Requests -> Asked] /\ req'[r] = q
      /\ \A s \in Requests \ {r} : req'[s] = req[s]
    BY Types DEF IndInv, Typed
<1>2. TypeOK'
    BY <1>1, Types DEF IndInv, TypeOK, Asked, modeVars, workerVars, upgradeVars
<1>3. QuietUnlessServing' /\ AliveIsOwned' /\ ReapedIsGone'
    BY QuietKept, WorkersKept DEF modeVars, workerVars
<1>4. UpgradeOwns'
    BY DEF IndInv, UpgradeOwns, modeVars, workerVars, upgradeVars
<1>5. UpgradeWaits'
    <2>1. \A s \in Requests : req'[s].at \in {"entered", "routed"} => req'[s].counted
        BY <1>1 DEF IndInv, UpgradeWaits
    <2>2. upg.at \in {"quiet", "drained", "handoff"} => \A s \in Requests : ~req'[s].counted
        BY <1>1 DEF IndInv, UpgradeWaits
    <2>3. upg.at \in {"drained", "handoff"} => \A s \in Requests : req'[s].at # "normal"
        BY <1>1 DEF IndInv, UpgradeWaits
    <2> QED
        BY <2>1, <2>2, <2>3 DEF IndInv, UpgradeWaits, upgradeVars
<1>6. RetryNotSwallowed'
    BY DEF IndInv, RetryNotSwallowed, modeVars
<1>7. RescueDrained' /\ ZeroIsZero'
    BY <1>1 DEF IndInv, RescueDrained, ZeroIsZero, modeVars
<1> QED
    BY <1>2, <1>3, <1>4, <1>5, <1>6, <1>7 DEF IndInv

\* A request is counted while the listener is open.
LEMMA AcceptInv ==
    ASSUME IndInv, NEW r \in Requests, Accept(r)
    PROVE  IndInv'
BY RequestInv DEF Accept, Asked

\* Only a mode of rescue makes a request a rescue request.
LEMMA RouteInv ==
    ASSUME IndInv, NEW r \in Requests, Route(r)
    PROVE  IndInv'
<1> DEFINE l == IF mode \in {"rescue", "rescue_draining"} THEN "rescue" ELSE "routed"
           q == [req[r] EXCEPT !.at = l]
<1>1. req[r] \in Asked /\ req[r].at = "entered" /\ req' = [req EXCEPT ![r] = q]
    BY Types DEF Route, IndInv, Typed
<1>2. l \in {"rescue", "routed"} /\ (l = "rescue" => mode \in {"rescue", "rescue_draining"})
    OBVIOUS
<1> HIDE DEF l
<1>3. q \in Asked /\ q.at = l /\ q.counted = req[r].counted
    BY <1>1, <1>2 DEF Asked
<1>4. req[r].counted
    BY <1>1 DEF IndInv, UpgradeWaits
<1> HIDE DEF q
<1> QED
    BY <1>1, <1>2, <1>3, <1>4, RequestServed, RequestInv DEF Route

\* A routed request becomes a normal one.
LEMMA AdmitInv ==
    ASSUME IndInv, NEW r \in Requests, Admit(r)
    PROVE  IndInv'
<1> DEFINE q == [req[r] EXCEPT !.at = "normal"]
<1>1. req[r] \in Asked /\ req[r].at = "routed" /\ req' = [req EXCEPT ![r] = q]
    BY Types DEF Admit, IndInv, Typed
<1>2. q \in Asked /\ q.at = "normal" /\ q.counted = req[r].counted
    BY <1>1 DEF Asked
<1> HIDE DEF q
<1> QED
    BY <1>1, <1>2, RequestServed, RequestInv DEF Admit

\* A routed request ends.
LEMMA RefuseInv ==
    ASSUME IndInv, NEW r \in Requests, Refuse(r)
    PROVE  IndInv'
BY RequestServed, RequestInv DEF Refuse, NoRequest, Asked

\* A hijacked connection is not counted any more.
LEMMA HijackInv ==
    ASSUME IndInv, NEW r \in Requests, Hijack(r)
    PROVE  IndInv'
<1> DEFINE q == [req[r] EXCEPT !.counted = FALSE]
<1>1. /\ req[r] \in Asked /\ req[r].at \in {"normal", "rescue"}
      /\ req' = [req EXCEPT ![r] = q]
    BY Types DEF Hijack, IndInv, Typed
<1>2. q \in Asked /\ q.at = req[r].at /\ q.counted = FALSE
    BY <1>1 DEF Asked
<1> HIDE DEF q
<1> QED
    BY <1>1, <1>2, RequestServed, RequestInv DEF Hijack

\* The last rescue request closes every captured channel, and none is left.
LEMMA FinishInv ==
    ASSUME IndInv, NEW r \in Requests, Finish(r)
    PROVE  IndInv'
<1> DEFINE last == req[r].at = "rescue" /\ \A q \in Requests \ {r} : req[q].at # "rescue"
<1>0. up = "serving" /\ Typed
    BY RequestServed, Types DEF Finish, IndInv
<1>1. /\ req' \in [Requests -> Asked] /\ req'[r] = NoRequest
      /\ \A s \in Requests \ {r} : req'[s] = req[s]
    BY <1>0 DEF Typed, Finish, NoRequest, Asked
<1>2. ASSUME NEW g \in Gens
      PROVE  /\ run'[g] \in Runs /\ run'[g].at = run[g].at /\ run'[g].worker = run[g].worker
             /\ run'[g].zero => run[g].zero \/ last
    <2>1. run[g] \in Runs
        BY <1>0 DEF Typed
    <2>2. run'[g] = IF last THEN [run[g] EXCEPT !.zero = TRUE] ELSE run[g]
        BY DEF Finish
    <2> QED
        BY <2>1, <2>2 DEF Runs
<1>3. run' \in [Gens -> Runs]
    <2>1. run' = [g \in Gens |-> run'[g]]
        BY <1>0 DEF Finish, Typed
    <2> QED
        BY <1>2, <2>1
<1>4. Typed'
    BY <1>0, <1>1, <1>3 DEF Finish, Typed, workerVars, upgradeVars
<1>5. QuietUnlessServing'
    BY <1>0 DEF Finish, QuietUnlessServing
<1>6. AliveIsOwned' /\ ReapedIsGone' /\ UpgradeOwns'
    BY <1>2 DEF IndInv, AliveIsOwned, ReapedIsGone, UpgradeOwns, Finish, workerVars,
       upgradeVars
<1>7. UpgradeWaits'
    BY <1>1 DEF IndInv, UpgradeWaits, Finish, upgradeVars, NoRequest
<1>8. RetryNotSwallowed'
    BY <1>0, <1>2 DEF IndInv, RetryNotSwallowed, Finish, Typed
<1>9. RescueDrained'
    BY <1>1 DEF IndInv, RescueDrained, Finish, NoRequest
<1>10. ZeroIsZero'
    <2> SUFFICES ASSUME mode = "rescue_exit_draining", run[gen].at = "wait", run'[gen].zero,
                        NEW s \in Requests
                 PROVE  req'[s].at # "rescue"
        BY <1>0, <1>2 DEF ZeroIsZero, Finish, Typed
    <2>1. run[gen].zero \/ last
        BY <1>0, <1>2 DEF Typed
    <2> QED
        BY <1>1, <2>1 DEF IndInv, ZeroIsZero, NoRequest
<1> QED
    BY <1>4, <1>5, <1>6, <1>7, <1>8, <1>9, <1>10, TypesNext DEF IndInv

-----------------------------------------------------------------------------
(* Process start and loss.                                                 *)

\* With the process everything goes that the invariant speaks of.
LEMMA ForgetInv ==
    ASSUME IndInv, ForgetProcess, UNCHANGED <<mode, gen, disk, current>>, phase' \in Phases
    PROVE  IndInv'
<1>1. Typed
    BY Types DEF IndInv
<1>2. /\ NoOwner \in Owners /\ NoRun \in Runs /\ NoRequest \in Asked /\ NoUpgrade \in Transactions
      /\ NoOwner.worker = None /\ NoRun.at = "none" /\ NoRequest.at = "none"
      /\ NoUpgrade.at = "idle"
    BY DEF NoOwner, Owners, NoRun, Runs, NoRequest, Asked, NoUpgrade, Transactions, Optional
<1>3. /\ own' = NoOwner /\ upg' = NoUpgrade /\ paused' = FALSE /\ up' = "down"
      /\ \A g \in Gens : run'[g] = NoRun
      /\ \A r \in Requests : req'[r] = NoRequest
      /\ \A w \in Workers : proc'[w] = "gone"
    BY DEF ForgetProcess
<1>4. proc' \in Procs /\ run' \in [Gens -> Runs] /\ req' \in [Requests -> Asked]
    BY <1>2 DEF ForgetProcess, Procs
<1>5. Typed'
    <2>1. 0 \in 0..CrashLimit
        BY SupervisorAssumption
    <2> QED
        BY <1>1, <1>2, <1>3, <1>4, <2>1 DEF Typed, ForgetProcess
<1>6. QuietUnlessServing' /\ AliveIsOwned' /\ ReapedIsGone' /\ UpgradeOwns' /\ UpgradeWaits'
    BY <1>2, <1>3 DEF QuietUnlessServing, AliveIsOwned, ReapedIsGone, UpgradeOwns, UpgradeWaits
<1>7. RetryNotSwallowed' /\ RescueDrained' /\ ZeroIsZero'
    BY <1>2, <1>3 DEF RetryNotSwallowed, RescueDrained, ZeroIsZero
<1> QED
    BY <1>5, <1>6, <1>7, TypesNext DEF IndInv

\* The process is lost.
LEMMA ProcessLostInv ==
    ASSUME IndInv, ProcessLost
    PROVE  IndInv'
BY ForgetInv, Types DEF ProcessLost, IndInv, Typed

\* The mode on disk becomes the mode, with nothing under way.
LEMMA ConfigureRescueInv ==
    ASSUME IndInv, ConfigureRescue
    PROVE  IndInv'
<1>1. Typed /\ QuietUnlessServing /\ up = "down" /\ up' = "starting"
    BY Types DEF IndInv, ConfigureRescue
<1>2. mode' \in Modes /\ gen' \in Gens /\ current' \in Evidences
    BY <1>1 DEF ConfigureRescue, Typed, Evidences
<1>3. phase' \in Phases
    BY <1>1 DEF ConfigureRescue, Typed, startupReceipt, terminal, Phases
<1>4. Typed'
    BY <1>1, <1>2, <1>3 DEF ConfigureRescue, Typed, workerVars
<1>5. QuietUnlessServing'
    BY <1>1 DEF ConfigureRescue, QuietUnlessServing, workerVars
<1>6. AliveIsOwned' /\ ReapedIsGone'
    BY WorkersKept DEF ConfigureRescue, workerVars
<1>7. UpgradeOwns' /\ UpgradeWaits'
    BY <1>1 DEF ConfigureRescue, QuietUnlessServing, UpgradeOwns, UpgradeWaits
<1>8. RetryNotSwallowed' /\ RescueDrained' /\ ZeroIsZero'
    BY <1>1 DEF ConfigureRescue, QuietUnlessServing, RetryNotSwallowed, RescueDrained, ZeroIsZero
<1> QED
    BY <1>4, <1>5, <1>6, <1>7, <1>8, TypesNext DEF IndInv

\* Nothing is alive while the supervisor has no worker.
LEMMA NothingAlive ==
    ASSUME IndInv, own.worker = None
    PROVE  \A w \in Workers : proc[w] # "alive"
BY SupervisorAssumption DEF IndInv, AliveIsOwned

\* A boot for a supervisor without a worker leaves at most its own alive.
LEMMA BootAlive ==
    ASSUME IndInv, NEW o \in Owners, NEW p \in Procs, NEW b \in bootLocked(o, p),
           \A w \in Workers : p[w] # "alive",
           \A w \in Workers : proc[w] = "gone" => p[w] = "gone",
           proc' = b.proc, own'.worker = b.own.worker, UNCHANGED run
    PROVE  AliveIsOwned' /\ ReapedIsGone'
<1>1. AliveIsOwned'
    BY BootOK DEF AliveIsOwned
<1>2. ReapedIsGone'
    <2> SUFFICES ASSUME NEW g \in Gens, NEW w \in Workers, run[g].at = "reaped",
                        run[g].worker = w
                 PROVE  proc'[w] = "gone"
        BY DEF ReapedIsGone
    <2>1. w \notin Fresh /\ p[w] = "gone"
        BY DEF Fresh, IndInv, ReapedIsGone
    <2> QED
        BY <2>1, BootOK
<1> QED
    BY <1>1, <1>2

\* Startup boots, or completes a drain that has nothing to wait for.
LEMMA StartupInv ==
    ASSUME IndInv, Startup
    PROVE  IndInv'
<1>1. /\ Typed /\ QuietUnlessServing /\ up = "starting" /\ own.worker = None /\ upg.at = "idle"
      /\ \A g \in Gens : run[g].at = "none"
      /\ \A r \in Requests : req[r].at = "none"
    BY Types DEF IndInv, Startup, QuietUnlessServing
<1>2. own \in Owners /\ proc \in Procs /\ gen \in Gens /\ \A w \in Workers : proc[w] # "alive"
    BY <1>1, NothingAlive DEF Typed
<1>3. UNCHANGED <<gen, flags, run, crashes, req, upg, phase, paused>>
    BY DEF Startup
<1>4. /\ \/ UNCHANGED <<own, proc, watched>>
         \/ /\ up' = "serving"
            /\ \E b \in bootLocked(own, proc) : own' = b.own /\ proc' = b.proc /\ watched' = b.watch
      /\ \/ UNCHANGED <<disk, current>>
         \/ \E m \in Modes : \E c \in Commit(gen, m) : disk' = c.disk /\ current' = c.current
      /\ up' \in {"serving", "down"} /\ mode' \in Modes
      /\ up' = "serving" => mode' \in {"normal", "rescue"}
    BY <1>1 DEF Startup, Evidence, Typed, Modes
<1>5. own' \in Owners /\ proc' \in Procs /\ watched' \subseteq Workers
    BY <1>1, <1>2, <1>4, BootOK DEF Typed
<1>6. disk' \in Evidences /\ current' \in Evidences
    BY <1>1, <1>2, <1>4, CommitOK DEF Typed
<1>7. Typed'
    BY <1>1, <1>3, <1>4, <1>5, <1>6 DEF Typed
<1>8. QuietUnlessServing'
    BY <1>1, <1>3, <1>4 DEF QuietUnlessServing
<1>9. AliveIsOwned' /\ ReapedIsGone'
    <2>1. CASE UNCHANGED <<own, proc, watched>>
        BY <1>3, <2>1, WorkersKept
    <2>2. CASE \E b \in bootLocked(own, proc) : own' = b.own /\ proc' = b.proc /\ watched' = b.watch
        BY <1>2, <1>3, <2>2, BootAlive
    <2> QED
        BY <1>4, <2>1, <2>2
<1>10. UpgradeOwns' /\ UpgradeWaits'
    BY <1>1, <1>3 DEF UpgradeOwns, UpgradeWaits
<1>11. RetryNotSwallowed'
    BY <1>4 DEF RetryNotSwallowed
<1>12. RescueDrained' /\ ZeroIsZero'
    BY <1>1, <1>2, <1>3 DEF RescueDrained, ZeroIsZero
<1> QED
    BY <1>7, <1>8, <1>9, <1>10, <1>11, <1>12, TypesNext DEF IndInv

-----------------------------------------------------------------------------
(* Entering and leaving rescue.                                            *)

\* A goroutine of a generation takes the record it is given.
LEMMA RunSet ==
    ASSUME Typed, NEW g \in Gens, NEW q \in Runs, run' = [run EXCEPT ![g] = q]
    PROVE  /\ run' \in [Gens -> Runs] /\ run'[g] = q
           /\ \A h \in Gens \ {g} : run'[h] = run[h]
BY DEF Typed

\* The worker of a goroutine that has reaped one matters to ReapedIsGone only.
LEMMA RunWorkers ==
    ASSUME IndInv, NEW g \in Gens, NEW q \in Runs, run' = [run EXCEPT ![g] = q],
           q.at # "reaped", UNCHANGED <<own, proc>>
    PROVE  AliveIsOwned' /\ ReapedIsGone'
<1>1. Typed
    BY Types DEF IndInv
<1> QED
    BY <1>1, RunSet DEF IndInv, AliveIsOwned, ReapedIsGone

\* Rescue is entered: the goroutine of the generation is on its way.
LEMMA EnterRescueInv ==
    ASSUME IndInv, EnterRescue
    PROVE  IndInv'
<1> DEFINE q == [NoRun EXCEPT !.at = "start"]
<1>1. Typed /\ up = "serving" /\ upg.at = "idle" /\ gen \in Gens
    BY Types DEF IndInv, EnterRescue, busy, Typed
<1>2. UNCHANGED <<up, proc, watched, crashes, req, upg, phase, paused>>
    BY DEF EnterRescue, upgradeVars
<1>3. q \in Runs /\ q.at = "start"
    BY DEF NoRun, Runs, Optional
<1>4. CASE /\ UNCHANGED <<mode, gen, own, flags, run>>
           /\ gen + 1 \in Gens /\ \E c \in Commit(gen + 1, "rescue_draining") : Evidence(c)
    <2>1. disk' \in Evidences /\ current' \in Evidences
        BY <1>1, <1>4, CommitOK DEF Evidence, Modes
    <2>2. Typed'
        BY <1>1, <1>2, <1>4, <2>1 DEF Typed
    <2>3. QuietUnlessServing' /\ AliveIsOwned' /\ ReapedIsGone' /\ UpgradeOwns' /\ UpgradeWaits'
        BY <1>2, <1>4, QuietKept, WorkersKept, UpgradeKept
    <2>4. RetryNotSwallowed' /\ RescueDrained' /\ ZeroIsZero'
        BY <1>2, <1>4, ModeKept
    <2> QED
        BY <2>2, <2>3, <2>4, TypesNext DEF IndInv
<1>5. ASSUME NEW g \in Gens, run' = [run EXCEPT ![g] = q], gen' = g,
             mode' = "rescue_draining", disk' \in Evidences, current' \in Evidences,
             own' \in Owners, own'.worker = own.worker,
             flags' \in [entry : BOOLEAN, exit : BOOLEAN]
      PROVE  IndInv'
    <2>1. /\ run' \in [Gens -> Runs] /\ run'[g] = q
          /\ \A h \in Gens \ {g} : run'[h] = run[h]
        BY <1>1, <1>3, <1>5, RunSet
    <2>2. Typed'
        BY <1>1, <1>2, <1>5, <2>1 DEF Typed, Modes
    <2>3. QuietUnlessServing'
        BY <1>1, <1>2 DEF QuietUnlessServing
    <2>4. AliveIsOwned' /\ ReapedIsGone'
        BY <1>2, <1>3, <1>5, <2>1 DEF IndInv, AliveIsOwned, ReapedIsGone
    <2>5. UpgradeOwns' /\ UpgradeWaits'
        BY <1>1, <1>2 DEF IndInv, UpgradeOwns, UpgradeWaits
    <2>6. RetryNotSwallowed' /\ RescueDrained' /\ ZeroIsZero'
        BY <1>3, <1>5, <2>1 DEF RetryNotSwallowed, RescueDrained, ZeroIsZero
    <2> QED
        BY <2>2, <2>3, <2>4, <2>5, <2>6, TypesNext DEF IndInv
<1>6. CASE mode \in {"normal", "rescue_exit_draining"} /\ gen < MaxGen
    <2>1. gen + 1 \in Gens
        BY <1>1, <1>6, SupervisorAssumption DEF Gens
    <2>2. PICK c \in Commit(gen + 1, "rescue_draining") :
            /\ Evidence(c)
            /\ IF c.ok
               THEN /\ mode' = "rescue_draining" /\ gen' = gen + 1
                    /\ own' = [own EXCEPT !.ready = FALSE]
                    /\ flags' = [entry |-> TRUE, exit |-> flags.exit /\ mode = "normal"]
                    /\ EntryStarted(gen + 1)
               ELSE UNCHANGED <<mode, gen, own, flags, run>>
        BY <1>6 DEF EnterRescue
    <2>3. disk' \in Evidences /\ current' \in Evidences
        BY <1>1, <2>1, <2>2, CommitOK DEF Evidence, Modes
    <2>4. CASE c.ok
        <3>1. own' \in Owners /\ own'.worker = own.worker
            BY <1>1, <2>2, <2>4 DEF Typed, Owners
        <3>2. flags' \in [entry : BOOLEAN, exit : BOOLEAN]
            <4> DEFINE x == flags.exit /\ mode = "normal"
            <4>1. x \in BOOLEAN /\ flags' = [entry |-> TRUE, exit |-> x]
                BY <2>2, <2>4
            <4> HIDE DEF x
            <4> QED
                BY <4>1
        <3> QED
            BY <1>5, <2>1, <2>2, <2>3, <2>4, <3>1, <3>2 DEF EntryStarted
    <2>5. CASE ~c.ok
        BY <1>4, <2>1, <2>2, <2>5
    <2> QED
        BY <2>4, <2>5
<1>7. CASE mode = "rescue_draining" /\ ~flags.entry
    <2>1. /\ flags' = [flags EXCEPT !.entry = TRUE] /\ EntryStarted(gen)
          /\ UNCHANGED <<mode, gen, disk, current, own>>
        BY <1>7 DEF EnterRescue
    <2>2. flags' \in [entry : BOOLEAN, exit : BOOLEAN]
        BY <1>1, <2>1 DEF Typed
    <2> QED
        BY <1>1, <1>5, <1>7, <2>1, <2>2 DEF EntryStarted, Typed
<1> QED
    BY <1>6, <1>7 DEF EnterRescue

\* A goroutine that is at work shows that the process serves.
LEMMA RunServed ==
    ASSUME IndInv, NEW g \in Gens, run[g].at # "none"
    PROVE  up = "serving" /\ Typed /\ run[g] \in Runs /\ gen \in Gens
BY Types DEF IndInv, QuietUnlessServing, Typed

\* A step of the goroutine of g that changes its own record only.
LEMMA RunMovesInv ==
    ASSUME IndInv, NEW g \in Gens, NEW q \in Runs, run[g].at # "none",
           run' = [run EXCEPT ![g] = q], q.at \notin {"none", "reaped", "wait"},
           UNCHANGED <<up, mode, gen, disk, current, flags, workerVars, req, upgradeVars>>
    PROVE  IndInv'
<1>1. /\ up = "serving" /\ Typed /\ run' \in [Gens -> Runs] /\ run'[g] = q
      /\ \A h \in Gens \ {g} : run'[h] = run[h]
    BY RunServed, RunSet
<1>2. Typed'
    BY <1>1 DEF Typed, workerVars, upgradeVars
<1>3. QuietUnlessServing' /\ UpgradeOwns' /\ UpgradeWaits'
    BY <1>1, QuietKept, UpgradeKept DEF workerVars, upgradeVars
<1>4. AliveIsOwned' /\ ReapedIsGone'
    BY RunWorkers DEF workerVars
<1>5. RetryNotSwallowed' /\ RescueDrained' /\ ZeroIsZero'
    BY <1>1 DEF IndInv, RetryNotSwallowed, RescueDrained, ZeroIsZero
<1> QED
    BY <1>2, <1>3, <1>4, <1>5, TypesNext DEF IndInv

\* The entry captures the worker, or finds that it is not wanted any more.
LEMMA EntryBeginsInv ==
    ASSUME IndInv, NEW g \in Gens, EntryBegins(g)
    PROVE  IndInv'
<1> DEFINE q1 == [run[g] EXCEPT !.at = "drain", !.worker = own.worker]
           q2 == [run[g] EXCEPT !.at = "end"]
<1>1. run[g].at = "start" /\ Typed /\ run[g] \in Runs
    BY RunServed DEF EntryBegins
<1>2. q1 \in Runs /\ q1.at = "drain" /\ q2 \in Runs /\ q2.at = "end"
    BY <1>1 DEF Typed, Runs, Owners
<1>3. run' = [run EXCEPT ![g] = q1] \/ run' = [run EXCEPT ![g] = q2]
    BY <1>1 DEF EntryBegins, Typed
<1> HIDE DEF q1, q2
<1> QED
    BY <1>1, <1>2, <1>3, RunMovesInv DEF EntryBegins

\* StopAndReap leaves the process gone and every other as it was.
LEMMA ReapOK ==
    ASSUME NEW p \in Procs, NEW w
    PROVE  /\ StopAndReap(p, w) \in Procs
           /\ \A v \in Workers : StopAndReap(p, w)[v] = IF v = w THEN "gone" ELSE p[v]
BY DEF StopAndReap, Procs

\* The entry reaps the worker it captured.
LEMMA EntryReapsInv ==
    ASSUME IndInv, NEW g \in Gens, EntryReaps(g)
    PROVE  IndInv'
<1> DEFINE q == [run[g] EXCEPT !.at = "reaped"]
<1>1. run[g].at = "drain" /\ up = "serving" /\ Typed /\ run[g] \in Runs
    BY RunServed DEF EntryReaps
<1>2. q \in Runs /\ q.at = "reaped" /\ q.worker = run[g].worker
    BY <1>1 DEF Runs
<1>3. run' = [run EXCEPT ![g] = q]
    BY <1>1 DEF EntryReaps, Typed
<1> HIDE DEF q
<1>4. /\ run' \in [Gens -> Runs] /\ run'[g] = q
      /\ \A h \in Gens \ {g} : run'[h] = run[h]
    BY <1>1, <1>2, <1>3, RunSet
<1>5. /\ proc' \in Procs
      /\ \A v \in Workers : proc'[v] = IF v = run[g].worker THEN "gone" ELSE proc[v]
    BY <1>1, ReapOK, SupervisorAssumption DEF EntryReaps, Typed
<1>6. Typed'
    BY <1>1, <1>4, <1>5 DEF EntryReaps, Typed, upgradeVars
<1>7. QuietUnlessServing' /\ UpgradeOwns' /\ UpgradeWaits'
    BY <1>1, QuietKept, UpgradeKept DEF EntryReaps, upgradeVars
<1>8. AliveIsOwned'
    BY <1>5 DEF EntryReaps, IndInv, AliveIsOwned
<1>9. ReapedIsGone'
    <2> SUFFICES ASSUME NEW h \in Gens, NEW w \in Workers, run'[h].at = "reaped",
                        run'[h].worker = w
                 PROVE  proc'[w] = "gone"
        BY DEF ReapedIsGone
    <2>1. CASE h = g
        BY <1>2, <1>4, <1>5, <2>1
    <2>2. CASE h # g
        BY <1>4, <1>5, <2>2 DEF IndInv, ReapedIsGone
    <2> QED
        BY <2>1, <2>2
<1>10. RetryNotSwallowed' /\ RescueDrained' /\ ZeroIsZero'
    BY <1>1, <1>2, <1>4 DEF EntryReaps, IndInv, RetryNotSwallowed, RescueDrained, ZeroIsZero
<1> QED
    BY <1>6, <1>7, <1>8, <1>9, <1>10, TypesNext DEF IndInv

\* The entry gives up the worker it reaped, if that is still the supervisor's.
LEMMA EntryCompletesInv ==
    ASSUME IndInv, NEW g \in Gens, EntryCompletes(g)
    PROVE  IndInv'
<1> DEFINE q == [run[g] EXCEPT !.at = "end", !.worker = None]
           mine == mode = "rescue_draining" /\ gen = g /\ own.worker = run[g].worker
<1>1. run[g].at = "reaped" /\ up = "serving" /\ Typed /\ run[g] \in Runs
    BY RunServed DEF EntryCompletes
<1>2. q \in Runs /\ q.at = "end"
    BY <1>1 DEF Runs, Optional
<1>3. run' = [run EXCEPT ![g] = q]
    BY <1>1 DEF EntryCompletes, Typed
<1> HIDE DEF q
<1>4. UNCHANGED <<up, gen, flags, proc, watched, crashes, req, upg, phase, paused>>
    BY DEF EntryCompletes, upgradeVars
<1>5. CASE ~mine
    <2>1. UNCHANGED <<mode, disk, current, own>>
        BY <1>5 DEF EntryCompletes
    <2> QED
        BY <1>1, <1>2, <1>3, <1>4, <2>1, RunMovesInv DEF workerVars, upgradeVars
<1>6. CASE mine
    <2>1. /\ run' \in [Gens -> Runs] /\ run'[g] = q
          /\ \A h \in Gens \ {g} : run'[h] = run[h]
        BY <1>1, <1>2, <1>3, RunSet
    <2>2. PICK c \in Commit(g, "rescue") :
            Evidence(c) /\ mode' = IF c.ok THEN "rescue" ELSE mode
        BY <1>6 DEF EntryCompletes
    <2>3. /\ disk' \in Evidences /\ current' \in Evidences
          /\ mode' \in {"rescue", "rescue_draining"} /\ mode' \in Modes
        BY <1>1, <1>6, <2>2, CommitOK DEF Evidence, Modes
    <2>4. own' = IF own.worker = None THEN own
                 ELSE [own EXCEPT !.worker = None, !.pending = TRUE, !.released = TRUE]
        BY <1>6 DEF EntryCompletes
    <2>5. own' \in Owners /\ own'.worker = None
        BY <1>1, <2>4 DEF Typed, Owners, Optional
    <2>6. Typed'
        BY <1>1, <1>4, <2>1, <2>3, <2>5 DEF Typed
    <2>7. QuietUnlessServing'
        BY <1>1, <1>4 DEF QuietUnlessServing
    <2>8. \A w \in Workers : proc[w] # "alive"
        BY <1>1, <1>6 DEF IndInv, AliveIsOwned, ReapedIsGone
    <2>9. AliveIsOwned' /\ ReapedIsGone'
        BY <1>2, <1>4, <2>1, <2>8 DEF IndInv, AliveIsOwned, ReapedIsGone
    <2>10. upg.at = "idle"
        BY <1>6 DEF IndInv, UpgradeOwns
    <2>11. UpgradeOwns' /\ UpgradeWaits'
        BY <1>4, <2>10 DEF IndInv, UpgradeOwns, UpgradeWaits
    <2>12. RetryNotSwallowed' /\ RescueDrained' /\ ZeroIsZero'
        BY <1>2, <1>4, <1>6, <2>1, <2>3 DEF RetryNotSwallowed, RescueDrained, ZeroIsZero
    <2> QED
        BY <2>6, <2>7, <2>9, <2>11, <2>12, TypesNext DEF IndInv
<1> QED
    BY <1>5, <1>6

\* Leaving rescue boots a worker where there is none.
ExitBoots == IF own.worker = None THEN bootLocked(own, proc)
             ELSE {[own |-> own, proc |-> proc, watch |-> {}, ok |-> TRUE]}
ExitOwner(b) == IF b.ok /\ own.worker = None
                THEN [b.own EXCEPT !.recovering = FALSE, !.pending = FALSE]
                ELSE b.own

\* The worker it leaves alive is the supervisor's, and processes that some
\* goroutine still knows are as they were.
LEMMA ExitBootOK ==
    ASSUME IndInv, NEW b \in ExitBoots, proc' = b.proc, watched' = watched \cup b.watch,
           own' = ExitOwner(b)
    PROVE  /\ own' \in Owners /\ proc' \in Procs /\ watched' \subseteq Workers
           /\ b.ok \in BOOLEAN
           /\ AliveIsOwned'
           /\ \A v \in Workers : v \notin Fresh => proc'[v] = proc[v]
<1>1. Typed /\ own \in Owners /\ proc \in Procs
    BY Types DEF IndInv, Typed
<1>2. CASE own.worker = None
    <2>1. b \in bootLocked(own, proc)
        BY <1>2 DEF ExitBoots
    <2>2. /\ b.own \in Owners /\ b.proc \in Procs /\ b.watch \subseteq Workers
          /\ b.ok \in BOOLEAN
          /\ \A v \in Workers : b.proc[v] = "alive" => proc[v] = "alive" \/ b.own.worker = v
          /\ \A v \in Workers : v \notin Fresh => b.proc[v] = proc[v]
        BY <1>1, <2>1, BootOK
    <2>3. ExitOwner(b) \in Owners /\ ExitOwner(b).worker = b.own.worker
        BY <2>2 DEF ExitOwner, Owners
    <2>4. AliveIsOwned'
        BY <1>2, <2>2, <2>3, NothingAlive DEF AliveIsOwned
    <2> QED
        BY <1>1, <2>2, <2>3, <2>4 DEF Typed
<1>3. CASE own.worker # None
    <2>1. b = [own |-> own, proc |-> proc, watch |-> {}, ok |-> TRUE]
        BY <1>3 DEF ExitBoots
    <2>2. own' = own /\ proc' = proc /\ watched' = watched /\ b.ok = TRUE
        BY <1>3, <2>1 DEF ExitOwner
    <2> QED
        BY <1>1, <2>2 DEF Typed, IndInv, AliveIsOwned
<1> QED
    BY <1>2, <1>3

\* A process that a goroutine reaped stays gone while no other is touched.
LEMMA ReapedKept ==
    ASSUME IndInv, \A v \in Workers : v \notin Fresh => proc'[v] = proc[v],
           \A h \in Gens : run'[h].at = "reaped" => run'[h] = run[h]
    PROVE  ReapedIsGone'
<1> SUFFICES ASSUME NEW g \in Gens, NEW w \in Workers, run'[g].at = "reaped",
                    run'[g].worker = w
             PROVE  proc'[w] = "gone"
    BY DEF ReapedIsGone
<1>1. run[g].at = "reaped" /\ run[g].worker = w
    OBVIOUS
<1>2. w \notin Fresh /\ proc[w] = "gone"
    BY <1>1 DEF Fresh, IndInv, ReapedIsGone
<1> QED
    BY <1>2

\* The exit of a generation starts with the channel that says what is left.
LEMMA ExitRescueInv ==
    ASSUME IndInv, ExitRescue
    PROVE  IndInv'
<1> DEFINE z == \A r \in Requests : req[r].at # "rescue"
           q == [at |-> "wait", worker |-> None, zero |-> z]
<1>1. Typed /\ up = "serving" /\ upg.at = "idle" /\ gen \in Gens
    BY Types DEF IndInv, ExitRescue, busy, Typed
<1>2. UNCHANGED <<up, crashes, req, upg, phase, paused>>
    BY DEF ExitRescue, upgradeVars
<1>3. q \in Runs /\ q.at = "wait" /\ q.zero = z
    <2>1. z \in BOOLEAN
        OBVIOUS
    <2> HIDE DEF z
    <2> QED
        BY <2>1 DEF Runs, Optional
<1>4. ASSUME run' = [run EXCEPT ![gen'] = q], gen' \in Gens, mode' = "rescue_exit_draining",
             flags' \in [entry : BOOLEAN, exit : BOOLEAN],
             disk' \in Evidences, current' \in Evidences, own' \in Owners, proc' \in Procs,
             watched' \subseteq Workers, AliveIsOwned',
             \A v \in Workers : v \notin Fresh => proc'[v] = proc[v]
      PROVE  IndInv'
    <2>1. /\ run' \in [Gens -> Runs] /\ run'[gen'] = q
          /\ \A h \in Gens \ {gen'} : run'[h] = run[h]
        BY <1>1, <1>3, <1>4 DEF Typed
    <2>2. Typed'
        BY <1>1, <1>2, <1>4, <2>1 DEF Typed, Modes
    <2>3. QuietUnlessServing'
        BY <1>1, <1>2 DEF QuietUnlessServing
    <2>4. ReapedIsGone'
        BY <1>3, <1>4, <2>1, ReapedKept
    <2>5. UpgradeOwns' /\ UpgradeWaits'
        BY <1>1, <1>2 DEF IndInv, UpgradeOwns, UpgradeWaits
    <2>6. RetryNotSwallowed' /\ RescueDrained'
        BY <1>3, <1>4, <2>1 DEF RetryNotSwallowed, RescueDrained
    <2>7. ZeroIsZero'
        <3>1. run'[gen'].zero => z
            BY <1>3, <2>1
        <3> QED
            BY <1>2, <3>1 DEF ZeroIsZero
    <2> QED
        BY <1>4, <2>2, <2>3, <2>4, <2>5, <2>6, <2>7, TypesNext DEF IndInv
<1>5. ASSUME mode = "rescue", UNCHANGED <<mode, gen, flags, run>>,
             disk' \in Evidences, current' \in Evidences, own' \in Owners, proc' \in Procs,
             watched' \subseteq Workers, AliveIsOwned',
             \A v \in Workers : v \notin Fresh => proc'[v] = proc[v]
      PROVE  IndInv'
    <2>1. Typed'
        BY <1>1, <1>2, <1>5 DEF Typed
    <2>2. QuietUnlessServing'
        BY <1>1, <1>2 DEF QuietUnlessServing
    <2>3. ReapedIsGone'
        BY <1>5, ReapedKept
    <2>4. UpgradeOwns' /\ UpgradeWaits'
        BY <1>1, <1>2 DEF IndInv, UpgradeOwns, UpgradeWaits
    <2>5. RetryNotSwallowed' /\ RescueDrained' /\ ZeroIsZero'
        BY <1>2, <1>5, ModeKept
    <2> QED
        BY <1>5, <2>1, <2>2, <2>3, <2>4, <2>5, TypesNext DEF IndInv
<1>6. CASE mode = "rescue" /\ gen < MaxGen
    <2>1. gen + 1 \in Gens
        BY <1>1, <1>6, SupervisorAssumption DEF Gens
    <2>2. PICK b \in ExitBoots :
            /\ proc' = b.proc /\ watched' = watched \cup b.watch
            /\ own' = ExitOwner(b)
            /\ IF ~b.ok THEN UNCHANGED modeVars
               ELSE \E c \in Commit(gen + 1, "rescue_exit_draining") :
                      /\ Evidence(c)
                      /\ IF c.ok
                         THEN /\ mode' = "rescue_exit_draining" /\ gen' = gen + 1
                              /\ flags' = [flags EXCEPT !.exit = TRUE]
                              /\ ExitStarted(gen + 1)
                         ELSE UNCHANGED <<mode, gen, flags, run>>
        BY <1>6, Zenon DEF ExitRescue, ExitBoots, ExitOwner
    <2>3. /\ own' \in Owners /\ proc' \in Procs /\ watched' \subseteq Workers
          /\ b.ok \in BOOLEAN
          /\ AliveIsOwned'
          /\ \A v \in Workers : v \notin Fresh => proc'[v] = proc[v]
        BY <2>2, ExitBootOK
    <2>4. CASE ~b.ok
        BY <1>1, <1>5, <1>6, <2>2, <2>3, <2>4 DEF modeVars, Typed
    <2>5. CASE b.ok
        <3>1. PICK c \in Commit(gen + 1, "rescue_exit_draining") :
                /\ Evidence(c)
                /\ IF c.ok
                   THEN /\ mode' = "rescue_exit_draining" /\ gen' = gen + 1
                        /\ flags' = [flags EXCEPT !.exit = TRUE]
                        /\ ExitStarted(gen + 1)
                   ELSE UNCHANGED <<mode, gen, flags, run>>
            BY <2>2, <2>5
        <3>2. disk' \in Evidences /\ current' \in Evidences
            BY <1>1, <2>1, <3>1, CommitOK DEF Evidence, Modes
        <3>3. CASE c.ok
            <4>1. flags' \in [entry : BOOLEAN, exit : BOOLEAN]
                BY <1>1, <3>1, <3>3 DEF Typed
            <4>2. run' = [run EXCEPT ![gen'] = q] /\ gen' \in Gens
                BY <2>1, <3>1, <3>3 DEF ExitStarted
            <4> HIDE DEF q
            <4> QED
                BY <1>4, <2>3, <3>1, <3>2, <3>3, <4>1, <4>2
        <3>4. CASE ~c.ok
            BY <1>5, <1>6, <2>3, <3>1, <3>2, <3>4
        <3> QED
            BY <3>3, <3>4
    <2> QED
        BY <2>4, <2>5
<1>7. CASE mode = "rescue_exit_draining" /\ ~flags.exit
    <2>1. /\ flags' = [flags EXCEPT !.exit = TRUE] /\ ExitStarted(gen)
          /\ UNCHANGED <<mode, gen, disk, current, own, proc, watched>>
        BY <1>7 DEF ExitRescue
    <2>2. flags' \in [entry : BOOLEAN, exit : BOOLEAN]
        BY <1>1, <2>1 DEF Typed
    <2>3. run' = [run EXCEPT ![gen'] = q] /\ gen' \in Gens
        BY <1>1, <2>1 DEF ExitStarted
    <2>4. AliveIsOwned'
        BY <2>1 DEF IndInv, AliveIsOwned
    <2> HIDE DEF q
    <2> QED
        BY <1>1, <1>4, <1>7, <2>1, <2>2, <2>3, <2>4 DEF Typed
<1> QED
    BY <1>6, <1>7 DEF ExitRescue

\* The exit completes once its channel is closed: no rescue request is left,
\* none can begin, and the mode may be normal.
LEMMA ExitCompletesInv ==
    ASSUME IndInv, NEW g \in Gens, ExitCompletes(g)
    PROVE  IndInv'
<1> DEFINE q == [run[g] EXCEPT !.at = "end"]
           mine == mode = "rescue_exit_draining" /\ gen = g
<1>1. run[g].at = "wait" /\ run[g].zero /\ up = "serving" /\ Typed /\ run[g] \in Runs
    BY RunServed DEF ExitCompletes
<1>2. q \in Runs /\ q.at = "end"
    BY <1>1 DEF Runs
<1>3. run' = [run EXCEPT ![g] = q]
    BY <1>1 DEF ExitCompletes, Typed
<1> HIDE DEF q
<1>4. UNCHANGED <<up, gen, flags, crashes, req, upg, phase, paused>>
    BY DEF ExitCompletes, upgradeVars
<1>5. CASE ~mine
    <2>1. UNCHANGED <<mode, disk, current, own, proc, watched>>
        BY <1>5 DEF ExitCompletes
    <2> QED
        BY <1>1, <1>2, <1>3, <1>4, <2>1, RunMovesInv DEF workerVars, upgradeVars
<1>6. CASE mine
    <2>1. /\ run' \in [Gens -> Runs] /\ run'[g] = q
          /\ \A h \in Gens \ {g} : run'[h] = run[h]
        BY <1>1, <1>2, <1>3, RunSet
    <2>2. PICK b \in ExitBoots :
            /\ proc' = b.proc /\ watched' = watched \cup b.watch
            /\ own' = ExitOwner(b)
            /\ IF ~b.ok THEN UNCHANGED <<mode, disk, current>>
               ELSE \E c \in Commit(g, "normal") :
                      Evidence(c) /\ mode' = IF c.ok THEN "normal" ELSE mode
        BY <1>6, Zenon DEF ExitCompletes, ExitBoots, ExitOwner
    <2>3. /\ own' \in Owners /\ proc' \in Procs /\ watched' \subseteq Workers
          /\ AliveIsOwned'
          /\ \A v \in Workers : v \notin Fresh => proc'[v] = proc[v]
        BY <2>2, ExitBootOK
    <2>4. /\ disk' \in Evidences /\ current' \in Evidences
          /\ mode' \in {"normal", "rescue_exit_draining"} /\ mode' \in Modes
        BY <1>1, <1>6, <2>2, CommitOK DEF Evidence, Modes, Typed
    <2>5. Typed'
        BY <1>1, <1>4, <2>1, <2>3, <2>4 DEF Typed
    <2>6. QuietUnlessServing'
        BY <1>1, <1>4 DEF QuietUnlessServing
    <2>7. ReapedIsGone'
        BY <1>2, <2>1, <2>3, ReapedKept
    <2>8. upg.at = "idle"
        BY <1>6 DEF IndInv, UpgradeOwns
    <2>9. UpgradeOwns' /\ UpgradeWaits'
        BY <1>4, <2>8 DEF IndInv, UpgradeOwns, UpgradeWaits
    <2>10. \A r \in Requests : req[r].at # "rescue"
        BY <1>1, <1>6 DEF IndInv, ZeroIsZero
    <2>11. RetryNotSwallowed' /\ RescueDrained' /\ ZeroIsZero'
        BY <1>2, <1>4, <1>6, <2>1, <2>4, <2>10 DEF RetryNotSwallowed, RescueDrained, ZeroIsZero
    <2> QED
        BY <2>3, <2>5, <2>6, <2>7, <2>9, <2>11, TypesNext DEF IndInv
<1> QED
    BY <1>5, <1>6

\* The goroutine of the current generation ends and takes its flag with it; one
\* of an earlier generation takes nothing that the current one relies on.
LEMMA RunEndsInv ==
    ASSUME IndInv, NEW g \in Gens, RunEnds(g)
    PROVE  IndInv'
<1>1. run[g].at = "end" /\ up = "serving" /\ Typed /\ gen \in Gens
    BY RunServed DEF RunEnds
<1>2. NoRun \in Runs /\ NoRun.at = "none"
    BY DEF NoRun, Runs, Optional
<1>3. run' = [run EXCEPT ![g] = NoRun]
    BY DEF RunEnds
<1>4. UNCHANGED <<up, mode, gen, disk, current, own, proc, watched, crashes, req,
                  upg, phase, paused>>
    BY DEF RunEnds, workerVars, upgradeVars
<1>5. /\ run' \in [Gens -> Runs] /\ run'[g].at = "none"
      /\ \A h \in Gens \ {g} : run'[h] = run[h]
    BY <1>1, <1>2, <1>3, RunSet
<1>6. flags' = IF gen # g THEN flags
               ELSE IF mode \in {"rescue_draining", "rescue"}
                    THEN [flags EXCEPT !.entry = FALSE]
                    ELSE [flags EXCEPT !.exit = FALSE]
    BY DEF RunEnds
<1>7. flags' \in [entry : BOOLEAN, exit : BOOLEAN]
    BY <1>1, <1>6 DEF Typed
<1>8. Typed'
    BY <1>1, <1>4, <1>5, <1>7 DEF Typed
<1>9. QuietUnlessServing' /\ UpgradeOwns' /\ UpgradeWaits'
    BY <1>1, <1>4, QuietKept, UpgradeKept
<1>10. AliveIsOwned' /\ ReapedIsGone'
    BY <1>2, <1>3, <1>4, RunWorkers
<1>11. RetryNotSwallowed'
    <2>1. CASE gen = g
        BY <1>1, <1>4, <1>6, <2>1 DEF RetryNotSwallowed, Typed
    <2>2. CASE gen # g
        BY <1>1, <1>4, <1>5, <1>6, <2>2 DEF IndInv, RetryNotSwallowed
    <2> QED
        BY <2>1, <2>2
<1>12. RescueDrained' /\ ZeroIsZero'
    BY <1>1, <1>4, <1>5 DEF IndInv, RescueDrained, ZeroIsZero
<1> QED
    BY <1>8, <1>9, <1>10, <1>11, <1>12, TypesNext DEF IndInv

-----------------------------------------------------------------------------
(* The worker and its monitor.                                             *)

\* A step of the worker or of its monitor, while no upgrade depends on it.
LEMMA MonitorInv ==
    ASSUME IndInv, up = "serving", UNCHANGED <<up, modeVars, req, upg, phase>>,
           upg.at = "idle" \/ UNCHANGED <<own, paused>>,
           own' \in Owners, proc' \in Procs, watched' \subseteq Workers,
           crashes' \in 0..CrashLimit, paused' \in BOOLEAN, AliveIsOwned', ReapedIsGone'
    PROVE  IndInv'
<1>1. Typed
    BY Types DEF IndInv
<1>2. Typed'
    BY <1>1 DEF Typed, modeVars
<1>3. QuietUnlessServing' /\ RetryNotSwallowed' /\ RescueDrained' /\ ZeroIsZero'
    BY QuietKept, ModeKept DEF modeVars
<1>4. UpgradeOwns' /\ UpgradeWaits'
    BY DEF IndInv, UpgradeOwns, UpgradeWaits, modeVars
<1> QED
    BY <1>2, <1>3, <1>4, TypesNext DEF IndInv

\* A worker that exits is not alive.
LEMMA WorkerExitsInv ==
    ASSUME IndInv, NEW w \in Workers, WorkerExits(w)
    PROVE  IndInv'
<1>1. Typed /\ proc[w] = "alive"
    BY Types DEF IndInv, WorkerExits
<1>2. up = "serving"
    BY <1>1, NothingAlive DEF IndInv, QuietUnlessServing
<1>3. /\ proc' \in Procs /\ proc'[w] = "dead"
      /\ \A v \in Workers \ {w} : proc'[v] = proc[v]
    BY <1>1 DEF WorkerExits, Typed, Procs
<1>4. AliveIsOwned' /\ ReapedIsGone'
    BY <1>1, <1>3 DEF IndInv, WorkerExits, AliveIsOwned, ReapedIsGone, modeVars
<1> QED
    BY <1>1, <1>2, <1>3, <1>4, MonitorInv DEF WorkerExits, Typed, upgradeVars

\* A crash start leaves the window.
LEMMA CrashWindowInv ==
    ASSUME IndInv, CrashWindowPasses
    PROVE  IndInv'
<1>1. Typed
    BY Types DEF IndInv
<1>2. UNCHANGED <<up, mode, gen, disk, current, flags, run, own, proc, watched, req,
                  upg, phase, paused>>
    BY DEF CrashWindowPasses, modeVars, upgradeVars
<1>3. crashes' \in 0..CrashLimit
    BY <1>1, SupervisorAssumption DEF CrashWindowPasses, Typed
<1>4. Typed'
    BY <1>1, <1>2, <1>3 DEF Typed
<1>5. QuietUnlessServing' /\ AliveIsOwned' /\ ReapedIsGone' /\ UpgradeOwns' /\ UpgradeWaits'
    BY <1>2, QuietKept, WorkersKept, UpgradeKept
<1>6. RetryNotSwallowed' /\ RescueDrained' /\ ZeroIsZero'
    BY <1>2, ModeKept
<1> QED
    BY <1>4, <1>5, <1>6, TypesNext DEF IndInv

\* The monitor reaps the worker that exited before it boots the next one.
LEMMA ReplaceInv ==
    ASSUME IndInv, NEW w \in Workers, replaceFailedWorker(w)
    PROVE  IndInv'
<1> DEFINE none == own.worker # w \/ ~own.ready \/ mode \notin {"normal", "rescue_exit_draining"}
           reaped == [own EXCEPT !.worker = None, !.ready = FALSE,
                                 !.pending = TRUE, !.released = TRUE]
           p == StopAndReap(proc, w)
<1>1. Typed /\ proc[w] # "alive" /\ own \in Owners /\ proc \in Procs
    BY Types DEF IndInv, replaceFailedWorker, Typed
<1>2. UNCHANGED <<up, mode, gen, disk, current, flags, run, req, upg, phase>>
    BY DEF replaceFailedWorker, modeVars
<1>3. CASE none
    <2>1. watched' = watched \ {w} /\ UNCHANGED <<own, proc, crashes, paused>>
        BY <1>3 DEF replaceFailedWorker
    <2>2. Typed'
        BY <1>1, <1>2, <2>1 DEF Typed
    <2>3. QuietUnlessServing' /\ AliveIsOwned' /\ ReapedIsGone' /\ UpgradeOwns' /\ UpgradeWaits'
        BY <1>2, <2>1, QuietKept, WorkersKept, UpgradeKept
    <2>4. RetryNotSwallowed' /\ RescueDrained' /\ ZeroIsZero'
        BY <1>2, ModeKept
    <2> QED
        BY <2>2, <2>3, <2>4, TypesNext DEF IndInv
<1>4. CASE ~none
    <2>1. own.worker = w /\ upg.at = "idle" /\ up = "serving"
        BY <1>4, SupervisorAssumption DEF replaceFailedWorker, busy, IndInv, QuietUnlessServing
    <2>2. reaped \in Owners /\ [own EXCEPT !.ready = FALSE] \in Owners
        BY <1>1 DEF Owners, Optional
    <2>3. p \in Procs /\ \A v \in Workers : p[v] = IF v = w THEN "gone" ELSE proc[v]
        BY <1>1, ReapOK
    <2>4. \A v \in Workers : p[v] # "alive" /\ (proc[v] = "gone" => p[v] = "gone")
        BY <1>1, <2>1, <2>3 DEF IndInv, AliveIsOwned
    <2>5. watched \subseteq Workers /\ crashes \in 0..CrashLimit /\ paused \in BOOLEAN
        BY <1>1 DEF Typed
    <2>6. \E proven \in ReapResults :
            IF ~proven
            THEN /\ own' = [own EXCEPT !.ready = FALSE] /\ proc' = p
                 /\ watched' = watched \ {w} /\ UNCHANGED <<crashes, paused>>
            ELSE IF crashes >= CrashLimit
            THEN /\ own' = reaped /\ proc' = p
                 /\ watched' = watched \ {w} /\ UNCHANGED <<crashes, paused>>
            ELSE \E b \in bootLocked(reaped, p) :
                   /\ crashes' = crashes + 1
                   /\ own' = [b.own EXCEPT !.recovering = ~b.ok, !.pending = @ /\ ~b.ok]
                   /\ proc' = b.proc
                   /\ watched' = (watched \ {w}) \cup b.watch
                   /\ paused' = (paused /\ ~b.ok)
        BY <1>4, Zenon DEF replaceFailedWorker
    <2> HIDE DEF p
    <2>7. CASE /\ own' \in Owners /\ proc' = p
               /\ watched' = watched \ {w} /\ UNCHANGED <<crashes, paused>>
        <3>1. AliveIsOwned' /\ ReapedIsGone'
            BY <1>2, <2>4, <2>7 DEF IndInv, AliveIsOwned, ReapedIsGone
        <3> QED
            BY <1>2, <2>1, <2>3, <2>5, <2>7, <3>1, MonitorInv DEF modeVars
    <2>8. CASE /\ crashes < CrashLimit
               /\ \E b \in bootLocked(reaped, p) :
                   /\ crashes' = crashes + 1
                   /\ own' = [b.own EXCEPT !.recovering = ~b.ok, !.pending = @ /\ ~b.ok]
                   /\ proc' = b.proc
                   /\ watched' = (watched \ {w}) \cup b.watch
                   /\ paused' = (paused /\ ~b.ok)
        <3>1. PICK b \in bootLocked(reaped, p) :
                   /\ crashes' = crashes + 1
                   /\ own' = [b.own EXCEPT !.recovering = ~b.ok, !.pending = @ /\ ~b.ok]
                   /\ proc' = b.proc
                   /\ watched' = (watched \ {w}) \cup b.watch
                   /\ paused' = (paused /\ ~b.ok)
            BY <2>8
        <3> HIDE DEF reaped
        <3>2. /\ b.own \in Owners /\ b.proc \in Procs /\ b.watch \subseteq Workers
              /\ b.ok \in BOOLEAN
            BY <2>2, <2>3, BootOK
        <3>3. own' \in Owners /\ own'.worker = b.own.worker
            <4> DEFINE x == ~b.ok
                       y == b.own.pending /\ ~b.ok
            <4>1. x \in BOOLEAN /\ y \in BOOLEAN
                OBVIOUS
            <4>2. own' = [b.own EXCEPT !.recovering = x, !.pending = y]
                BY <3>1, <3>2 DEF Owners
            <4> HIDE DEF x, y
            <4> QED
                BY <3>2, <4>1, <4>2 DEF Owners
        <3>4. AliveIsOwned' /\ ReapedIsGone'
            BY <1>2, <2>2, <2>3, <2>4, <3>1, <3>3, BootAlive
        <3>5. crashes' \in 0..CrashLimit
            BY <2>5, <2>8, <3>1, SupervisorAssumption
        <3>6. watched' \subseteq Workers /\ paused' \in BOOLEAN
            BY <2>5, <3>1, <3>2
        <3> QED
            BY <1>2, <2>1, <3>1, <3>2, <3>3, <3>4, <3>5, <3>6, MonitorInv DEF modeVars
    <2>9. crashes < CrashLimit \/ crashes >= CrashLimit
        BY <2>5, SupervisorAssumption
    <2> HIDE DEF reaped
    <2> QED
        BY <2>2, <2>6, <2>7, <2>8, <2>9, <2>5, SupervisorAssumption
<1> QED
    BY <1>3, <1>4

-----------------------------------------------------------------------------
(* The upgrade.                                                            *)

\* An upgrade under way shows that the process serves in normal mode.
LEMMA UpgradeServed ==
    ASSUME IndInv, upg.at # "idle"
    PROVE  up = "serving" /\ mode = "normal" /\ Typed
BY Types DEF IndInv, QuietUnlessServing, UpgradeOwns

\* A step of the upgrade that touches neither the worker nor the mode.
LEMMA UpgradeMovesInv ==
    ASSUME IndInv, up = "serving", UNCHANGED <<up, modeVars, workerVars, req>>,
           upg' \in Transactions, phase' \in Phases, paused' \in BOOLEAN,
           UpgradeOwns', UpgradeWaits'
    PROVE  IndInv'
<1>1. Typed
    BY Types DEF IndInv
<1>2. Typed'
    BY <1>1 DEF Typed, modeVars, workerVars
<1>3. QuietUnlessServing' /\ AliveIsOwned' /\ ReapedIsGone'
    BY QuietKept, WorkersKept DEF modeVars, workerVars
<1>4. RetryNotSwallowed' /\ RescueDrained' /\ ZeroIsZero'
    BY ModeKept DEF modeVars
<1> QED
    BY <1>2, <1>3, <1>4, TypesNext DEF IndInv

\* The upgrade is over: nothing is said of it any more.
LEMMA OverInv ==
    ASSUME IndInv, up = "serving", UNCHANGED <<up, modeVars, workerVars, req>>, Over,
           phase' \in Phases, paused' \in BOOLEAN
    PROVE  IndInv'
<1>1. upg' \in Transactions /\ upg'.at = "idle"
    BY DEF Over, NoUpgrade, Transactions, Optional
<1>2. UpgradeOwns' /\ UpgradeWaits'
    BY <1>1 DEF IndInv, UpgradeOwns, UpgradeWaits
<1> QED
    BY <1>1, <1>2, UpgradeMovesInv

\* The upgrade goes one step on.
LEMMA StepOK ==
    ASSUME Typed, NEW at \in {"waiting", "paused", "prepared", "quiet", "drained", "handoff",
                              "released", "rollback"}, Step(at)
    PROVE  upg' \in Transactions /\ upg'.at = at /\ upg'.selected = upg.selected
BY DEF Typed, Step, Transactions

\* An upgrade begins in normal mode.
LEMMA BeginInv ==
    ASSUME IndInv, Begin
    PROVE  IndInv'
<1>1. Typed /\ up = "serving" /\ mode = "normal" /\ upg.at = "idle"
    BY Types DEF IndInv, Begin, busy
<1>2. PICK s \in Save("prepared") :
        /\ phase' = s.phase
        /\ upg' = IF s.ok THEN [at |-> "begun", selected |-> own.worker] ELSE upg
    BY DEF Begin
<1>3. phase' \in Phases
    BY <1>1, <1>2, SaveOK DEF Phases
<1>4. upg' \in Transactions /\ upg'.at \in {"begun", "idle"}
    BY <1>1, <1>2 DEF Typed, Transactions, Owners
<1>5. UNCHANGED <<mode, req, own, paused>>
    BY DEF Begin, modeVars, workerVars
<1>6. UpgradeOwns'
    BY <1>1, <1>4, <1>5 DEF UpgradeOwns
<1>7. UpgradeWaits'
    BY <1>4, <1>5 DEF IndInv, UpgradeWaits
<1> QED
    BY <1>1, <1>3, <1>4, <1>6, <1>7, UpgradeMovesInv DEF Begin, Typed

\* The receipt says that the upgrade waits, or it is over.
LEMMA SaveWaitingInv ==
    ASSUME IndInv, SaveWaiting
    PROVE  IndInv'
<1>1. Typed /\ up = "serving" /\ mode = "normal" /\ upg.at = "begun"
    BY UpgradeServed DEF SaveWaiting
<1>2. PICK s \in Save("waiting") :
        phase' = s.phase /\ IF s.ok THEN Step("waiting") ELSE Over
    BY DEF SaveWaiting
<1>3. phase' \in Phases
    BY <1>1, <1>2, SaveOK DEF Phases
<1>4. CASE Over
    BY <1>1, <1>3, <1>4, OverInv DEF SaveWaiting, Typed
<1>5. CASE Step("waiting")
    <2>1. upg' \in Transactions /\ upg'.at = "waiting"
        BY <1>1, <1>5, StepOK
    <2>2. UpgradeOwns' /\ UpgradeWaits'
        BY <1>1, <2>1 DEF SaveWaiting, IndInv, UpgradeOwns, UpgradeWaits, modeVars
    <2> QED
        BY <1>1, <1>3, <2>1, <2>2, UpgradeMovesInv DEF SaveWaiting, Typed
<1> QED
    BY <1>2, <1>4, <1>5

\* deferUpgrade ends the upgrade.
LEMMA DeferInv ==
    ASSUME IndInv, upg.at # "idle", deferUpgrade
    PROVE  IndInv'
<1>1. Typed /\ up = "serving"
    BY UpgradeServed
<1>2. PICK resumed \in Resumes :
        /\ paused' = (paused /\ ~resumed)
        /\ \E s \in Save(IF resumed THEN "deferred" ELSE "failed") : phase' = s.phase
    BY DEF deferUpgrade
<1>3. PICK new \in Phases : \E s \in Save(new) : phase' = s.phase
    BY <1>2 DEF Phases
<1>4. phase' \in Phases
    BY <1>1, <1>3, SaveOK
<1>5. paused' \in BOOLEAN
    BY <1>2
<1> QED
    BY <1>1, <1>4, <1>5, OverInv DEF deferUpgrade

\* One step of the waits before the handoff.
LEMMA WaitInv ==
    ASSUME IndInv, upg.at # "idle",
           NEW at \in {"paused", "prepared", "quiet", "drained"}, Step(at), paused',
           UNCHANGED <<up, modeVars, workerVars, req, phase>>, paused' \in BOOLEAN,
           at \in {"quiet", "drained"} => \A r \in Requests : ~req[r].counted,
           at = "drained" => /\ own.worker = upg.selected
                             /\ \A r \in Requests : req[r].at # "normal"
    PROVE  IndInv'
<1>1. Typed /\ up = "serving" /\ mode = "normal"
    BY UpgradeServed
<1>2. upg' \in Transactions /\ upg'.at = at /\ upg'.selected = upg.selected
    BY <1>1, StepOK
<1>3. UpgradeOwns'
    BY <1>1, <1>2 DEF UpgradeOwns, modeVars, workerVars
<1>4. UpgradeWaits'
    BY <1>2 DEF IndInv, UpgradeWaits
<1> QED
    BY <1>1, <1>2, <1>3, <1>4, UpgradeMovesInv DEF Typed

\* The listener is paused.
LEMMA PauseIngressInv ==
    ASSUME IndInv, PauseIngress
    PROVE  IndInv'
<1>1. upg.at = "waiting"
    BY DEF PauseIngress
<1>2. CASE deferUpgrade
    BY <1>1, <1>2, DeferInv
<1>3. CASE paused' = TRUE /\ Step("paused") /\ UNCHANGED <<up, modeVars, workerVars, req, phase>>
    BY <1>1, <1>3, WaitInv
<1> QED
    BY <1>2, <1>3 DEF PauseIngress

\* The worker is prepared.
LEMMA PrepareUpgradeInv ==
    ASSUME IndInv, PrepareUpgrade
    PROVE  IndInv'
<1>1. upg.at = "paused" /\ paused = TRUE
    BY Types DEF PrepareUpgrade, IndInv, UpgradeWaits, Typed
<1>2. CASE deferUpgrade
    BY <1>1, <1>2, DeferInv
<1>3. CASE Step("prepared") /\ UNCHANGED <<up, modeVars, workerVars, req, phase, paused>>
    BY <1>1, <1>3, WaitInv
<1> QED
    BY <1>2, <1>3 DEF PrepareUpgrade

\* No request is counted, and a paused listener lets none in.
LEMMA AwaitRequestsInv ==
    ASSUME IndInv, AwaitRequests
    PROVE  IndInv'
<1>1. upg.at = "prepared" /\ paused = TRUE
    BY Types DEF AwaitRequests, IndInv, UpgradeWaits, Typed
<1>2. CASE deferUpgrade
    BY <1>1, <1>2, DeferInv
<1>3. CASE /\ \A r \in Requests : ~req[r].counted
           /\ Step("quiet") /\ UNCHANGED <<up, modeVars, workerVars, req, phase, paused>>
    BY <1>1, <1>3, WaitInv
<1> QED
    BY <1>2, <1>3 DEF AwaitRequests

\* No request is at the worker.
LEMMA AwaitAdmissionsInv ==
    ASSUME IndInv, AwaitAdmissions
    PROVE  IndInv'
<1>1. upg.at = "quiet" /\ paused = TRUE /\ \A r \in Requests : ~req[r].counted
    BY Types DEF AwaitAdmissions, IndInv, UpgradeWaits, Typed
<1>2. CASE deferUpgrade
    BY <1>1, <1>2, DeferInv
<1>3. CASE /\ \A r \in Requests : req[r].at # "normal"
           /\ own.worker = upg.selected
           /\ Step("drained") /\ UNCHANGED <<up, modeVars, workerVars, req, phase, paused>>
    BY <1>1, <1>3, WaitInv
<1> QED
    BY <1>2, <1>3 DEF AwaitAdmissions

\* The receipt records the handoff, or the upgrade is over.
LEMMA SaveHandoffInv ==
    ASSUME IndInv, SaveHandoff
    PROVE  IndInv'
<1>1. Typed /\ up = "serving" /\ mode = "normal" /\ upg.at = "drained"
    BY UpgradeServed DEF SaveHandoff
<1>2. PICK s \in Save("handoff") :
        /\ phase' = s.phase
        /\ IF s.ok THEN Step("handoff") /\ paused' = paused
           ELSE \E resumed \in Resumes : Over /\ paused' = (paused /\ ~resumed)
    BY DEF SaveHandoff
<1>3. phase' \in Phases
    BY <1>1, <1>2, SaveOK DEF Phases
<1>4. CASE s.ok
    <2>1. upg' \in Transactions /\ upg'.at = "handoff" /\ upg'.selected = upg.selected
        BY <1>1, <1>2, <1>4, StepOK
    <2>2. UNCHANGED <<mode, own, req, paused>>
        BY <1>2, <1>4 DEF SaveHandoff, modeVars, workerVars
    <2>3. UpgradeOwns' /\ UpgradeWaits'
        BY <1>1, <2>1, <2>2 DEF IndInv, UpgradeOwns, UpgradeWaits
    <2> QED
        BY <1>1, <1>3, <2>1, <2>2, <2>3, UpgradeMovesInv DEF SaveHandoff, Typed
<1>5. CASE ~s.ok
    <2>1. Over /\ paused' \in BOOLEAN
        BY <1>2, <1>5
    <2> QED
        BY <1>1, <1>3, <2>1, OverInv DEF SaveHandoff
<1> QED
    BY <1>4, <1>5

\* The worker is reaped: it was the supervisor's, so nothing is alive.
LEMMA ReapSelectedInv ==
    ASSUME IndInv, ReapSelected
    PROVE  IndInv'
<1>1. Typed /\ up = "serving" /\ mode = "normal" /\ upg.at = "handoff"
    BY UpgradeServed DEF ReapSelected
<1>2. own.worker = upg.selected
    BY <1>1 DEF IndInv, UpgradeOwns
<1>3. /\ proc' \in Procs
      /\ \A v \in Workers : proc'[v] = IF v = upg.selected THEN "gone" ELSE proc[v]
    BY <1>1, ReapOK DEF ReapSelected, Typed
<1>4. UNCHANGED <<up, mode, gen, disk, current, flags, run, watched, crashes, req, paused>>
    BY DEF ReapSelected, modeVars
<1>5. \A v \in Workers : proc'[v] # "alive" /\ (proc[v] = "gone" => proc'[v] = "gone")
    BY <1>2, <1>3 DEF IndInv, AliveIsOwned
<1>6. /\ own' \in Owners /\ upg' \in Transactions /\ phase' \in Phases
      /\ upg'.at = "idle" \/ (upg'.at = "released" /\ own'.worker = None)
    <2>1. PICK proven \in ReapResults :
            IF proven
            THEN /\ Step("released")
                 /\ own' = [own EXCEPT !.worker = None, !.ready = FALSE, !.pending = FALSE,
                                       !.released = TRUE]
                 /\ phase' = phase
            ELSE /\ Over
                 /\ phase' \in {"failed"} \cup
                               (IF "save" \in Faults THEN {phase, "rolling_back"} ELSE {})
                 /\ UNCHANGED own
        BY DEF ReapSelected
    <2>2. CASE proven
        <3>1. upg' \in Transactions /\ upg'.at = "released"
            BY <1>1, <2>1, <2>2, StepOK
        <3>2. own' \in Owners /\ own'.worker = None
            BY <1>1, <2>1, <2>2 DEF Typed, Owners, Optional
        <3> QED
            BY <1>1, <2>1, <2>2, <3>1, <3>2 DEF Typed
    <2>3. CASE ~proven
        <3>1. upg' \in Transactions /\ upg'.at = "idle"
            BY <2>1, <2>3 DEF Over, NoUpgrade, Transactions, Optional
        <3> QED
            BY <1>1, <2>1, <2>3, <3>1 DEF Typed, Phases
    <2> QED
        BY <2>2, <2>3
<1>7. Typed'
    BY <1>1, <1>3, <1>4, <1>6 DEF Typed
<1>8. QuietUnlessServing'
    BY <1>1, <1>4 DEF QuietUnlessServing
<1>9. AliveIsOwned' /\ ReapedIsGone'
    BY <1>4, <1>5 DEF IndInv, AliveIsOwned, ReapedIsGone
<1>10. UpgradeOwns' /\ UpgradeWaits'
    BY <1>1, <1>4, <1>6 DEF IndInv, UpgradeOwns, UpgradeWaits
<1>11. RetryNotSwallowed' /\ RescueDrained' /\ ZeroIsZero'
    BY <1>4, ModeKept
<1> QED
    BY <1>7, <1>8, <1>9, <1>10, <1>11, TypesNext DEF IndInv

\* The process image is replaced, or a rollback is recorded.
LEMMA HandoffInv ==
    ASSUME IndInv, Handoff
    PROVE  IndInv'
<1>1. Typed /\ up = "serving" /\ mode = "normal" /\ upg.at = "released" /\ own.worker = None
    BY UpgradeServed DEF Handoff, IndInv, UpgradeOwns
<1>2. CASE /\ ForgetProcess /\ phase' \in {"committed", "rolled_back"}
           /\ UNCHANGED <<mode, gen, disk, current>>
    BY <1>2, ForgetInv DEF Phases
<1>3. CASE /\ \E s \in Save("rolling_back") :
                phase' = s.phase /\ IF s.ok THEN Step("rollback") ELSE Over
           /\ UNCHANGED <<up, modeVars, workerVars, req, paused>>
    <2>1. PICK s \in Save("rolling_back") :
                phase' = s.phase /\ IF s.ok THEN Step("rollback") ELSE Over
        BY <1>3
    <2>2. phase' \in Phases
        BY <1>1, <2>1, SaveOK DEF Phases
    <2>3. CASE Over
        BY <1>1, <1>3, <2>2, <2>3, OverInv DEF Typed
    <2>4. CASE Step("rollback")
        <3>1. upg' \in Transactions /\ upg'.at = "rollback"
            BY <1>1, <2>4, StepOK
        <3>2. UpgradeOwns' /\ UpgradeWaits'
            BY <1>1, <1>3, <3>1 DEF IndInv, UpgradeOwns, UpgradeWaits, modeVars, workerVars
        <3> QED
            BY <1>1, <1>3, <2>2, <3>1, <3>2, UpgradeMovesInv DEF Typed
    <2> QED
        BY <2>1, <2>3, <2>4
<1> QED
    BY <1>2, <1>3 DEF Handoff

\* The rollback boots a worker for a supervisor that has none.
LEMMA RollbackInv ==
    ASSUME IndInv, Rollback
    PROVE  IndInv'
<1>1. Typed /\ up = "serving" /\ mode = "normal" /\ upg.at = "rollback" /\ own.worker = None
    BY UpgradeServed DEF Rollback, IndInv, UpgradeOwns
<1>2. own \in Owners /\ proc \in Procs /\ \A w \in Workers : proc[w] # "alive"
    BY <1>1, NothingAlive DEF Typed
<1>3. PICK b \in bootLocked(own, proc) :
         /\ own' = b.own /\ proc' = b.proc /\ watched' = watched \cup b.watch
         /\ paused' = (paused /\ ~b.ok)
         /\ \E s \in Save(IF b.ok THEN "rolled_back" ELSE "failed") : phase' = s.phase
    BY DEF Rollback
<1>4. own' \in Owners /\ proc' \in Procs /\ watched' \subseteq Workers
    BY <1>1, <1>2, <1>3, BootOK DEF Typed
<1>5. paused' \in BOOLEAN
    BY <1>3
<1>6. phase' \in Phases
    <2>1. PICK new \in Phases : \E s \in Save(new) : phase' = s.phase
        BY <1>3 DEF Phases
    <2> QED
        BY <1>1, <2>1, SaveOK
<1>7. UNCHANGED <<up, mode, gen, disk, current, flags, run, crashes, req>>
    BY DEF Rollback, modeVars
<1>8. upg' \in Transactions /\ upg'.at = "idle"
    BY DEF Rollback, Over, NoUpgrade, Transactions, Optional
<1>9. Typed'
    BY <1>1, <1>4, <1>5, <1>6, <1>7, <1>8 DEF Typed
<1>10. QuietUnlessServing'
    BY <1>1, <1>7 DEF QuietUnlessServing
<1>11. AliveIsOwned' /\ ReapedIsGone'
    BY <1>2, <1>3, <1>7, BootAlive
<1>12. UpgradeOwns' /\ UpgradeWaits'
    BY <1>7, <1>8 DEF IndInv, UpgradeOwns, UpgradeWaits
<1>13. RetryNotSwallowed' /\ RescueDrained' /\ ZeroIsZero'
    BY <1>7, ModeKept
<1> QED
    BY <1>9, <1>10, <1>11, <1>12, <1>13, TypesNext DEF IndInv

-----------------------------------------------------------------------------
(* The theorems.                                                           *)

\* The invariant holds initially.
LEMMA InitInv ==
    ASSUME Init
    PROVE  IndInv
<1>1. /\ own \in Owners /\ flags \in [entry : BOOLEAN, exit : BOOLEAN]
      /\ upg \in Transactions /\ disk \in Evidences /\ gen \in Gens
    BY SupervisorAssumption
       DEF Init, NoOwner, Owners, Optional, NoUpgrade, Transactions, Evidences, Gens, Modes
<1>2. proc \in Procs /\ run \in [Gens -> Runs] /\ req \in [Requests -> Asked]
    BY DEF Init, Procs, NoRun, Runs, Optional, NoRequest, Asked
<1>3. Typed
    <2>1. /\ up = "down" /\ mode \in Modes /\ current = disk /\ watched = {}
          /\ phase \in Phases /\ paused = FALSE
        BY DEF Init, Modes, Phases
    <2>2. crashes \in 0..CrashLimit
        BY SupervisorAssumption DEF Init
    <2> QED
        BY <1>1, <1>2, <2>1, <2>2 DEF Typed
<1>4. /\ own.worker = None /\ upg.at = "idle"
      /\ \A w \in Workers : proc[w] = "gone"
      /\ \A g \in Gens : run[g].at = "none"
      /\ \A r \in Requests : req[r].at = "none"
    BY DEF Init, NoOwner, NoUpgrade, NoRun, NoRequest
<1>5. QuietUnlessServing /\ AliveIsOwned /\ ReapedIsGone /\ UpgradeOwns /\ UpgradeWaits
    BY <1>4 DEF QuietUnlessServing, AliveIsOwned, ReapedIsGone, UpgradeOwns, UpgradeWaits
<1>6. RetryNotSwallowed /\ RescueDrained /\ ZeroIsZero
    BY <1>4 DEF Init, RetryNotSwallowed, RescueDrained, ZeroIsZero
<1> QED
    BY <1>3, <1>5, <1>6, Types DEF IndInv

\* Every step keeps it.
LEMMA NextInv ==
    ASSUME IndInv, [Next]_vars
    PROVE  IndInv'
<1>1. CASE UNCHANGED vars
    <2>1. UNCHANGED <<up, mode, gen, disk, current, own, proc, watched, crashes, flags, run,
                      req, upg, phase, paused>>
        BY <1>1 DEF vars, modeVars, workerVars, upgradeVars
    <2>2. TypeOK'
        BY <2>1 DEF IndInv, TypeOK
    <2>3. QuietUnlessServing' /\ AliveIsOwned' /\ ReapedIsGone' /\ UpgradeOwns' /\ UpgradeWaits'
        BY <2>1, QuietKept, WorkersKept, UpgradeKept
    <2>4. RetryNotSwallowed' /\ RescueDrained' /\ ZeroIsZero'
        BY <2>1, ModeKept
    <2> QED
        BY <2>2, <2>3, <2>4 DEF IndInv
<1>2. CASE ConfigureRescue \/ Startup \/ ProcessLost
    BY <1>2, ConfigureRescueInv, StartupInv, ProcessLostInv
<1>3. CASE \E r \in Requests :
             Accept(r) \/ Route(r) \/ Admit(r) \/ Refuse(r) \/ Hijack(r) \/ Finish(r)
    BY <1>3, AcceptInv, RouteInv, AdmitInv, RefuseInv, HijackInv, FinishInv
<1>4. CASE EnterRescue \/ ExitRescue
    BY <1>4, EnterRescueInv, ExitRescueInv
<1>5. CASE \E g \in Gens : RunStep(g)
    BY <1>5, EntryBeginsInv, EntryReapsInv, EntryCompletesInv, ExitCompletesInv, RunEndsInv
       DEF RunStep
<1>6. CASE \E w \in Workers : WorkerExits(w) \/ replaceFailedWorker(w)
    BY <1>6, WorkerExitsInv, ReplaceInv
<1>7. CASE CrashWindowPasses \/ Begin
    BY <1>7, CrashWindowInv, BeginInv
<1>8. CASE UpgradeStep
    BY <1>8, SaveWaitingInv, PauseIngressInv, PrepareUpgradeInv, AwaitRequestsInv,
       AwaitAdmissionsInv, SaveHandoffInv, ReapSelectedInv, HandoffInv, RollbackInv
       DEF UpgradeStep
<1> QED
    BY <1>1, <1>2, <1>3, <1>4, <1>5, <1>6, <1>7, <1>8 DEF Next

\* The inductive invariant holds in every behaviour of the supervisor.
THEOREM SupervisorInvariant == Spec => []IndInv
BY InitInv, NextInv, PTL DEF Spec

\* Every variable keeps its type: handlers and goroutines of any generation
\* never leave a worker, a request or a receipt in a state that is not listed.
THEOREM SupervisorTypeCorrect == Spec => []TypeOK
<1>1. IndInv => TypeOK
    BY DEF IndInv
<1> QED
    BY <1>1, SupervisorInvariant, PTL

\* At most one worker process is alive, whatever boots, crashes, reaps that
\* come late, rescue transitions and rollbacks interleave.
THEOREM OneWorkerAlive == Spec => []OneOwner
<1>1. IndInv => OneOwner
    BY DEF IndInv, AliveIsOwned, OneOwner
<1> QED
    BY <1>1, SupervisorInvariant, PTL

\* A request to enter or leave rescue that finds a run flag finds a goroutine
\* of its generation behind it.
THEOREM RetryIsServed == Spec => []RetryNotSwallowed
<1>1. IndInv => RetryNotSwallowed
    BY DEF IndInv
<1> QED
    BY <1>1, SupervisorInvariant, PTL

\* In normal mode no rescue request is left, however often an exit from rescue
\* was cancelled and started over.
THEOREM NormalIsDrained == Spec => []RescueDrained
<1>1. IndInv => RescueDrained
    BY DEF IndInv
<1> QED
    BY <1>1, SupervisorInvariant, PTL

\* The worker an upgrade reaps serves no request, and none is on its way to it.
THEOREM ReapIsQuiet == Spec => HandoffIsQuiet
<1>1. IndInv /\ [Next]_vars =>
        [ReapSelected => \A r \in Requests : req[r].at \notin {"entered", "routed", "normal"}]_vars
    <2> SUFFICES ASSUME IndInv, ReapSelected, NEW r \in Requests
                 PROVE  req[r].at \notin {"entered", "routed", "normal"}
        OBVIOUS
    <2> QED
        BY DEF ReapSelected, IndInv, UpgradeWaits
<1> QED
    BY <1>1, SupervisorInvariant, PTL DEF Spec, HandoffIsQuiet
=============================================================================
