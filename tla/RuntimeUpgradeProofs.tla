------------------------ MODULE RuntimeUpgradeProofs ------------------------
(***************************************************************************)
(* Proofs about RuntimeUpgrade for every set of pids and environments.     *)
(* That a new image runs no worker beside the one it replaced rests on     *)
(* where in the code the supervisor has no worker at all.  Which image     *)
(* serves rests on what the receipt says at each place of the code.  That  *)
(* the listener is retained needs the whole protocol with the guard: what  *)
(* is on the wire, and what the guard believes, at each of those places.   *)
(***************************************************************************)
EXTENDS RuntimeUpgrade, TLAPS

\* The types of TypeOK, by name.
Receipts == [phase : Phases, gen : Nat, previous : Images, candidate : Images,
             pid : Pids \cup {NoPid}, guard : BOOLEAN, attempts : 0..RecoveryLimit,
             unproven : BOOLEAN]
Sups == [at : Places, pid : Pids \cup {NoPid}, image : Images, adopted : BOOLEAN,
         recovery : BOOLEAN]
Guards == [at : {"none", "started", "announced", "ready"}, recovery : BOOLEAN,
           verified : BOOLEAN]
Asks == {"ready", "commit", "rollback"}
Answers == {"guard_ready", "resume", "recover", "verified", "retired"}
Envs == [faults : SUBSET FaultKinds, places : SUBSET Places, crashes : Nat, upgrades : Nat]

\* A supervisor process has a pid, and its workers run its image.
PidIsUp == sup.at # "down" <=> sup.pid # NoPid
WorkersAreOwn == \A w \in workers : w[1] = sup.pid => w = own

\* Here it has reaped its worker, or not booted one yet.
Workerless == Starting \cup {"released", "started", "guarded", "prepared", "rollback",
                             "resuming", "returning", "failing"}
NoWorkerThere == sup.at \in Workerless => \A w \in workers : w[1] # sup.pid

\* A recovery in progress found no worker.
RecoveryAlone ==
    receipt.attempts > 0 =>
      receipt.pid # NoPid /\ (receipt.pid = sup.pid => workers \subseteq {own})

\* The phase on disk at each place, and the image.
PhaseThere ==
    /\ sup.at = "binding" => receipt.phase \in Terminal
    /\ sup.at = "begun" => receipt.phase = "prepared"
    /\ sup.at = "waiting" => receipt.phase = "waiting"
    /\ sup.at \in Handing \ {"rollback"} => receipt.phase = "handoff"
    /\ sup.at = "rollback" => receipt.phase \in {"handoff", "rolling_back"}
    /\ sup.at = "committed" =>
         receipt.phase = IF sup.recovery THEN "rolled_back" ELSE "committed"
ImageThere ==
    /\ sup.at \in {"begun", "waiting"} \cup Handing => sup.image = receipt.previous
    /\ sup.at \in {"booted", "ready", "committed"} =>
         sup.image = IF sup.recovery THEN receipt.previous ELSE receipt.candidate
    /\ sup.at \in {"binding", "serving"} =>
         /\ receipt.phase = "committed" => sup.image = receipt.candidate
         /\ receipt.phase \in {"deferred", "rolled_back", "failed"}
              => sup.image = receipt.previous

\* The protocol with the guard while a handoff is unfinished: what the guard
\* has done, and the frames to it and from it, wherever the supervisor is.
Guard(at, tg, ts) == guard.at = at /\ toGuard = tg /\ toSup = ts
Opening == Guard("announced", <<>>, <<>>) \/ Guard("ready", <<>>, <<"resume">>)
Recovers == guard.recovery /\ receipt.phase = "rolling_back"
Handshake ==
    /\ sup.at \in {"started", "guarded", "prepared", "resuming", "returning", "booted",
                   "ready", "unready", "failing", "recovered"} => link = "open"
    /\ sup.at = "started" => Guard("started", <<>>, <<>>) /\ ~guard.recovery
    /\ sup.at = "guarded" =>
         /\ ~guard.recovery
         /\ \/ Guard("started", <<>>, <<>>) \/ Guard("announced", <<>>, <<"guard_ready">>)
            \/ Guard("ready", <<>>, <<"guard_ready", "resume">>)
    /\ sup.at = "prepared" => Opening /\ ~guard.recovery
    /\ sup.at = "resuming" =>
         \/ Opening /\ ~guard.recovery /\ receipt.phase = "handoff"
         \/ Guard("ready", <<>>, <<"recover">>) /\ Recovers
    /\ sup.at = "returning" =>
         \/ Guard("ready", <<"rollback">>, <<>>) /\ receipt.phase = "rolling_back"
         \/ Guard("ready", <<>>, <<"recover">>) /\ Recovers
    /\ sup.at = "recovered" => Guard("ready", <<>>, <<"recover">>) /\ Recovers
    /\ sup.at = "booted" =>
         /\ Guard("ready", <<>>, <<>>) /\ guard.recovery = sup.recovery
         /\ receipt.phase = IF sup.recovery THEN "rolling_back" ELSE "handoff"
    /\ sup.at = "ready" =>
         /\ Guard("ready", <<"ready">>, <<>>) \/ Guard("ready", <<>>, <<"verified">>)
         /\ guard.recovery = sup.recovery
         /\ receipt.phase = IF sup.recovery THEN "rolling_back" ELSE "verifying"
    /\ sup.at \in {"unready", "failing"} => Guard("ready", <<>>, <<>>)
    /\ sup.at = "failing" => receipt.phase = "rolling_back"
    /\ sup.at \in {"down", "asking"} => guard.at = "ready" /\ toGuard = <<>>
    /\ sup.at \notin Serving \cup {"binding", "committed"}
Protocol == Guarded /\ receipt.phase \in Unfinished => Handshake

IndInv ==
    /\ TypeOK /\ PidIsUp /\ WorkersAreOwn /\ NoWorkerThere /\ RecoveryAlone
    /\ PhaseThere /\ ImageThere /\ Protocol

Typed ==
    /\ receipt \in Receipts /\ receipt.gen <= env.upgrades
    /\ sup \in Sups /\ workers \subseteq Pids \X Images /\ guard \in Guards
    /\ link \in {"none", "open", "broken"}
    /\ toGuard \in Seq(Asks) /\ toSup \in Seq(Answers) /\ env \in Envs

-----------------------------------------------------------------------------
(* Types, frames and saves.                                                *)

\* TypeOK in the names of this module.
LEMMA Types == TypeOK <=> Typed
<1>1. TypeOK => Typed
    BY DEF TypeOK, Typed, Receipts, Sups, Guards, Asks, Answers, Envs
<1>2. Typed => TypeOK
    BY DEF TypeOK, Typed, Receipts, Sups, Guards, Asks, Answers, Envs
<1> QED
    BY <1>1, <1>2

\* The same of the state after a step.
LEMMA TypesNext ==
    ASSUME Typed'
    PROVE  TypeOK'
BY DEF TypeOK, Typed, Receipts, Sups, Guards, Asks, Answers, Envs

\* Reading and writing short streams of frames.
LEMMA Frames ==
    \A a, b \in Asks \cup Answers :
      /\ Head(<<a>>) = a /\ Head(<<a, b>>) = a
      /\ Tail(<<a>>) = <<>> /\ Tail(<<a, b>>) = <<b>>
      /\ Append(<<>>, a) = <<a>> /\ Append(<<a>>, b) = <<a, b>>
      /\ <<a>> # <<>> /\ <<a, b>> # <<>>
<1> TAKE a, b \in Asks \cup Answers
<1>1. Head(<<a>>) = a /\ Head(<<a, b>>) = a
    OBVIOUS
<1>2. Tail(<<a>>) = <<>>
    OBVIOUS
<1>3. Tail(<<a, b>>) = <<b>>
    <2> DEFINE t == Tail(<<a, b>>)
    <2>1. t \in Seq(Asks \cup Answers) /\ Len(t) = 1 /\ t[1] = b
        OBVIOUS
    <2> HIDE DEF t
    <2>2. t = <<b>>
        BY <2>1
    <2> QED
        BY <2>2 DEF t
<1>4. Append(<<>>, a) = <<a>>
    OBVIOUS
<1>5. Append(<<a>>, b) = <<a, b>>
    <2> DEFINE t == Append(<<a>>, b)
    <2>1. t \in Seq(Asks \cup Answers) /\ Len(t) = 2
        OBVIOUS
    <2>2. t[1] = a /\ t[2] = b
        OBVIOUS
    <2> HIDE DEF t
    <2>3. t = <<a, b>>
        BY <2>1, <2>2
    <2> QED
        BY <2>3 DEF t
<1>6. <<a>> # <<>> /\ <<a, b>> # <<>>
    OBVIOUS
<1> QED
    BY <1>1, <1>2, <1>3, <1>4, <1>5, <1>6

\* The same of the frames that the protocol reads and writes.
LEMMA FramesRead ==
    /\ Tail(<<"guard_ready">>) = <<>> /\ Tail(<<"guard_ready", "resume">>) = <<"resume">>
    /\ \A f \in Asks \cup Answers : Tail(<<f>>) = <<>> /\ Head(<<f>>) = f /\ <<f>> # <<>>
    /\ \A f \in Asks \cup Answers : Append(<<>>, f) = <<f>>
    /\ Append(<<"guard_ready">>, "resume") = <<"guard_ready", "resume">>
<1>1. {"guard_ready", "resume"} \subseteq Asks \cup Answers
    BY DEF Answers
<1>2. /\ Tail(<<"guard_ready">>) = <<>> /\ Tail(<<"guard_ready", "resume">>) = <<"resume">>
      /\ Append(<<"guard_ready">>, "resume") = <<"guard_ready", "resume">>
    <2>1. "guard_ready" \in Asks \cup Answers /\ "resume" \in Asks \cup Answers
        BY <1>1
    <2> QED
        BY <2>1, Frames, Zenon
<1>3. \A f \in Asks \cup Answers : /\ Tail(<<f>>) = <<>> /\ Head(<<f>>) = f /\ <<f>> # <<>>
                                   /\ Append(<<>>, f) = <<f>>
    BY Frames, Zenon
<1> QED
    BY <1>2, <1>3, Zenon

\* Streams stay streams.
LEMMA Streams ==
    ASSUME NEW S, NEW q \in Seq(S), NEW f \in S
    PROVE  /\ Append(q, f) \in Seq(S)
           /\ q # <<>> => Tail(q) \in Seq(S) /\ Head(q) \in S
OBVIOUS

\* Save returns the receipt on disk, or the new one, and it returns the new one
\* if it reports success; it succeeds if it may and nothing fails.
LEMMA SaveOK ==
    ASSUME NEW new, NEW s \in Save(new)
    PROVE  /\ s.ok \in BOOLEAN /\ (s.receipt = receipt \/ s.receipt = new)
           /\ s.ok => s.receipt = new /\ Follows(receipt, new)
           /\ s.receipt # receipt => Follows(receipt, new)
           /\ Follows(receipt, new) /\ "save" \notin env.faults => s.ok
<1>1. CASE ~Follows(receipt, new)
    <2>1. s = [ok |-> FALSE, receipt |-> receipt]
        BY <1>1 DEF Save
    <2> QED
        BY <1>1, <2>1
<1>2. CASE Follows(receipt, new)
    <2>1. \E ok \in BOOLEAN, r \in {receipt, new} :
            /\ s = [ok |-> ok, receipt |-> r] /\ (ok => r = new)
            /\ "save" \notin env.faults => ok
        BY <1>2 DEF Save
    <2> QED
        BY <1>2, <2>1
<1> QED
    BY <1>1, <1>2

\* A receipt of the same transaction and the same process.
Same(r) == /\ r.gen = receipt.gen /\ r.previous = receipt.previous
           /\ r.candidate = receipt.candidate /\ r.pid = receipt.pid
           /\ r.attempts = receipt.attempts

\* Phase changes the phase only.
LEMMA PhaseOK ==
    ASSUME Typed, NEW p \in Phases
    PROVE  Phase(p) \in Receipts /\ Phase(p).phase = p /\ Same(Phase(p))
BY DEF Typed, Receipts, Phase, Same

\* Save accepts a phase that the table allows.
LEMMA PhaseFollows ==
    ASSUME Typed, NEW p \in Phases,
           p = receipt.phase \/ <<receipt.phase, p>> \in validRuntimeUpgradeTransition
    PROVE  Follows(receipt, Phase(p))
<1>1. Phase(p).guard = receipt.guard /\ Phase(p).phase = p /\ Same(Phase(p))
    BY PhaseOK DEF Phase, Typed, Receipts
<1> QED
    BY <1>1 DEF Follows, Same

\* What a save of a phase leaves on disk.
LEMMA SavePhase ==
    ASSUME Typed, NEW p \in Phases, NEW s \in Save(Phase(p))
    PROVE  /\ s.receipt \in Receipts /\ Same(s.receipt)
           /\ s.receipt.phase = receipt.phase \/ s.receipt.phase = p
           /\ s.ok => s.receipt.phase = p
<1>1. Same(receipt) /\ receipt \in Receipts
    BY DEF Same, Typed
<1> QED
    BY <1>1, PhaseOK, SaveOK

-----------------------------------------------------------------------------
(* What is said of workers.                                                *)

WorkerInv == PidIsUp /\ WorkersAreOwn /\ NoWorkerThere /\ RecoveryAlone

\* The process goes on, with the workers there are.
LEMMA WorkersKept ==
    ASSUME Typed, WorkerInv, workers' = workers, sup'.pid = sup.pid,
           sup'.image = sup.image \/ sup.at \in Workerless,
           sup'.at \in Workerless => sup.at \in Workerless,
           sup.at # "down", sup'.at # "down",
           receipt'.attempts = receipt.attempts, receipt'.pid = receipt.pid
    PROVE  WorkerInv'
BY DEF WorkerInv, PidIsUp, WorkersAreOwn, NoWorkerThere, RecoveryAlone, own

\* The process boots a worker of its image.
LEMMA WorkersBooted ==
    ASSUME Typed, WorkerInv, workers' = workers \cup {own}, sup'.pid = sup.pid,
           sup'.image = sup.image, sup'.at \notin Workerless, sup.at # "down", sup'.at # "down",
           receipt'.attempts = receipt.attempts, receipt'.pid = receipt.pid
    PROVE  WorkerInv'
BY DEF WorkerInv, PidIsUp, WorkersAreOwn, NoWorkerThere, RecoveryAlone, own

\* The process reaps its worker.
LEMMA WorkersReaped ==
    ASSUME Typed, WorkerInv, workers' = workers \ {own}, sup'.pid = sup.pid,
           sup'.image = sup.image, sup.at # "down", sup'.at # "down",
           receipt'.attempts = receipt.attempts, receipt'.pid = receipt.pid
    PROVE  WorkerInv'
BY DEF WorkerInv, PidIsUp, WorkersAreOwn, NoWorkerThere, RecoveryAlone, own

\* The process is gone.
LEMMA WorkersLost ==
    ASSUME Typed, WorkerInv, workers' \subseteq workers, sup' = NoSup,
           receipt'.attempts > 0 => receipt'.pid # NoPid
    PROVE  WorkerInv'
<1>1. \A w \in workers' : w[1] # NoPid
    BY UpgradeAssumption DEF Typed
<1>2. sup'.at = "down" /\ sup'.pid = NoPid
    BY DEF NoSup
<1>3. "down" \notin Workerless
    BY DEF Workerless, Starting
<1> QED
    BY <1>1, <1>2, <1>3 DEF WorkerInv, PidIsUp, WorkersAreOwn, NoWorkerThere, RecoveryAlone

-----------------------------------------------------------------------------
(* The supervisor process ends and starts.                                 *)

ReceiptInv == PhaseThere /\ ImageThere

\* The parts of the invariant.
LEMMA Parts == IndInv <=> Typed /\ WorkerInv /\ ReceiptInv /\ Protocol
BY Types DEF IndInv, WorkerInv, ReceiptInv

\* The same of the state after a step.
LEMMA PartsNext ==
    ASSUME Typed', WorkerInv', ReceiptInv', Protocol'
    PROVE  IndInv'
BY TypesNext DEF IndInv, WorkerInv, ReceiptInv

\* The supervisor goes to another place of its code.
LEMMA SupAt ==
    ASSUME Typed, NEW at \in Places, sup' = [sup EXCEPT !.at = at]
    PROVE  /\ sup' \in Sups /\ sup'.at = at /\ sup'.pid = sup.pid /\ sup'.image = sup.image
           /\ sup'.recovery = sup.recovery
BY DEF Typed, Sups

\* Nothing is asked of the guard at these places, or once the receipt is final.
LEMMA ProtocolFree ==
    ASSUME sup'.at \in {"handoff", "released", "rollback"} \/ receipt'.phase \notin Unfinished
    PROVE  Protocol'
BY DEF Protocol, Handshake, Serving

\* A process that is gone leaves nothing behind but a guard that can be asked.
LEMMA LostInv ==
    ASSUME IndInv, sup' = NoSup, workers' \subseteq workers, UNCHANGED <<guard, toGuard>>,
           link' \in {"none", "open", "broken"}, toSup' \in Seq(Answers), env' \in Envs,
           receipt' \in Receipts, receipt'.gen <= env'.upgrades,
           receipt'.attempts > 0 => receipt'.pid # NoPid,
           Guarded' /\ receipt'.phase \in Unfinished => guard.at = "ready" /\ toGuard = <<>>
    PROVE  IndInv'
<1>1. Typed /\ WorkerInv /\ ReceiptInv /\ Protocol
    BY Parts
<1>2. sup' \in Sups /\ sup'.at = "down"
    BY DEF NoSup, Sups, Places, Images
<1>3. Typed'
    BY <1>1, <1>2 DEF Typed
<1>4. WorkerInv'
    BY <1>1, WorkersLost
<1>5. ReceiptInv'
    BY <1>2 DEF ReceiptInv, PhaseThere, ImageThere, Handing
<1>6. Protocol'
    BY <1>2 DEF Protocol, Handshake, Serving
<1> QED
    BY <1>3, <1>4, <1>5, <1>6, PartsNext

\* The process is killed at a place where it may be.
LEMMA CrashInv ==
    ASSUME IndInv, Crash
    PROVE  IndInv'
<1>1. Typed /\ WorkerInv /\ Protocol
    BY Parts
<1>2. /\ sup' = NoSup /\ toSup' = <<>> /\ UNCHANGED <<receipt, workers, guard, toGuard>>
      /\ link' \in {"none", "open", "broken"}
    BY <1>1 DEF Crash, ProcessEnds, Typed
<1>3. env' \in Envs /\ env'.faults = env.faults /\ env'.places = env.places
      /\ env'.upgrades = env.upgrades
    <2> DEFINE c == env.crashes - 1
    <2>1. env \in Envs /\ env' = [env EXCEPT !.crashes = c]
        BY <1>1 DEF Crash, Typed
    <2>2. c \in Nat
        BY <1>1 DEF Crash, Typed, Envs
    <2> HIDE DEF c
    <2> QED
        BY <2>1, <2>2 DEF Envs
<1>4. Guarded' /\ receipt.phase \in Unfinished => guard.at = "ready" /\ toGuard = <<>>
    <2> SUFFICES ASSUME Guarded', receipt.phase \in Unfinished
                 PROVE  guard.at = "ready" /\ toGuard = <<>>
        OBVIOUS
    <2>1. Guarded
        BY <1>3 DEF Guarded
    <2>2. Handshake
        BY <1>1, <2>1 DEF Protocol
    <2>3. sup.at \in GuardedPlaces
        BY <2>1 DEF Crash, Guarded
    <2>4. sup.at \in {"asking", "recovered", "booted", "unready", "failing"}
        BY <2>2, <2>3 DEF Handshake, GuardedPlaces
    <2> QED
        BY <2>2, <2>4 DEF Handshake, Guard
<1>5. receipt.attempts > 0 => receipt.pid # NoPid
    BY <1>1 DEF WorkerInv, RecoveryAlone
<1>6. toSup' \in Seq(Answers)
    BY <1>2
<1> QED
    BY <1>1, <1>2, <1>3, <1>4, <1>5, <1>6, LostInv DEF Typed

\* A worker of a process that is gone exits.
LEMMA OrphanInv ==
    ASSUME IndInv, NEW w, OrphanExits(w)
    PROVE  IndInv'
<1>1. Typed /\ WorkerInv /\ ReceiptInv /\ Protocol
    BY Parts
<1>2. workers' \subseteq workers /\ UNCHANGED <<receipt, sup, guard, link, toGuard, toSup, env>>
    BY DEF OrphanExits, wire
<1>3. Typed'
    BY <1>1, <1>2 DEF Typed
<1>4. WorkerInv'
    BY <1>1, <1>2 DEF WorkerInv, PidIsUp, WorkersAreOwn, NoWorkerThere, RecoveryAlone, own
<1>5. ReceiptInv'
    BY <1>1, <1>2 DEF ReceiptInv, PhaseThere, ImageThere
<1>6. Protocol'
    BY <1>1, <1>2 DEF Protocol, Handshake, Guard, Opening, Recovers, Guarded
<1> QED
    BY <1>3, <1>4, <1>5, <1>6, PartsNext

\* A new process has a pid that no worker has and no receipt names.
LEMMA FreshOK ==
    ASSUME FreshPids # {}
    PROVE  FreshPid \in Pids /\ FreshPid # receipt.pid /\ \A w \in workers : w[1] # FreshPid
<1>1. FreshPid \in FreshPids
    BY DEF FreshPid
<1> QED
    BY <1>1 DEF FreshPids

\* A start reads the receipt: it asks the guard, or binds under a final one.
LEMMA StartInv ==
    ASSUME IndInv, Start
    PROVE  IndInv'
<1>1. Typed /\ WorkerInv /\ ReceiptInv /\ Protocol
    BY Parts
<1>2. UNCHANGED <<workers, guard, link, toGuard, toSup, env>> /\ sup.at = "down"
    BY DEF Start, wire
<1>3. FreshPid \in Pids /\ FreshPid # receipt.pid /\ \A w \in workers : w[1] # FreshPid
    BY FreshOK DEF Start
<1> HIDE DEF FreshPid
<1>4. FreshPid # NoPid
    BY <1>3, UpgradeAssumption
<1>5. ASSUME NEW at \in Starting, sup' \in Sups, sup'.at = at, sup'.pid = FreshPid,
             receipt' \in Receipts, Same(receipt')
      PROVE  Typed' /\ WorkerInv'
    <2>2. Typed'
        BY <1>1, <1>2, <1>5 DEF Typed, Same
    <2>3. at # "down"
        BY DEF Starting
    <2>4. WorkerInv'
        BY <1>1, <1>2, <1>3, <1>4, <1>5, <2>3
           DEF WorkerInv, PidIsUp, WorkersAreOwn, NoWorkerThere, RecoveryAlone, Same
    <2> QED
        BY <2>2, <2>4
<1>6. CASE /\ receipt.phase \in Unfinished
           /\ receipt.guard /\ guard.at \in {"announced", "ready"}
           /\ sup' = [NoSup EXCEPT !.at = "asking", !.pid = FreshPid]
           /\ UNCHANGED receipt
    <2>1. sup' \in Sups /\ sup'.at = "asking" /\ sup'.pid = FreshPid
        BY <1>3, <1>6 DEF NoSup, Sups, Places, Starting, Images
    <2>2. Typed' /\ WorkerInv' /\ sup'.at = "asking"
        BY <1>1, <1>5, <1>6, <2>1 DEF Typed, Same, Starting
    <2>3. ReceiptInv'
        BY <2>2 DEF ReceiptInv, PhaseThere, ImageThere, Handing
    <2>4. Protocol'
        BY <1>1, <1>2, <1>6, <2>2 DEF Protocol, Handshake, Guarded, Serving
    <2> QED
        BY <2>2, <2>3, <2>4, PartsNext
<1>7. CASE /\ receipt.phase \notin Unfinished /\ ~receipt.unproven
           /\ \E s \in IF receipt.phase \in {"prepared", "waiting"}
                      THEN Save(Phase("deferred"))
                      ELSE {[ok |-> TRUE, receipt |-> receipt]} :
               /\ receipt' = s.receipt
               /\ sup' = IF ~s.ok THEN sup
                         ELSE [NoSup EXCEPT !.at = "binding", !.pid = FreshPid,
                                 !.image = IF receipt.phase = "committed"
                                           THEN receipt.candidate ELSE receipt.previous]
    <2>1. PICK s \in IF receipt.phase \in {"prepared", "waiting"}
                     THEN Save(Phase("deferred"))
                     ELSE {[ok |-> TRUE, receipt |-> receipt]} :
               /\ receipt' = s.receipt
               /\ sup' = IF ~s.ok THEN sup
                         ELSE [NoSup EXCEPT !.at = "binding", !.pid = FreshPid,
                                 !.image = IF receipt.phase = "committed"
                                           THEN receipt.candidate ELSE receipt.previous]
        BY <1>7
    <2>2. /\ receipt' \in Receipts /\ Same(receipt')
          /\ receipt'.phase = receipt.phase \/ receipt'.phase = "deferred"
          /\ s.ok => receipt'.phase = IF receipt.phase \in {"prepared", "waiting"} THEN "deferred"
                                      ELSE receipt.phase
        <3>1. CASE receipt.phase \in {"prepared", "waiting"}
            <4>1. "deferred" \in Phases
                BY DEF Phases, Terminal
            <4> QED
                BY <1>1, <2>1, <3>1, <4>1, SavePhase
        <3>2. CASE receipt.phase \notin {"prepared", "waiting"}
            <4>1. s = [ok |-> TRUE, receipt |-> receipt]
                BY <2>1, <3>2
            <4> QED
                BY <1>1, <2>1, <3>2, <4>1 DEF Typed, Same
        <3> QED
            BY <3>1, <3>2
    <2>3. receipt'.phase \notin Unfinished
        BY <1>7, <2>2 DEF Unfinished
    <2>4. Protocol'
        BY <2>3, ProtocolFree
    <2>5. CASE ~s.ok
        <3>1. sup' = sup
            BY <2>1, <2>5
        <3>2. Typed'
            BY <1>1, <1>2, <2>2, <3>1 DEF Typed, Same
        <3>3. WorkerInv'
            BY <1>1, <1>2, <2>2, <3>1
               DEF WorkerInv, PidIsUp, WorkersAreOwn, NoWorkerThere, RecoveryAlone, own, Same
        <3>4. ReceiptInv'
            BY <1>2, <3>1 DEF ReceiptInv, PhaseThere, ImageThere, Handing
        <3> QED
            BY <2>4, <3>2, <3>3, <3>4, PartsNext
    <2>6. CASE s.ok
        <3> DEFINE i == IF receipt.phase = "committed" THEN receipt.candidate
                        ELSE receipt.previous
        <3>1. i \in Images /\ (receipt.phase = "committed" => i = receipt.candidate)
              /\ (receipt.phase # "committed" => i = receipt.previous)
            BY <1>1 DEF Typed, Receipts
        <3>2. sup' = [NoSup EXCEPT !.at = "binding", !.pid = FreshPid, !.image = i]
            BY <2>1, <2>6
        <3> HIDE DEF i
        <3>3. /\ sup' \in Sups /\ sup'.at = "binding" /\ sup'.pid = FreshPid
              /\ sup'.image = i
            BY <1>3, <3>1, <3>2 DEF NoSup, Sups, Places, Starting
        <3>7. Typed' /\ WorkerInv'
            BY <1>5, <2>2, <3>3 DEF Starting
        <3>4. receipt'.phase \in Terminal
            BY <1>1, <1>7, <2>2, <2>6 DEF Typed, Receipts, Phases, Terminal
        <3>5. receipt'.phase = "committed" <=> receipt.phase = "committed"
            BY <2>2, <2>6
        <3>6. ReceiptInv'
            BY <2>2, <3>1, <3>3, <3>4, <3>5 DEF ReceiptInv, PhaseThere, ImageThere, Handing, Same
        <3> QED
            BY <2>4, <3>6, <3>7, PartsNext
    <2> QED
        BY <2>5, <2>6
<1> QED
    BY <1>6, <1>7, Zenon DEF Start

\* A step of a process that goes on, and writes no other transaction.
LEMMA StepInv ==
    ASSUME IndInv, sup.at # "down", sup'.at # "down", sup' \in Sups, sup'.pid = sup.pid,
           receipt' \in Receipts, Same(receipt'), guard' \in Guards,
           link' \in {"none", "open", "broken"}, toGuard' \in Seq(Asks), toSup' \in Seq(Answers),
           env' = env,
           \/ /\ workers' = workers
              /\ sup'.image = sup.image \/ sup.at \in Workerless
              /\ sup'.at \in Workerless => sup.at \in Workerless
           \/ workers' = workers \cup {own} /\ sup'.image = sup.image /\ sup'.at \notin Workerless
           \/ workers' = workers \ {own} /\ sup'.image = sup.image,
           ReceiptInv', Protocol'
    PROVE  IndInv'
<1>1. Typed /\ WorkerInv
    BY Parts
<1>2. own \in Pids \X Images
    BY <1>1 DEF Typed, Sups, WorkerInv, PidIsUp, own
<1>3. workers' \subseteq Pids \X Images
    BY <1>1, <1>2 DEF Typed
<1>4. Typed'
    BY <1>1, <1>3 DEF Typed, Same
<1>5. WorkerInv'
    BY <1>1, WorkersKept, WorkersBooted, WorkersReaped DEF Same
<1> QED
    BY <1>4, <1>5, PartsNext

\* A step that leaves the guard and the wire alone.
LEMMA QuietStepInv ==
    ASSUME IndInv, sup.at # "down", sup'.at # "down", sup' \in Sups, sup'.pid = sup.pid,
           receipt' \in Receipts, Same(receipt'), UNCHANGED <<guard, wire, env>>,
           \/ /\ workers' = workers
              /\ sup'.image = sup.image \/ sup.at \in Workerless
              /\ sup'.at \in Workerless => sup.at \in Workerless
           \/ workers' = workers \cup {own} /\ sup'.image = sup.image /\ sup'.at \notin Workerless
           \/ workers' = workers \ {own} /\ sup'.image = sup.image,
           ReceiptInv', Protocol'
    PROVE  IndInv'
<1>1. /\ guard' \in Guards /\ link' \in {"none", "open", "broken"} /\ toGuard' \in Seq(Asks)
      /\ toSup' \in Seq(Answers) /\ env' = env
    BY Parts DEF Typed, wire
<1> QED
    BY <1>1, StepInv

\* An unchanged receipt is the same.
LEMMA SameKept ==
    ASSUME IndInv, UNCHANGED receipt
    PROVE  receipt' \in Receipts /\ Same(receipt')
BY Parts DEF Typed, Same

\* The process binds under a final receipt and boots its worker, or ends.
LEMMA BindInv ==
    ASSUME IndInv, Bind
    PROVE  IndInv'
<1>1. Typed /\ WorkerInv /\ ReceiptInv /\ Protocol
    BY Parts
<1>2. sup.at = "binding" /\ UNCHANGED <<receipt, guard, env>> /\ receipt.phase \notin Unfinished
    BY <1>1 DEF Bind, ReceiptInv, PhaseThere, Terminal, Unfinished
<1>3. CASE guard.at # "none"
    <2>1. /\ sup' = NoSup /\ toSup' = <<>> /\ UNCHANGED <<workers, toGuard>>
          /\ link' \in {"none", "open", "broken"}
        BY <1>1, <1>3 DEF Bind, ProcessEnds, Typed
    <2>2. receipt.attempts > 0 => receipt.pid # NoPid
        BY <1>1 DEF WorkerInv, RecoveryAlone
    <2>3. toSup' \in Seq(Answers)
        BY <2>1
    <2> QED
        BY <1>1, <1>2, <2>1, <2>2, <2>3, LostInv DEF Typed
<1>4. CASE guard.at = "none"
    <2>1. /\ sup' = [sup EXCEPT !.at = "serving"] /\ UNCHANGED wire
          /\ workers' = workers \cup {own} \/ workers' = workers
        BY <1>4 DEF Bind
    <2>2. "serving" \in Places /\ "serving" \notin Workerless
        BY DEF Places, Serving, Workerless, Starting
    <2>3. /\ sup' \in Sups /\ sup'.at = "serving" /\ sup'.pid = sup.pid
          /\ sup'.image = sup.image
        BY <1>1, <2>1, <2>2, SupAt
    <2>4. ReceiptInv'
        BY <1>1, <1>2, <2>3 DEF ReceiptInv, PhaseThere, ImageThere, Handing
    <2>5. Protocol'
        BY <1>2, ProtocolFree
    <2> QED
        BY <1>2, <2>1, <2>2, <2>3, <2>4, <2>5, SameKept, QuietStepInv
<1> QED
    BY <1>3, <1>4

\* The guard hands the listener to a process beside which there is no worker.
LEMMA RecoveryInv ==
    ASSUME IndInv, serveRuntimeUpgradeRecovery
    PROVE  IndInv'
<1> DEFINE new == [Phase("rolling_back") EXCEPT !.attempts = @ + 1, !.pid = sup.pid]
<1>1. Typed /\ WorkerInv /\ ReceiptInv /\ Protocol
    BY Parts
<1>2. /\ sup.at = "asking" /\ receipt.attempts < RecoveryLimit
      /\ workers = {} /\ UNCHANGED <<workers, env>> /\ sup.pid # NoPid
    BY <1>1 DEF serveRuntimeUpgradeRecovery, WorkerInv, PidIsUp
<1>3. /\ new \in Receipts /\ new.phase = "rolling_back" /\ new.gen = receipt.gen
      /\ new.pid = sup.pid /\ new.previous = receipt.previous
      /\ new.candidate = receipt.candidate
    <2> DEFINE n == receipt.attempts + 1
    <2>1. n \in 0..RecoveryLimit
        BY <1>1, <1>2 DEF Typed, Receipts, RecoveryLimit
    <2>2. "rolling_back" \in Phases
        BY DEF Phases, Unfinished
    <2>3. new = [receipt EXCEPT !.phase = "rolling_back", !.attempts = n, !.pid = sup.pid]
        BY <1>1 DEF Phase, Typed, Receipts
    <2> HIDE DEF n
    <2> QED
        BY <1>1, <2>1, <2>2, <2>3 DEF Typed, Receipts, Sups
<1>4. PICK s \in Save(new) :
         /\ receipt' = s.receipt
         /\ \/ /\ s.ok /\ guard.at = "ready"
               /\ sup' = [sup EXCEPT !.at = "recovered"]
               /\ guard' = [guard EXCEPT !.recovery = TRUE, !.verified = FALSE]
               /\ link' = "open" /\ toGuard' = <<>> /\ toSup' = <<"recover">>
            \/ /\ s.ok /\ (guard.at = "announced" \/ toGuard # <<>>)
               /\ sup' = [sup EXCEPT !.at = "recovered"]
               /\ GuardEnds /\ toSup' = <<>>
            \/ /\ ~s.ok
               /\ sup' = NoSup /\ UNCHANGED <<guard, wire>>
    BY DEF serveRuntimeUpgradeRecovery
<1> HIDE DEF new
<1>5. /\ s.ok \in BOOLEAN /\ (s.receipt = receipt \/ s.receipt = new)
      /\ s.ok => s.receipt = new
    BY SaveOK
\* Where the environment only kills guarded processes, the guard is in its loop.
<1>8. Guarded' /\ receipt'.phase \in Unfinished => guard.at = "ready" /\ toGuard = <<>>
    <2>1. receipt.phase \in Unfinished \/ receipt.phase \in {"prepared", "waiting"}
        BY <1>1 DEF serveRuntimeUpgradeRecovery, Typed, Receipts, Phases
    <2>2. CASE receipt' = receipt
        BY <1>1, <1>2, <2>2 DEF Protocol, Handshake, Guarded
    <2>3. CASE receipt' = new /\ receipt' # receipt
        <3>1. Follows(receipt, new)
            BY <1>4, <2>3, SaveOK
        <3>2. receipt.phase # "waiting" /\ receipt.phase # "prepared"
            BY <1>3, <3>1 DEF Follows, validRuntimeUpgradeTransition, Terminal
        <3> QED
            BY <1>1, <1>2, <2>1, <3>2 DEF Protocol, Handshake, Guarded
    <2> QED
        BY <1>4, <1>5, <2>2, <2>3
<1>6. CASE ~s.ok
    <2>1. sup' = NoSup /\ UNCHANGED <<guard, link, toGuard, toSup>>
        BY <1>4, <1>6 DEF wire
    <2>2. receipt' \in Receipts /\ receipt'.gen = receipt.gen
        BY <1>1, <1>3, <1>4, <1>5 DEF Typed
    <2>3. receipt'.attempts > 0 => receipt'.pid # NoPid
        BY <1>1, <1>2, <1>3, <1>4, <1>5 DEF WorkerInv, RecoveryAlone
    <2> QED
        BY <1>1, <1>2, <1>8, <2>1, <2>2, <2>3, LostInv DEF Typed
<1>7. CASE s.ok
    <2>1. /\ sup' = [sup EXCEPT !.at = "recovered"] /\ receipt' = new
          /\ \/ /\ guard.at = "ready"
                /\ guard' = [guard EXCEPT !.recovery = TRUE, !.verified = FALSE]
                /\ link' = "open" /\ toGuard' = <<>> /\ toSup' = <<"recover">>
             \/ /\ guard.at = "announced" \/ toGuard # <<>>
                /\ guard' = NoGuard /\ link' = "none" /\ toGuard' = <<>> /\ toSup' = <<>>
        BY <1>4, <1>5, <1>7 DEF GuardEnds
    <2>2. "recovered" \in Places
        BY DEF Places, Starting
    <2>3. sup' \in Sups /\ sup'.at = "recovered" /\ sup'.pid = sup.pid
        BY <1>1, <2>1, <2>2, SupAt
    <2>4. /\ guard' \in Guards
          /\ \/ guard'.at = "ready" /\ guard'.recovery = TRUE
             \/ guard.at = "announced" \/ toGuard # <<>>
        <3>1. guard \in Guards /\ NoGuard \in Guards
            BY <1>1 DEF Typed, Guards, NoGuard
        <3>2. CASE /\ guard.at = "ready"
                   /\ guard' = [guard EXCEPT !.recovery = TRUE, !.verified = FALSE]
            BY <3>1, <3>2 DEF Guards
        <3> QED
            BY <2>1, <3>1, <3>2
    <2>5. /\ toGuard' \in Seq(Asks) /\ toSup' \in Seq(Answers)
          /\ link' \in {"none", "open", "broken"}
        <3>1. <<>> \in Seq(Asks) /\ <<>> \in Seq(Answers) /\ <<"recover">> \in Seq(Answers)
            BY DEF Answers
        <3>2. /\ toGuard' = <<>> /\ toSup' \in {<<>>, <<"recover">>}
              /\ link' \in {"none", "open"}
            BY <2>1
        <3> QED
            BY <3>1, <3>2
    <2>6. Typed'
        BY <1>1, <1>2, <1>3, <2>1, <2>3, <2>4, <2>5 DEF Typed
    <2>7. WorkerInv'
        BY <1>2, <1>3, <2>1, <2>3
           DEF WorkerInv, PidIsUp, WorkersAreOwn, NoWorkerThere, RecoveryAlone
    <2>8. ReceiptInv'
        BY <2>3 DEF ReceiptInv, PhaseThere, ImageThere, Handing
    <2>9. Protocol'
        BY <1>3, <1>8, <2>1, <2>3, <2>4 DEF Protocol, Handshake, Guard, Recovers, Serving
    <2> QED
        BY <2>6, <2>7, <2>8, <2>9, PartsNext
<1> QED
    BY <1>5, <1>6, <1>7

\* A start that the guard refuses ends; the guard is still there.
LEMMA RefusedInv ==
    ASSUME IndInv, RecoveryRefused
    PROVE  IndInv'
<1>1. Typed /\ WorkerInv /\ Protocol
    BY Parts
<1>2. /\ sup.at = "asking" /\ sup' = NoSup
      /\ UNCHANGED <<receipt, workers, guard, link, toGuard, toSup, env>>
    BY DEF RecoveryRefused, wire
<1>3. receipt.attempts > 0 => receipt.pid # NoPid
    BY <1>1 DEF WorkerInv, RecoveryAlone
<1>4. Guarded' /\ receipt'.phase \in Unfinished => guard.at = "ready" /\ toGuard = <<>>
    BY <1>1, <1>2 DEF Protocol, Handshake, Guarded
<1> QED
    BY <1>1, <1>2, <1>3, <1>4, LostInv DEF Typed

\* The recovered process replaces its image by the previous one.
LEMMA RecoveredExecInv ==
    ASSUME IndInv, RecoveredExec
    PROVE  IndInv'
<1>1. Typed /\ WorkerInv /\ ReceiptInv /\ Protocol
    BY Parts
<1>2. sup.at = "recovered" /\ UNCHANGED <<receipt, workers, guard, wire, env>>
    BY DEF RecoveredExec
<1>3. "resuming" \in Places /\ "recovered" \in Workerless
    BY DEF Places, Resumed, Workerless, Starting
<1>4. sup' \in Sups /\ sup'.at = "resuming" /\ sup'.pid = sup.pid
    BY <1>1, <1>3 DEF RecoveredExec, Typed, Sups, Receipts
<1>5. ReceiptInv'
    BY <1>4 DEF ReceiptInv, PhaseThere, ImageThere, Handing
<1>6. Protocol'
    <2>1. Guarded /\ receipt.phase \in Unfinished =>
            link = "open" /\ Guard("ready", <<>>, <<"recover">>) /\ Recovers
        BY <1>1, <1>2 DEF Protocol, Handshake
    <2> QED
        BY <1>2, <1>4, <2>1 DEF Protocol, Handshake, Guard, Recovers, Guarded, Serving, wire
<1> QED
    BY <1>2, <1>3, <1>4, <1>5, <1>6, SameKept, QuietStepInv

-----------------------------------------------------------------------------
(* The predecessor, until its image is replaced.                           *)

\* A transaction begins with the image that serves as the previous one.
LEMMA BeginInv ==
    ASSUME IndInv, Begin
    PROVE  IndInv'
<1> DEFINE other == CHOOSE i \in Images : i # sup.image
           new == [NoReceipt EXCEPT !.phase = "prepared", !.gen = receipt.gen + 1,
                        !.previous = sup.image, !.candidate = other, !.pid = sup.pid]
<1>1. Typed /\ WorkerInv /\ ReceiptInv /\ Protocol
    BY Parts
<1>2. /\ sup.at = "serving" /\ receipt.phase \in Terminal /\ receipt.gen < env.upgrades
      /\ UNCHANGED <<workers, guard, link, toGuard, toSup, env>>
    BY DEF Begin, wire
<1>3. other \in Images
    BY UpgradeAssumption DEF Images
<1> HIDE DEF other
<1>4. /\ new \in Receipts /\ new.phase = "prepared" /\ new.gen <= env.upgrades
      /\ new.previous = sup.image /\ new.attempts = 0
    <2> DEFINE n == receipt.gen + 1
    <2>1. n \in Nat /\ n <= env.upgrades
        BY <1>1, <1>2 DEF Typed, Receipts, Envs
    <2> HIDE DEF n
    <2>2. NoReceipt \in Receipts /\ NoReceipt.attempts = 0
        BY DEF NoReceipt, Receipts, Phases, Terminal, Images, RecoveryLimit
    <2>3. "prepared" \in Phases
        BY DEF Phases
    <2>4. new = [NoReceipt EXCEPT !.phase = "prepared", !.gen = n, !.previous = sup.image,
                                  !.candidate = other, !.pid = sup.pid]
        BY DEF n
    <2> QED
        BY <1>1, <1>3, <2>1, <2>2, <2>3, <2>4 DEF Typed, Receipts, Sups
<1>5. PICK s \in Save(new) :
         receipt' = s.receipt /\ sup' = IF s.ok THEN [sup EXCEPT !.at = "begun"] ELSE sup
    BY DEF Begin, other
<1> HIDE DEF new
<1>6. /\ s.ok \in BOOLEAN /\ (receipt' = receipt \/ receipt' = new)
      /\ s.ok => receipt' = new
    BY <1>5, SaveOK
<1>7. /\ sup' \in Sups /\ sup'.pid = sup.pid /\ sup'.image = sup.image
      /\ sup'.at = IF s.ok THEN "begun" ELSE "serving"
    <2>1. "begun" \in Places
        BY DEF Places, Serving
    <2> QED
        BY <1>1, <1>2, <1>5, <1>6, <2>1, SupAt DEF Typed
<1>8. Typed'
    BY <1>1, <1>2, <1>4, <1>6, <1>7 DEF Typed
<1>9. WorkerInv'
    <2>1. "begun" \notin Workerless /\ "serving" \notin Workerless
        BY DEF Workerless, Starting
    <2>2. PidIsUp' /\ WorkersAreOwn' /\ NoWorkerThere'
        BY <1>1, <1>2, <1>7, <2>1 DEF WorkerInv, PidIsUp, WorkersAreOwn, NoWorkerThere, own
    <2>3. RecoveryAlone'
        BY <1>1, <1>2, <1>4, <1>6, <1>7 DEF WorkerInv, RecoveryAlone, own
    <2> QED
        BY <2>2, <2>3 DEF WorkerInv
<1>10. ReceiptInv'
    BY <1>1, <1>2, <1>4, <1>6, <1>7 DEF ReceiptInv, PhaseThere, ImageThere, Handing
<1>11. Protocol'
    BY <1>2, <1>4, <1>6, ProtocolFree DEF Terminal, Unfinished
<1> QED
    BY <1>8, <1>9, <1>10, <1>11, PartsNext

\* The drain ends with the handoff on disk, or the supervisor serves on.
LEMMA DrainInv ==
    ASSUME IndInv, Drain
    PROVE  IndInv'
<1>1. Typed /\ WorkerInv /\ ReceiptInv /\ Protocol
    BY Parts
<1>2. UNCHANGED <<workers, guard, wire, env>> /\ sup.at \in {"begun", "waiting"}
    BY DEF Drain
<1>3. sup.image = receipt.previous
    BY <1>1, <1>2 DEF ReceiptInv, ImageThere
<1>4. PICK p \in {"waiting", "deferred", "handoff"} : \E s \in Save(Phase(p)) :
        /\ receipt' = s.receipt
        /\ \/ sup' = [sup EXCEPT !.at = "serving"]
           \/ s.ok /\ p = "waiting" /\ sup' = [sup EXCEPT !.at = "waiting"]
           \/ s.ok /\ p = "handoff" /\ sup' = [sup EXCEPT !.at = "handoff"]
        /\ sup'.at = "serving" => p = "deferred" \/ ~s.ok
        /\ p = "handoff" => sup.at = "waiting"
    <2>1. sup \in Sups
        BY <1>1 DEF Typed
    <2> QED
        BY <2>1 DEF Drain, Sups
<1>5. PICK s \in Save(Phase(p)) :
        /\ receipt' = s.receipt
        /\ \/ sup' = [sup EXCEPT !.at = "serving"]
           \/ s.ok /\ p = "waiting" /\ sup' = [sup EXCEPT !.at = "waiting"]
           \/ s.ok /\ p = "handoff" /\ sup' = [sup EXCEPT !.at = "handoff"]
        /\ sup'.at = "serving" => p = "deferred" \/ ~s.ok
        /\ p = "handoff" => sup.at = "waiting"
    BY <1>4
<1>6. {"serving", "waiting", "handoff"} \subseteq Places
      /\ {"serving", "waiting", "handoff"} \cap Workerless = {}
    BY DEF Places, Serving, Handing, Workerless, Starting
<1>7. /\ sup' \in Sups /\ sup'.pid = sup.pid /\ sup'.image = sup.image
      /\ sup'.at \in {"serving", "waiting", "handoff"}
      /\ sup'.at # "serving" => s.ok /\ p = sup'.at
    BY <1>1, <1>5, <1>6, SupAt
<1>8. p \in Phases
    BY DEF Phases, Unfinished, Terminal
<1>9. /\ receipt' \in Receipts /\ Same(receipt')
      /\ receipt'.phase = receipt.phase \/ receipt'.phase = p
      /\ s.ok => receipt'.phase = p
    BY <1>1, <1>5, <1>8, SavePhase
<1>10. receipt.phase \in {"prepared", "waiting"} /\ (sup.at = "waiting" => receipt.phase = "waiting")
    BY <1>1, <1>2 DEF ReceiptInv, PhaseThere
<1>11. ReceiptInv'
    BY <1>3, <1>7, <1>9, <1>10 DEF ReceiptInv, PhaseThere, ImageThere, Handing, Same
<1>12. Protocol'
    <2>1. CASE sup'.at = "handoff"
        BY <2>1, ProtocolFree
    <2>2. CASE sup'.at # "handoff" /\ receipt'.phase \notin Unfinished
        BY <2>2, ProtocolFree
    <2>3. CASE sup'.at # "handoff" /\ receipt'.phase \in Unfinished
        <3>1. p = "handoff" /\ sup.at = "waiting" /\ receipt'.phase = "handoff" /\ ~s.ok
            BY <1>5, <1>7, <1>9, <1>10, <2>3 DEF Unfinished
        <3>2. Follows(receipt, Phase(p))
            BY <1>1, <1>8, <1>10, <3>1, PhaseFollows DEF validRuntimeUpgradeTransition
        <3>3. "save" \in env.faults
            BY <3>1, <3>2, SaveOK
        <3>4. ~Guarded'
            BY <1>2, <3>3 DEF Guarded
        <3> QED
            BY <3>4 DEF Protocol
    <2> QED
        BY <2>1, <2>2, <2>3
<1>13. sup.at # "down" /\ sup'.at # "down" /\ sup'.at \notin Workerless
    BY <1>2, <1>6, <1>7
<1> QED
    BY <1>2, <1>7, <1>9, <1>11, <1>12, <1>13, QuietStepInv

\* The worker is reaped, or its release is not proven and the transaction fails.
LEMMA ReapWorkerInv ==
    ASSUME IndInv, ReapWorker
    PROVE  IndInv'
<1>1. Typed /\ WorkerInv /\ ReceiptInv /\ Protocol
    BY Parts
<1>2. /\ UNCHANGED <<guard, wire, env>> /\ sup.at = "handoff" /\ receipt.phase = "handoff"
      /\ sup.image = receipt.previous
    BY <1>1 DEF ReapWorker, ReceiptInv, PhaseThere, ImageThere, Handing
<1>3. "released" \in Places /\ "serving" \in Places /\ "serving" \notin Workerless
    BY DEF Places, Serving, Handing, Workerless, Starting
<1>4. CASE /\ sup' = [sup EXCEPT !.at = "released"] /\ workers' = workers \ {own}
           /\ UNCHANGED receipt
    <2>1. /\ sup' \in Sups /\ sup'.at = "released" /\ sup'.pid = sup.pid
          /\ sup'.image = sup.image
        BY <1>1, <1>3, <1>4, SupAt
    <2>2. ReceiptInv'
        BY <1>2, <1>4, <2>1 DEF ReceiptInv, PhaseThere, ImageThere, Handing
    <2>3. Protocol'
        BY <2>1, ProtocolFree
    <2> QED
        BY <1>2, <1>4, <2>1, <2>2, <2>3, SameKept, QuietStepInv
<1>5. CASE /\ sup' = [sup EXCEPT !.at = "serving"]
           /\ receipt' \in {Phase("failed")} \cup
                (IF "save" \in env.faults THEN {receipt, Phase("rolling_back")} ELSE {})
           /\ UNCHANGED workers
    <2>1. /\ sup' \in Sups /\ sup'.at = "serving" /\ sup'.pid = sup.pid
          /\ sup'.image = sup.image
        BY <1>1, <1>3, <1>5, SupAt
    <2>2. {"failed", "rolling_back"} \subseteq Phases
        BY DEF Phases, Unfinished, Terminal
    <2>3. /\ receipt' \in Receipts /\ Same(receipt')
          /\ receipt'.phase \in {"failed", "handoff", "rolling_back"}
        BY <1>1, <1>2, <1>5, <2>2, PhaseOK DEF Typed, Same
    <2>4. ReceiptInv'
        BY <1>2, <2>1, <2>3 DEF ReceiptInv, PhaseThere, ImageThere, Handing, Same
    <2>5. Protocol'
        <3>1. CASE "save" \in env.faults
            BY <1>2, <3>1 DEF Protocol, Guarded
        <3>2. CASE "save" \notin env.faults
            <4>1. receipt'.phase = "failed"
                BY <1>1, <1>5, <2>2, <3>2, PhaseOK
            <4> QED
                BY <4>1, ProtocolFree DEF Unfinished
        <3> QED
            BY <3>1, <3>2
    <2> QED
        BY <1>2, <1>3, <1>5, <2>1, <2>3, <2>4, <2>5, QuietStepInv
<1> QED
    BY <1>4, <1>5 DEF ReapWorker

\* A guard is started on a new control socket.
LEMMA StartGuardInv ==
    ASSUME IndInv, StartGuard
    PROVE  IndInv'
<1>1. Typed /\ WorkerInv /\ ReceiptInv
    BY Parts
<1>2. /\ sup.at = "released" /\ sup' = [sup EXCEPT !.at = "started"]
      /\ guard' = [NoGuard EXCEPT !.at = "started"]
      /\ link' = "open" /\ toGuard' = <<>> /\ toSup' = <<>>
      /\ UNCHANGED <<receipt, workers, env>>
    BY DEF StartGuard
<1>3. "started" \in Places /\ "released" \in Workerless
    BY DEF Places, Handing, Workerless
<1>4. /\ sup' \in Sups /\ sup'.at = "started" /\ sup'.pid = sup.pid
      /\ sup'.image = sup.image
    BY <1>1, <1>2, <1>3, SupAt
<1>5. guard' \in Guards /\ guard'.at = "started" /\ guard'.recovery = FALSE
    BY <1>2 DEF NoGuard, Guards
<1>6. ReceiptInv'
    BY <1>1, <1>2, <1>4 DEF ReceiptInv, PhaseThere, ImageThere, Handing
<1>7. Protocol'
    BY <1>2, <1>4, <1>5 DEF Protocol, Handshake, Guard, Serving
<1> QED
    BY <1>2, <1>3, <1>4, <1>5, <1>6, <1>7, SameKept, StepInv

\* The guard is recorded, or the handoff is over.
LEMMA RecordGuardInv ==
    ASSUME IndInv, RecordGuard
    PROVE  IndInv'
<1> DEFINE new == [receipt EXCEPT !.guard = TRUE]
<1>1. Typed /\ WorkerInv /\ ReceiptInv /\ Protocol
    BY Parts
<1>2. /\ sup.at = "started" /\ UNCHANGED <<workers, toGuard, toSup, env>>
      /\ receipt.phase = "handoff"
    BY <1>1 DEF RecordGuard, ReceiptInv, PhaseThere, Handing
<1>3. PICK s \in Save(new) :
         /\ receipt' = s.receipt
         /\ sup' = [sup EXCEPT !.at = IF s.ok THEN "guarded" ELSE "rollback"]
         /\ guard' = IF s.ok THEN guard ELSE NoGuard
         /\ link' = IF s.ok THEN link ELSE "none"
    BY DEF RecordGuard
<1>4. new \in Receipts /\ Same(new) /\ new.phase = "handoff"
    BY <1>1, <1>2 DEF Typed, Receipts, Same
<1> HIDE DEF new
<1>5. s.ok \in BOOLEAN /\ (receipt' = receipt \/ receipt' = new)
    BY <1>3, SaveOK
<1>6. receipt' \in Receipts /\ Same(receipt') /\ receipt'.phase = "handoff"
    BY <1>1, <1>2, <1>4, <1>5 DEF Typed, Same
<1>7. {"guarded", "rollback"} \subseteq Places /\ "started" \in Workerless
    BY DEF Places, Handing, Workerless
<1>8. /\ sup' \in Sups /\ sup'.at = (IF s.ok THEN "guarded" ELSE "rollback")
      /\ sup'.pid = sup.pid /\ sup'.image = sup.image
    BY <1>1, <1>3, <1>7, SupAt
<1>9. guard' \in Guards /\ link' \in {"none", "open", "broken"}
    BY <1>1, <1>3 DEF Typed, NoGuard, Guards
<1>10. ReceiptInv'
    BY <1>1, <1>2, <1>6, <1>8 DEF ReceiptInv, PhaseThere, ImageThere, Handing, Same
<1>11. Protocol'
    <2>1. CASE s.ok
        <3>1. Guarded => link = "open" /\ Guard("started", <<>>, <<>>) /\ ~guard.recovery
            BY <1>1, <1>2 DEF Protocol, Handshake, Unfinished
        <3>2. sup'.at = "guarded" /\ UNCHANGED <<guard, link>>
            BY <1>3, <1>8, <2>1
        <3> QED
            BY <1>2, <3>1, <3>2 DEF Protocol, Handshake, Guard, Serving, Guarded
    <2>2. CASE ~s.ok
        BY <1>8, <2>2, ProtocolFree
    <2> QED
        BY <2>1, <2>2
<1> QED
    BY <1>1, <1>2, <1>6, <1>7, <1>8, <1>9, <1>10, <1>11, StepInv DEF Typed

\* The guard's answer is read.
LEMMA GuardIsReadyInv ==
    ASSUME IndInv, GuardIsReady
    PROVE  IndInv'
<1>1. Typed /\ WorkerInv /\ ReceiptInv /\ Protocol
    BY Parts
<1>2. /\ sup.at = "guarded" /\ sup' = [sup EXCEPT !.at = "prepared"]
      /\ toSup # <<>> /\ Head(toSup) = "guard_ready" /\ toSup' = Tail(toSup)
      /\ UNCHANGED <<receipt, workers, guard, link, toGuard, env>>
    BY DEF GuardIsReady
<1>3. "prepared" \in Places /\ "guarded" \in Workerless
    BY DEF Places, Handing, Workerless
<1>4. /\ sup' \in Sups /\ sup'.at = "prepared" /\ sup'.pid = sup.pid
      /\ sup'.image = sup.image
    BY <1>1, <1>2, <1>3, SupAt
<1>5. toSup' \in Seq(Answers)
    BY <1>1, <1>2, Streams DEF Typed
<1>6. ReceiptInv'
    BY <1>1, <1>2, <1>4 DEF ReceiptInv, PhaseThere, ImageThere, Handing
<1>7. Protocol'
    <2> SUFFICES ASSUME Guarded, receipt.phase \in Unfinished
                 PROVE  Handshake'
        BY <1>2 DEF Protocol, Guarded
    <2>1. /\ link = "open" /\ ~guard.recovery /\ toGuard = <<>>
          /\ \/ guard.at = "announced" /\ toSup = <<"guard_ready">>
             \/ guard.at = "ready" /\ toSup = <<"guard_ready", "resume">>
        BY <1>1, <1>2 DEF Protocol, Handshake, Guard
    <2>2. \/ guard.at = "announced" /\ toSup' = <<>>
          \/ guard.at = "ready" /\ toSup' = <<"resume">>
        <3>1. CASE guard.at = "announced" /\ toSup = <<"guard_ready">>
            BY <1>2, <3>1, FramesRead, Zenon
        <3>2. CASE guard.at = "ready" /\ toSup = <<"guard_ready", "resume">>
            BY <1>2, <3>2, FramesRead, Zenon
        <3> QED
            BY <2>1, <3>1, <3>2
    <2> QED
        BY <1>2, <1>4, <2>1, <2>2 DEF Handshake, Opening, Guard, Serving
<1> QED
    BY <1>1, <1>2, <1>3, <1>4, <1>5, <1>6, <1>7, SameKept, StepInv DEF Typed

\* The image is replaced by the candidate's, which has no worker yet.
LEMMA ExecInv ==
    ASSUME IndInv, Exec
    PROVE  IndInv'
<1>1. Typed /\ WorkerInv /\ ReceiptInv /\ Protocol
    BY Parts
<1>2. sup.at = "prepared" /\ UNCHANGED <<receipt, workers, guard, wire, env>>
    BY DEF Exec
<1>3. "resuming" \in Places /\ "prepared" \in Workerless
    BY DEF Places, Resumed, Workerless
<1>4. sup' \in Sups /\ sup'.at = "resuming" /\ sup'.pid = sup.pid
    BY <1>1, <1>3 DEF Exec, Typed, Sups, Receipts
<1>5. ReceiptInv'
    BY <1>4 DEF ReceiptInv, PhaseThere, ImageThere, Handing
<1>6. receipt.phase = "handoff"
    BY <1>1, <1>2 DEF ReceiptInv, PhaseThere, Handing
<1>7. Protocol'
    <2>1. Guarded /\ receipt.phase \in Unfinished =>
            link = "open" /\ Opening /\ ~guard.recovery
        BY <1>1, <1>2 DEF Protocol, Handshake
    <2> QED
        BY <1>2, <1>4, <1>6, <2>1 DEF Protocol, Handshake, Guard, Opening, Guarded, Serving, wire
<1> QED
    BY <1>2, <1>3, <1>4, <1>5, <1>7, SameKept, QuietStepInv

\* The handoff fails before the image is replaced.
LEMMA HandoffFailsInv ==
    ASSUME IndInv, HandoffFails
    PROVE  IndInv'
<1>1. Typed /\ WorkerInv /\ ReceiptInv
    BY Parts
<1>2. /\ sup.at \in {"released", "started", "guarded", "prepared"}
      /\ sup' = [sup EXCEPT !.at = "rollback"] /\ UNCHANGED <<receipt, workers, env>>
    BY DEF HandoffFails
<1>3. "rollback" \in Places /\ sup.at \in Workerless
    BY <1>2 DEF Places, Handing, Workerless
<1>4. /\ sup' \in Sups /\ sup'.at = "rollback" /\ sup'.pid = sup.pid
      /\ sup'.image = sup.image
    BY <1>1, <1>2, <1>3, SupAt
<1>5. /\ guard' \in Guards /\ link' \in {"none", "open", "broken"} /\ toGuard' \in Seq(Asks)
      /\ toSup' \in Seq(Answers)
    <2>1. CASE sup.at = "released"
        BY <1>1, <2>1 DEF HandoffFails, Typed, wire
    <2>2. CASE sup.at # "released"
        <3>1. guard' = NoGuard /\ link' = "none" /\ toGuard' = <<>> /\ toSup' = <<>>
            BY <2>2 DEF HandoffFails
        <3>2. NoGuard \in Guards
            BY DEF NoGuard, Guards
        <3> QED
            BY <3>1, <3>2
    <2> QED
        BY <2>1, <2>2
<1>6. ReceiptInv'
    BY <1>1, <1>2, <1>4 DEF ReceiptInv, PhaseThere, ImageThere, Handing
<1>7. Protocol'
    BY <1>4, ProtocolFree
<1> QED
    BY <1>2, <1>3, <1>4, <1>5, <1>6, <1>7, SameKept, StepInv

\* The predecessor records the rollback, then serves again.
LEMMA RollbackInv ==
    ASSUME IndInv, Rollback
    PROVE  IndInv'
<1>1. Typed /\ WorkerInv /\ ReceiptInv
    BY Parts
<1>2. /\ sup.at = "rollback" /\ UNCHANGED <<guard, wire, env>>
      /\ receipt.phase \in {"handoff", "rolling_back"} /\ sup.image = receipt.previous
    BY <1>1 DEF Rollback, ReceiptInv, PhaseThere, ImageThere, Handing
<1>3. /\ {"rollback", "serving"} \subseteq Places /\ "serving" \notin Workerless
      /\ "rollback" \in Workerless
    BY DEF Places, Handing, Serving, Workerless, Starting
<1>4. {"rolling_back", "rolled_back", "failed"} \subseteq Phases
    BY DEF Phases, Unfinished, Terminal
<1>5. ASSUME NEW p \in {"rolling_back", "rolled_back", "failed"}, NEW s \in Save(Phase(p)),
             NEW at \in {"rollback", "serving"}, receipt' = s.receipt,
             sup' = [sup EXCEPT !.at = at],
             \/ workers' = workers
             \/ workers' = workers \cup {own} /\ at = "serving",
             p = "rolling_back" => receipt.phase = "handoff" /\ (s.ok => at = "rollback"),
             p # "rolling_back" => receipt.phase = "rolling_back" /\ at = "serving",
             at = "rollback" => s.ok /\ p = "rolling_back"
      PROVE  IndInv'
    <2>1. sup' \in Sups /\ sup'.at = at /\ sup'.pid = sup.pid /\ sup'.image = sup.image
        BY <1>1, <1>3, <1>5, SupAt
    <2>2. /\ receipt' \in Receipts /\ Same(receipt')
          /\ receipt'.phase = receipt.phase \/ receipt'.phase = p
          /\ s.ok => receipt'.phase = p
        BY <1>1, <1>4, <1>5, SavePhase
    <2>3. ReceiptInv'
        BY <1>2, <1>5, <2>1, <2>2 DEF ReceiptInv, PhaseThere, ImageThere, Handing, Same
    <2>4. Protocol'
        <3>1. CASE at = "rollback"
            BY <2>1, <3>1, ProtocolFree
        <3>2. CASE at = "serving" /\ receipt'.phase \notin Unfinished
            BY <3>2, ProtocolFree
        <3>3. CASE at = "serving" /\ receipt'.phase \in Unfinished
            <4>1. ~s.ok
                BY <1>5, <2>2, <3>3 DEF Unfinished
            <4>2. Follows(receipt, Phase(p))
                <5>1. <<receipt.phase, p>> \in validRuntimeUpgradeTransition
                    BY <1>5 DEF validRuntimeUpgradeTransition
                <5> QED
                    BY <1>1, <1>4, <5>1, PhaseFollows
            <4>3. "save" \in env.faults
                BY <4>1, <4>2, SaveOK
            <4> QED
                BY <1>2, <4>3 DEF Protocol, Guarded
        <3> QED
            BY <3>1, <3>2, <3>3
    <2> QED
        BY <1>2, <1>3, <1>5, <2>1, <2>2, <2>3, <2>4, QuietStepInv
<1>6. CASE receipt.phase # "rolling_back"
    <2>1. PICK s \in Save(Phase("rolling_back")) :
            receipt' = s.receipt /\ sup' = [sup EXCEPT !.at = IF s.ok THEN @ ELSE "serving"]
        BY <1>6 DEF Rollback
    <2>2. workers' = workers
        BY <1>6 DEF Rollback
    <2>3. sup' = [sup EXCEPT !.at = IF s.ok THEN "rollback" ELSE "serving"]
        BY <1>1, <1>2, <2>1 DEF Typed, Sups
    <2> QED
        BY <1>2, <1>5, <1>6, <2>1, <2>2, <2>3
<1>7. CASE receipt.phase = "rolling_back"
    <2>1. PICK p \in {"rolled_back", "failed"} : \E s \in Save(Phase(p)) : receipt' = s.receipt
        BY <1>7 DEF Rollback
    <2>2. /\ workers' = workers \/ workers' = workers \cup {own}
          /\ sup' = [sup EXCEPT !.at = "serving"]
        BY <1>7 DEF Rollback
    <2> QED
        BY <1>5, <1>7, <2>1, <2>2
<1> QED
    BY <1>6, <1>7

-----------------------------------------------------------------------------
(* The resumed image.                                                      *)

\* A process that ends here cannot do so while the guard has the handoff to
\* watch over, unless the guard can be asked.
LEMMA EndsInv ==
    ASSUME IndInv, ProcessEnds, workers' \subseteq workers, UNCHANGED <<guard, env>>,
           receipt' \in Receipts, Same(receipt'),
           Guarded /\ receipt'.phase \in Unfinished => guard.at = "ready" /\ toGuard = <<>>
    PROVE  IndInv'
<1>1. Typed /\ WorkerInv
    BY Parts
<1>2. /\ sup' = NoSup /\ toSup' = <<>> /\ toGuard' = toGuard
      /\ link' \in {"none", "open", "broken"}
    BY <1>1 DEF ProcessEnds, Typed
<1>3. receipt'.attempts > 0 => receipt'.pid # NoPid
    BY <1>1 DEF WorkerInv, RecoveryAlone, Same
<1>4. Guarded' <=> Guarded
    BY DEF Guarded
<1>5. receipt'.gen <= env'.upgrades /\ toSup' \in Seq(Answers) /\ env' \in Envs
    BY <1>1, <1>2 DEF Typed, Same
<1> QED
    BY <1>2, <1>3, <1>4, <1>5, LostInv

\* While the receipt is final no phase of an unfinished handoff is saved.
LEMMA FinalStays ==
    ASSUME Typed, NEW p \in {"verifying", "rolling_back"}, NEW s \in Save(Phase(p)),
           receipt.phase \notin Unfinished
    PROVE  s.receipt = receipt /\ ~s.ok
<1>1. p \in Phases /\ p \in Unfinished
    BY DEF Phases, Unfinished
<1>2. Phase(p).phase = p /\ Same(Phase(p))
    BY <1>1, PhaseOK
<1>3. receipt.gen \in Nat
    BY DEF Typed, Receipts
<1>4. ~Follows(receipt, Phase(p))
    BY <1>1, <1>2, <1>3 DEF Follows, Same, validRuntimeUpgradeTransition, Unfinished
<1> QED
    BY <1>4, SaveOK

\* The resumed image is told what it is for, and boots a worker.
LEMMA ResumeInv ==
    ASSUME IndInv, NEW frame \in {"resume", "recover"}, Resume(frame)
    PROVE  IndInv'
<1> DEFINE rec == frame = "recover"
<1>1. Typed /\ WorkerInv /\ ReceiptInv /\ Protocol
    BY Parts
<1>2. /\ sup.at \in {"resuming", "returning"} /\ toSup # <<>> /\ Head(toSup) = frame
      /\ sup.image = IF rec THEN receipt.previous ELSE receipt.candidate
      /\ toSup' = Tail(toSup) /\ UNCHANGED <<receipt, guard, link, toGuard, env>>
    BY DEF Resume, Receives
<1>3. rec \in BOOLEAN /\ (rec <=> frame = "recover")
    OBVIOUS
<1>4. PICK at \in {"booted", "unready"} :
        /\ sup' = [sup EXCEPT !.at = at, !.recovery = rec]
        /\ workers' = workers \/ workers' = workers \cup {own}
    BY DEF Resume
<1> HIDE DEF rec
<1>5. {"booted", "unready"} \subseteq Places /\ {"booted", "unready"} \cap Workerless = {}
    BY DEF Places, Resumed, Workerless, Starting
<1>6. /\ sup' \in Sups /\ sup'.at = at /\ sup'.pid = sup.pid
      /\ sup'.image = sup.image /\ sup'.recovery = rec
    BY <1>1, <1>3, <1>4, <1>5 DEF Typed, Sups
<1>7. toSup' \in Seq(Answers)
    BY <1>1, <1>2, Streams DEF Typed
<1>8. ReceiptInv'
    BY <1>2, <1>6 DEF ReceiptInv, PhaseThere, ImageThere, Handing
<1>9. Protocol'
    <2> SUFFICES ASSUME Guarded, receipt.phase \in Unfinished
                 PROVE  Handshake'
        BY <1>2 DEF Protocol, Guarded
    <2>1. Handshake
        BY <1>1 DEF Protocol
    <2>2. \/ /\ Guard("ready", <<>>, <<"resume">>) /\ ~guard.recovery /\ receipt.phase = "handoff"
             /\ link = "open"
          \/ Guard("ready", <<>>, <<"recover">>) /\ Recovers /\ link = "open"
        BY <1>2, <2>1 DEF Handshake, Opening, Guard
    <2>3. toSup = <<frame>>
        <3>1. Head(<<"resume">>) = "resume" /\ Head(<<"recover">>) = "recover"
            OBVIOUS
        <3>2. CASE toSup = <<"resume">>
            BY <1>2, <3>1, <3>2, Zenon
        <3>3. CASE toSup = <<"recover">>
            BY <1>2, <3>1, <3>3, Zenon
        <3> QED
            BY <2>2, <3>2, <3>3 DEF Guard
    <2>4. toSup' = <<>> /\ <<"resume">> # <<"recover">>
        <3>1. frame \in Asks \cup Answers
            BY DEF Answers
        <3>2. Tail(<<frame>>) = <<>>
            BY <3>1, FramesRead
        <3> QED
            BY <1>2, <2>3, <3>2
    <2>5. /\ guard.at = "ready" /\ toGuard = <<>> /\ link = "open" /\ guard.recovery = rec
          /\ receipt.phase = IF rec THEN "rolling_back" ELSE "handoff"
        <3>1. CASE frame = "resume"
            BY <1>1, <1>3, <2>2, <2>3, <2>4, <3>1 DEF Guard, Typed, Guards
        <3>2. CASE frame = "recover"
            BY <1>1, <1>3, <2>2, <2>3, <2>4, <3>2 DEF Guard, Recovers, Typed, Guards
        <3> QED
            BY <3>1, <3>2
    <2> QED
        BY <1>2, <1>6, <2>4, <2>5 DEF Handshake, Guard, Serving
<1>10. sup.at # "down" /\ sup'.at # "down" /\ sup'.at \notin Workerless
    BY <1>2, <1>5, <1>6
<1> QED
    BY <1>1, <1>2, <1>4, <1>6, <1>7, <1>8, <1>9, <1>10, SameKept, StepInv DEF Typed

\* A resume is refused only where the protocol has already failed.
LEMMA ResumeRefusedInv ==
    ASSUME IndInv, ResumeRefused
    PROVE  IndInv'
<1>1. Typed /\ Protocol
    BY Parts
<1>2. Guarded /\ receipt.phase \in Unfinished => guard.at = "ready" /\ toGuard = <<>>
    <2> SUFFICES ASSUME Guarded, receipt.phase \in Unfinished
                 PROVE  FALSE
        OBVIOUS
    <2>1. Handshake
        BY <1>1 DEF Protocol
    <2>2. /\ guard.at \in {"announced", "ready"}
          /\ toSup = <<>> \/ toSup = <<"resume">> \/ toSup = <<"recover">>
        BY <2>1 DEF ResumeRefused, Handshake, Opening, Guard
    <2>3. "deadline" \notin env.faults
        BY DEF Guarded
    <2>4. ~ReadFails
        BY <2>2, <2>3 DEF ReadFails
    <2>5. toSup # <<>> /\ Head(toSup) \notin {"resume", "recover"}
        BY <2>4 DEF ResumeRefused
    <2>6. Head(<<"resume">>) = "resume" /\ Head(<<"recover">>) = "recover"
        OBVIOUS
    <2> QED
        BY <2>2, <2>5, <2>6
<1> QED
    BY <1>2, SameKept, EndsInv DEF ResumeRefused

\* The image reports to the guard.
LEMMA SendReadyInv ==
    ASSUME IndInv, SendReady
    PROVE  IndInv'
<1>1. Typed /\ WorkerInv /\ ReceiptInv /\ Protocol
    BY Parts
<1>2. sup.at = "booted" /\ UNCHANGED <<workers, guard, link, toSup, env>>
    BY DEF SendReady
<1>3. PICK s \in IF sup.recovery THEN {[ok |-> TRUE, receipt |-> receipt]}
                 ELSE Save(Phase("verifying")) :
         /\ receipt' = s.receipt
         /\ IF s.ok /\ link = "open"
            THEN sup' = [sup EXCEPT !.at = "ready"] /\ toGuard' = Append(toGuard, "ready")
            ELSE sup' = [sup EXCEPT !.at = "unready"] /\ UNCHANGED toGuard
    BY DEF SendReady
<1>4. /\ receipt' \in Receipts /\ Same(receipt') /\ s.ok \in BOOLEAN
      /\ receipt'.phase = receipt.phase \/ receipt'.phase = "verifying"
      /\ sup.recovery => s.ok /\ receipt' = receipt
      /\ ~sup.recovery /\ s.ok => receipt'.phase = "verifying"
    <2>1. CASE sup.recovery
        <3>1. s = [ok |-> TRUE, receipt |-> receipt]
            BY <1>3, <2>1
        <3> QED
            BY <1>1, <1>3, <2>1, <3>1 DEF Typed, Same
    <2>2. CASE ~sup.recovery
        <3>1. "verifying" \in Phases
            BY DEF Phases, Unfinished
        <3> QED
            BY <1>1, <1>3, <2>2, <3>1, SavePhase, SaveOK
    <2> QED
        BY <2>1, <2>2
<1>5. {"ready", "unready"} \subseteq Places /\ {"ready", "unready"} \cap Workerless = {}
    BY DEF Places, Resumed, Workerless, Starting
<1>6. /\ sup' \in Sups /\ sup'.at = (IF s.ok /\ link = "open" THEN "ready" ELSE "unready")
      /\ sup'.pid = sup.pid /\ sup'.image = sup.image /\ sup'.recovery = sup.recovery
    BY <1>1, <1>3, <1>5, SupAt
<1>7. toGuard' \in Seq(Asks)
    <2>1. toGuard \in Seq(Asks) /\ "ready" \in Asks
        BY <1>1 DEF Typed, Asks
    <2>2. Append(toGuard, "ready") \in Seq(Asks)
        BY <2>1, Streams
    <2> QED
        BY <1>3, <2>1, <2>2
<1>8. ReceiptInv'
    BY <1>1, <1>2, <1>4, <1>6 DEF ReceiptInv, PhaseThere, ImageThere, Handing, Same
<1>9. Protocol'
    <2> SUFFICES ASSUME Guarded, receipt'.phase \in Unfinished
                 PROVE  Handshake'
        BY <1>2 DEF Protocol, Guarded
    <2>1. receipt.phase \in Unfinished
        <3>1. CASE sup.recovery
            BY <1>4, <3>1
        <3>2. CASE ~sup.recovery
            BY <1>1, <1>3, <3>2, FinalStays
        <3> QED
            BY <3>1, <3>2
    <2>2. /\ link = "open" /\ Guard("ready", <<>>, <<>>) /\ guard.recovery = sup.recovery
          /\ receipt.phase = IF sup.recovery THEN "rolling_back" ELSE "handoff"
        BY <1>1, <1>2, <2>1 DEF Protocol, Handshake
    <2>3. s.ok
        <3>1. CASE sup.recovery
            BY <1>4, <3>1
        <3>2. CASE ~sup.recovery
            <4>1. "verifying" \in Phases /\ <<receipt.phase, "verifying">> \in validRuntimeUpgradeTransition
                BY <2>2, <3>2 DEF Phases, Unfinished, validRuntimeUpgradeTransition
            <4>2. Follows(receipt, Phase("verifying"))
                BY <1>1, <4>1, PhaseFollows
            <4>3. "save" \notin env.faults
                BY DEF Guarded
            <4> QED
                BY <1>3, <3>2, <4>2, <4>3, SaveOK
        <3> QED
            BY <3>1, <3>2
    <2>4. toGuard' = <<"ready">>
        <3>1. "ready" \in Asks \cup Answers
            BY DEF Asks
        <3>2. toGuard' = Append(<<>>, "ready")
            BY <1>3, <2>2, <2>3 DEF Guard
        <3> QED
            BY <3>1, <3>2, FramesRead
    <2>5. sup'.at = "ready"
        BY <1>6, <2>2, <2>3
    <2>6. receipt'.phase = IF sup.recovery THEN "rolling_back" ELSE "verifying"
        BY <1>4, <2>2, <2>3
    <2> QED
        BY <1>2, <1>6, <2>2, <2>4, <2>5, <2>6 DEF Handshake, Guard, Serving
<1>10. sup.at # "down" /\ sup'.at # "down" /\ sup'.at \notin Workerless
    BY <1>2, <1>5, <1>6
<1> QED
    BY <1>1, <1>2, <1>4, <1>6, <1>7, <1>8, <1>9, <1>10, StepInv DEF Typed

\* The outcome is saved.
LEMMA CommitOutcomeInv ==
    ASSUME IndInv, CommitOutcome
    PROVE  IndInv'
<1> DEFINE p == IF sup.recovery THEN "rolled_back" ELSE "committed"
<1>1. Typed /\ WorkerInv /\ ReceiptInv /\ Protocol
    BY Parts
<1>2. /\ sup.at = "ready" /\ toSup # <<>> /\ toSup' = Tail(toSup)
      /\ UNCHANGED <<workers, guard, link, env>>
    BY DEF CommitOutcome, Receives
<1>3. PICK s \in Save(Phase(p)) :
         /\ receipt' = s.receipt
         /\ sup' = [sup EXCEPT !.at = IF s.ok THEN "committed" ELSE "unready"]
         /\ toGuard' = IF s.ok /\ link = "open" THEN Append(toGuard, "commit") ELSE toGuard
    BY DEF CommitOutcome
<1>4. p \in Phases /\ p \notin Unfinished
    BY DEF Phases, Terminal, Unfinished
<1>5. (sup.recovery => p = "rolled_back") /\ (~sup.recovery => p = "committed")
    OBVIOUS
<1> HIDE DEF p
<1>6. /\ receipt' \in Receipts /\ Same(receipt') /\ s.ok \in BOOLEAN
      /\ receipt'.phase = receipt.phase \/ receipt'.phase = p
      /\ s.ok => receipt'.phase = p
    BY <1>1, <1>3, <1>4, SavePhase, SaveOK
<1>7. {"committed", "unready"} \subseteq Places /\ {"committed", "unready"} \cap Workerless = {}
    BY DEF Places, Resumed, Workerless, Starting
<1>8. /\ sup' \in Sups /\ sup'.at = (IF s.ok THEN "committed" ELSE "unready")
      /\ sup'.pid = sup.pid /\ sup'.image = sup.image /\ sup'.recovery = sup.recovery
    BY <1>1, <1>3, <1>7, SupAt
<1>9. toGuard' \in Seq(Asks) /\ toSup' \in Seq(Answers)
    <2>1. toGuard \in Seq(Asks) /\ "commit" \in Asks /\ toSup \in Seq(Answers)
        BY <1>1 DEF Typed, Asks
    <2>2. Append(toGuard, "commit") \in Seq(Asks) /\ Tail(toSup) \in Seq(Answers)
        BY <1>2, <2>1, Streams
    <2> QED
        BY <1>2, <1>3, <2>1, <2>2
<1>10. ReceiptInv'
    BY <1>1, <1>2, <1>5, <1>6, <1>8 DEF ReceiptInv, PhaseThere, ImageThere, Handing, Same
<1>11. Protocol'
    <2> SUFFICES ASSUME Guarded, receipt'.phase \in Unfinished
                 PROVE  FALSE
        BY <1>2 DEF Protocol, Guarded
    <2>1. receipt'.phase = receipt.phase /\ ~s.ok
        BY <1>4, <1>6
    <2>2. receipt.phase = IF sup.recovery THEN "rolling_back" ELSE "verifying"
        BY <1>1, <1>2, <2>1 DEF Protocol, Handshake
    <2>3. <<receipt.phase, p>> \in validRuntimeUpgradeTransition
        BY <1>5, <2>2 DEF validRuntimeUpgradeTransition
    <2>4. Follows(receipt, Phase(p)) /\ "save" \notin env.faults
        BY <1>1, <1>4, <2>3, PhaseFollows DEF Guarded
    <2> QED
        BY <2>1, <2>4, SaveOK
<1>12. sup.at # "down" /\ sup'.at # "down" /\ sup'.at \notin Workerless
    BY <1>2, <1>7, <1>8
<1> QED
    BY <1>1, <1>2, <1>6, <1>8, <1>9, <1>10, <1>11, <1>12, StepInv DEF Typed

\* An image is not verified only where the protocol has already failed.
LEMMA NotVerifiedInv ==
    ASSUME IndInv, NotVerified
    PROVE  IndInv'
<1>1. Typed /\ WorkerInv /\ ReceiptInv /\ Protocol
    BY Parts
<1>2. /\ sup.at = "ready" /\ sup' = [sup EXCEPT !.at = "unready"]
      /\ UNCHANGED <<receipt, workers, guard, wire, env>>
    BY DEF NotVerified
<1>3. "unready" \in Places /\ "unready" \notin Workerless
    BY DEF Places, Resumed, Workerless, Starting
<1>4. /\ sup' \in Sups /\ sup'.at = "unready" /\ sup'.pid = sup.pid
      /\ sup'.image = sup.image
    BY <1>1, <1>2, <1>3, SupAt
<1>5. ReceiptInv'
    BY <1>4 DEF ReceiptInv, PhaseThere, ImageThere, Handing
<1>6. Protocol'
    <2> SUFFICES ASSUME Guarded, receipt.phase \in Unfinished
                 PROVE  FALSE
        BY <1>2 DEF Protocol, Guarded
    <2>1. /\ guard.at = "ready"
          /\ toSup = <<>> \/ toSup = <<"verified">>
        BY <1>1, <1>2 DEF Protocol, Handshake, Guard
    <2>2. ~ReadFails
        BY <2>1 DEF ReadFails, Guarded
    <2>3. toSup # <<>> /\ Head(toSup) # "verified"
        BY <2>2 DEF NotVerified
    <2>4. Head(<<"verified">>) = "verified"
        OBVIOUS
    <2> QED
        BY <2>1, <2>3, <2>4
<1> QED
    BY <1>2, <1>3, <1>4, <1>5, <1>6, SameKept, QuietStepInv

\* The image that saved its outcome serves.
LEMMA ServeInv ==
    ASSUME IndInv, Serve
    PROVE  IndInv'
<1>1. Typed /\ WorkerInv /\ ReceiptInv /\ Protocol
    BY Parts
<1>2. /\ sup.at = "committed" /\ sup' = [sup EXCEPT !.at = "serving"]
      /\ link' \in {"none", "broken"} /\ toSup' = <<>>
      /\ UNCHANGED <<receipt, workers, guard, toGuard, env>>
    BY DEF Serve
<1>3. "serving" \in Places /\ "serving" \notin Workerless
    BY DEF Places, Serving, Workerless, Starting
<1>4. /\ sup' \in Sups /\ sup'.at = "serving" /\ sup'.pid = sup.pid
      /\ sup'.image = sup.image
    BY <1>1, <1>2, <1>3, SupAt
<1>5. receipt.phase = IF sup.recovery THEN "rolled_back" ELSE "committed"
    BY <1>1, <1>2 DEF ReceiptInv, PhaseThere
<1>6. ReceiptInv'
    BY <1>1, <1>2, <1>4, <1>5 DEF ReceiptInv, PhaseThere, ImageThere, Handing
<1>7. Protocol'
    BY <1>2, <1>5, ProtocolFree DEF Unfinished
<1>8. toSup' \in Seq(Answers)
    BY <1>2
<1> QED
    BY <1>1, <1>2, <1>3, <1>4, <1>6, <1>7, <1>8, SameKept, StepInv DEF Typed

\* The failed image reaps its worker and goes back, or ends the transaction.
LEMMA FailInv ==
    ASSUME IndInv, NEW proven \in BOOLEAN, Fail(proven)
    PROVE  IndInv'
<1>1. Typed /\ WorkerInv /\ ReceiptInv /\ Protocol
    BY Parts
<1>2. sup.at = "unready" /\ workers' = workers \ {own} /\ UNCHANGED <<guard, env>>
    BY DEF Fail
<1>3. PICK s \in Save(Phase("rolling_back")) :
         IF s.ok /\ proven /\ ~sup.recovery
         THEN /\ receipt' = s.receipt
              /\ sup' = [sup EXCEPT !.at = "failing"]
              /\ UNCHANGED wire
         ELSE /\ receipt' \in
                   IF ~s.ok THEN {s.receipt}
                   ELSE {[s.receipt EXCEPT !.phase = "failed", !.unproven = ~proven]}
                        \cup (IF "save" \in env.faults THEN {s.receipt} ELSE {})
              /\ ProcessEnds
    BY DEF Fail
<1>4. "rolling_back" \in Phases /\ "failed" \in Phases /\ "failed" \notin Unfinished
    BY DEF Phases, Unfinished, Terminal
<1>5. /\ s.receipt \in Receipts /\ Same(s.receipt) /\ s.ok \in BOOLEAN
      /\ s.receipt.phase = receipt.phase \/ s.receipt.phase = "rolling_back"
      /\ s.ok => s.receipt.phase = "rolling_back"
    BY <1>1, <1>4, SavePhase, SaveOK
<1>6. Guarded /\ s.receipt.phase \in Unfinished =>
        s.ok /\ link = "open" /\ Guard("ready", <<>>, <<>>)
    <2> SUFFICES ASSUME Guarded, s.receipt.phase \in Unfinished
                 PROVE  s.ok /\ link = "open" /\ Guard("ready", <<>>, <<>>)
        OBVIOUS
    <2>1. receipt.phase \in Unfinished
        BY <1>1, FinalStays
    <2>2. Follows(receipt, Phase("rolling_back"))
        <3>1. \/ receipt.phase = "rolling_back"
              \/ <<receipt.phase, "rolling_back">> \in validRuntimeUpgradeTransition
            BY <2>1 DEF Unfinished, validRuntimeUpgradeTransition
        <3> QED
            BY <1>1, <1>4, <3>1, PhaseFollows
    <2>3. s.ok
        BY <2>2, SaveOK DEF Guarded
    <2> QED
        BY <1>1, <1>2, <2>1, <2>3 DEF Protocol, Handshake
<1>7. CASE s.ok /\ proven /\ ~sup.recovery
    <2>1. receipt' = s.receipt /\ sup' = [sup EXCEPT !.at = "failing"] /\ UNCHANGED wire
        BY <1>3, <1>7
    <2>2. "failing" \in Places
        BY DEF Places, Resumed
    <2>3. /\ sup' \in Sups /\ sup'.at = "failing" /\ sup'.pid = sup.pid
          /\ sup'.image = sup.image
        BY <1>1, <2>1, <2>2, SupAt
    <2>4. ReceiptInv'
        BY <2>3 DEF ReceiptInv, PhaseThere, ImageThere, Handing
    <2>5. Protocol'
        BY <1>2, <1>5, <1>6, <1>7, <2>1, <2>3 DEF Protocol, Handshake, Guard, Guarded, Serving, wire
    <2> QED
        BY <1>2, <1>5, <2>1, <2>3, <2>4, <2>5, QuietStepInv
<1>8. CASE ~(s.ok /\ proven /\ ~sup.recovery)
    <2> DEFINE u == ~proven
               f == [s.receipt EXCEPT !.phase = "failed", !.unproven = u]
    <2>1. u \in BOOLEAN
        OBVIOUS
    <2>2. /\ ProcessEnds
          /\ (receipt' = s.receipt /\ (~s.ok \/ "save" \in env.faults)) \/ receipt' = f
        BY <1>3, <1>8
    <2> HIDE DEF u
    <2>3. f \in Receipts /\ Same(f) /\ f.phase = "failed"
        BY <1>4, <1>5, <2>1 DEF Receipts, Same
    <2> HIDE DEF f
    <2>4. Guarded /\ receipt'.phase \in Unfinished => guard.at = "ready" /\ toGuard = <<>>
        BY <1>4, <1>6, <2>2, <2>3 DEF Guard
    <2>5. receipt' \in Receipts /\ Same(receipt')
        BY <1>5, <2>2, <2>3
    <2> QED
        BY <1>2, <2>2, <2>4, <2>5, EndsInv
<1> QED
    BY <1>7, <1>8

\* The previous image takes over; the guard is told.
LEMMA ReturnInv ==
    ASSUME IndInv, ReturnToPrevious
    PROVE  IndInv'
<1>1. Typed /\ WorkerInv /\ ReceiptInv /\ Protocol
    BY Parts
<1>2. sup.at = "failing" /\ UNCHANGED <<receipt, workers, guard, env>>
    BY DEF ReturnToPrevious
<1>3. Guarded /\ receipt.phase \in Unfinished =>
        link = "open" /\ Guard("ready", <<>>, <<>>) /\ receipt.phase = "rolling_back"
    BY <1>1, <1>2 DEF Protocol, Handshake
<1>4. CASE link = "open"
    <2>1. /\ sup' = [sup EXCEPT !.at = "returning", !.image = receipt.previous]
          /\ toGuard' = Append(toGuard, "rollback") /\ UNCHANGED <<link, toSup>>
        BY <1>4 DEF ReturnToPrevious
    <2>2. "returning" \in Places /\ "failing" \in Workerless
        BY DEF Places, Resumed, Workerless
    <2>3. sup' \in Sups /\ sup'.at = "returning" /\ sup'.pid = sup.pid
        BY <1>1, <2>1, <2>2 DEF Typed, Sups, Receipts
    <2>4. toGuard' \in Seq(Asks) /\ (toGuard = <<>> => toGuard' = <<"rollback">>)
        <3>1. toGuard \in Seq(Asks) /\ "rollback" \in Asks /\ "rollback" \in Asks \cup Answers
            BY <1>1 DEF Typed, Asks
        <3>2. Append(toGuard, "rollback") \in Seq(Asks) /\ Append(<<>>, "rollback") = <<"rollback">>
            BY <3>1, Streams, FramesRead
        <3> QED
            BY <2>1, <3>2
    <2>5. ReceiptInv'
        BY <2>3 DEF ReceiptInv, PhaseThere, ImageThere, Handing
    <2>6. Protocol'
        BY <1>2, <1>3, <2>1, <2>3, <2>4 DEF Protocol, Handshake, Guard, Guarded, Serving
    <2> QED
        BY <1>1, <1>2, <2>1, <2>2, <2>3, <2>4, <2>5, <2>6, SameKept, StepInv DEF Typed
<1>5. CASE link # "open"
    <2>1. ProcessEnds
        BY <1>5 DEF ReturnToPrevious
    <2> QED
        BY <1>2, <1>3, <1>5, <2>1, SameKept, EndsInv
<1> QED
    BY <1>4, <1>5

-----------------------------------------------------------------------------
(* The guard.                                                              *)

\* A step of the guard touches the guard and the wire only.
LEMMA GuardStepInv ==
    ASSUME IndInv, UNCHANGED <<receipt, sup, workers, env>>, guard' \in Guards,
           link' \in {"none", "open", "broken"}, toGuard' \in Seq(Asks), toSup' \in Seq(Answers),
           Guarded /\ receipt.phase \in Unfinished => Handshake'
    PROVE  IndInv'
<1>1. Typed /\ WorkerInv /\ ReceiptInv
    BY Parts
<1>2. Typed'
    BY <1>1 DEF Typed
<1>3. WorkerInv'
    BY <1>1 DEF WorkerInv, PidIsUp, WorkersAreOwn, NoWorkerThere, RecoveryAlone, own
<1>4. ReceiptInv'
    BY <1>1 DEF ReceiptInv, PhaseThere, ImageThere
<1>5. Protocol'
    BY DEF Protocol, Guarded
<1> QED
    BY <1>2, <1>3, <1>4, <1>5, PartsNext

Unasked == {"handoff", "released", "rollback"}

\* Where nothing is asked of the guard it may do anything.
LEMMA HandshakeFree ==
    ASSUME sup'.at \in Unasked
    PROVE  Handshake'
BY DEF Handshake, Unasked, Serving

\* The guard ends.
LEMMA GuardEndsInv ==
    ASSUME IndInv, UNCHANGED <<receipt, sup, workers, env>>, GuardEnds, toSup' \in Seq(Answers),
           Guarded /\ receipt.phase \in Unfinished => sup.at \in Unasked
    PROVE  IndInv'
<1>1. guard' \in Guards /\ link' = "none"
    BY DEF GuardEnds, NoGuard, Guards
<1>2. toGuard' \in Seq(Asks)
    BY DEF GuardEnds
<1> QED
    BY <1>1, <1>2, GuardStepInv, HandshakeFree

\* The guard opens its socket and answers.
LEMMA GuardPreparesInv ==
    ASSUME IndInv, GuardPrepares
    PROVE  IndInv'
<1>1. Typed /\ Protocol /\ UNCHANGED <<receipt, sup, workers, env>>
    BY Parts DEF GuardPrepares
<1>2. /\ toSup \in Seq(Answers) /\ toGuard \in Seq(Asks) /\ guard \in Guards
      /\ {"guard_ready", "resume"} \subseteq Answers
      /\ {"guard_ready", "resume"} \subseteq Asks \cup Answers
    BY <1>1 DEF Typed, Answers
<1>3. CASE /\ guard.at = "started" /\ link = "open" /\ sup.at = "guarded"
           /\ guard' = [guard EXCEPT !.at = "announced"]
           /\ toSup' = Append(toSup, "guard_ready")
           /\ UNCHANGED <<link, toGuard>>
    <2>1. guard' \in Guards /\ guard'.at = "announced" /\ guard'.recovery = guard.recovery
        BY <1>2, <1>3 DEF Guards
    <2>2. Append(toSup, "guard_ready") \in Seq(Answers)
        BY <1>2, Streams
    <2>3. Guarded /\ receipt.phase \in Unfinished => Handshake'
        <3> SUFFICES ASSUME Guarded, receipt.phase \in Unfinished
                     PROVE  Handshake'
            OBVIOUS
        <3>1. toSup = <<>> /\ toGuard = <<>> /\ ~guard.recovery
            BY <1>1, <1>3 DEF Protocol, Handshake, Guard
        <3>2. Append(<<>>, "guard_ready") = <<"guard_ready">>
            BY <1>2, FramesRead
        <3> QED
            BY <1>1, <1>3, <2>1, <3>1, <3>2 DEF Handshake, Guard, Serving
    <2> QED
        BY <1>1, <1>2, <1>3, <2>1, <2>2, <2>3, GuardStepInv
<1>4. CASE /\ guard.at = "announced" /\ link = "open"
           /\ guard' = [guard EXCEPT !.at = "ready"]
           /\ toSup' = Append(toSup, "resume")
           /\ UNCHANGED <<link, toGuard>>
    <2>1. guard' \in Guards /\ guard'.at = "ready" /\ guard'.recovery = guard.recovery
        BY <1>2, <1>4 DEF Guards
    <2>2. Append(toSup, "resume") \in Seq(Answers)
        BY <1>2, Streams
    <2>3. Guarded /\ receipt.phase \in Unfinished => Handshake'
        <3> SUFFICES ASSUME Guarded, receipt.phase \in Unfinished
                     PROVE  Handshake'
            OBVIOUS
        <3>1. Handshake /\ sup \in Sups
            BY <1>1 DEF Protocol, Typed
        <3>2. sup.at \in Unasked \cup {"guarded", "prepared", "resuming"}
            BY <1>4, <3>1 DEF Handshake, Opening, Guard, Unasked, Sups, Places, Starting, Serving,
                              Handing, Resumed
        <3>3. CASE sup.at \in Unasked
            BY <1>1, <3>3, HandshakeFree
        <3>4. CASE sup.at = "guarded"
            <4>1. toSup = <<"guard_ready">> /\ toGuard = <<>> /\ ~guard.recovery
                BY <1>4, <3>1, <3>4 DEF Handshake, Guard
            <4>2. toSup' = <<"guard_ready", "resume">>
                BY <1>4, <4>1, FramesRead, Zenon
            <4> QED
                BY <1>1, <1>4, <2>1, <3>4, <4>1, <4>2 DEF Handshake, Guard, Serving
        <3>5. CASE sup.at \in {"prepared", "resuming"}
            <4>1. /\ toSup = <<>> /\ toGuard = <<>> /\ ~guard.recovery
                  /\ sup.at = "resuming" => receipt.phase = "handoff"
                BY <1>4, <3>1, <3>5 DEF Handshake, Opening, Guard
            <4>2. toSup' = <<"resume">>
                <5>1. Append(<<>>, "resume") = <<"resume">>
                    BY <1>2, FramesRead
                <5> QED
                    BY <1>4, <4>1, <5>1
            <4> QED
                BY <1>1, <1>4, <2>1, <3>5, <4>1, <4>2 DEF Handshake, Opening, Guard, Serving
        <3> QED
            BY <3>2, <3>3, <3>4, <3>5
    <2> QED
        BY <1>1, <1>2, <1>4, <2>1, <2>2, <2>3, GuardStepInv
<1>5. CASE guard.at \in {"started", "announced"} /\ link = "broken" /\ GuardEnds /\ UNCHANGED toSup
    <2>1. Guarded /\ receipt.phase \in Unfinished => sup.at \in Unasked
        BY <1>1, <1>5 DEF Protocol, Typed, Handshake, Guard, Unasked, Sups, Places, Starting, Serving,
                          Handing, Resumed
    <2> QED
        BY <1>1, <1>2, <1>5, <2>1, GuardEndsInv
<1> QED
    BY <1>3, <1>4, <1>5 DEF GuardPrepares

\* The guard answers a frame, or ends.
LEMMA GuardReadsInv ==
    ASSUME IndInv, GuardReads
    PROVE  IndInv'
<1> DEFINE frame == Head(toGuard)
<1>1. Typed /\ Protocol /\ UNCHANGED <<receipt, sup, workers, env>>
    BY Parts DEF GuardReads
<1>2. /\ toSup \in Seq(Answers) /\ toGuard \in Seq(Asks) /\ guard \in Guards
      /\ {"verified", "recover", "retired"} \subseteq Answers
      /\ {"verified", "recover"} \subseteq Asks \cup Answers
      /\ {"ready", "rollback"} \subseteq Asks \cup Answers
    BY <1>1 DEF Typed, Asks, Answers
<1>3. guard.at = "ready" /\ toGuard # <<>> /\ Tail(toGuard) \in Seq(Asks)
    BY <1>2 DEF GuardReads
<1>4. Guarded /\ receipt.phase \in Unfinished =>
        \/ sup.at \in Unasked
        \/ /\ sup.at = "returning" /\ toGuard = <<"rollback">> /\ frame = "rollback"
           /\ toSup = <<>> /\ receipt.phase = "rolling_back" /\ link = "open"
        \/ /\ sup.at = "ready" /\ toGuard = <<"ready">> /\ frame = "ready"
           /\ toSup = <<>> /\ guard.recovery = sup.recovery /\ link = "open"
           /\ receipt.phase = IF sup.recovery THEN "rolling_back" ELSE "verifying"
    <2> SUFFICES ASSUME Guarded, receipt.phase \in Unfinished, sup.at \notin Unasked
                 PROVE  \/ /\ sup.at = "returning" /\ toGuard = <<"rollback">>
                           /\ frame = "rollback"
                           /\ toSup = <<>> /\ receipt.phase = "rolling_back" /\ link = "open"
                        \/ /\ sup.at = "ready" /\ toGuard = <<"ready">> /\ frame = "ready"
                           /\ toSup = <<>> /\ guard.recovery = sup.recovery /\ link = "open"
                           /\ receipt.phase = IF sup.recovery THEN "rolling_back" ELSE "verifying"
        OBVIOUS
    <2>1. Handshake /\ sup \in Sups
        BY <1>1 DEF Protocol, Typed
    <2>2. sup.at \in {"returning", "ready"}
        BY <1>3, <2>1 DEF Handshake, Opening, Guard, Unasked, Sups, Places, Starting, Serving,
                          Handing, Resumed
    <2>3. Head(<<"rollback">>) = "rollback" /\ Head(<<"ready">>) = "ready"
        OBVIOUS
    <2>4. CASE sup.at = "returning"
        <3>1. /\ toGuard = <<"rollback">> /\ toSup = <<>> /\ receipt.phase = "rolling_back"
              /\ link = "open"
            BY <1>3, <2>1, <2>4 DEF Handshake, Guard
        <3> QED
            BY <2>3, <2>4, <3>1
    <2>5. CASE sup.at = "ready"
        <3>1. /\ toGuard = <<"ready">> /\ toSup = <<>> /\ guard.recovery = sup.recovery
              /\ link = "open"
              /\ receipt.phase = IF sup.recovery THEN "rolling_back" ELSE "verifying"
            BY <1>3, <2>1, <2>5 DEF Handshake, Guard
        <3> QED
            BY <2>3, <2>5, <3>1
    <2> QED
        BY <2>2, <2>4, <2>5
<1>5. CASE /\ frame = "ready" /\ link = "open"
           /\ guard' = [guard EXCEPT !.verified = TRUE]
           /\ toSup' = Append(toSup, "verified")
           /\ toGuard' = Tail(toGuard) /\ UNCHANGED link
    <2>1. guard' \in Guards /\ guard'.at = "ready" /\ guard'.recovery = guard.recovery
        BY <1>2, <1>3, <1>5 DEF Guards
    <2>2. Append(toSup, "verified") \in Seq(Answers)
        BY <1>2, Streams
    <2>3. Guarded /\ receipt.phase \in Unfinished => Handshake'
        <3> SUFFICES ASSUME Guarded, receipt.phase \in Unfinished
                     PROVE  Handshake'
            OBVIOUS
        <3>1. CASE sup.at \in Unasked
            BY <1>1, <3>1, HandshakeFree
        <3>2. CASE sup.at \notin Unasked
            <4>1. /\ sup.at = "ready" /\ toGuard = <<"ready">> /\ toSup = <<>>
                  /\ guard.recovery = sup.recovery
                  /\ receipt.phase = IF sup.recovery THEN "rolling_back" ELSE "verifying"
                BY <1>4, <1>5, <3>2
            <4>2. Append(<<>>, "verified") = <<"verified">> /\ Tail(<<"ready">>) = <<>>
                BY <1>2, FramesRead
            <4>3. toSup' = <<"verified">> /\ toGuard' = <<>>
                BY <1>5, <4>1, <4>2
            <4> QED
                BY <1>1, <1>5, <2>1, <4>1, <4>3 DEF Handshake, Guard, Serving
        <3> QED
            BY <3>1, <3>2
    <2> QED
        BY <1>1, <1>3, <1>5, <2>1, <2>2, <2>3, GuardStepInv
<1>6. CASE /\ frame = "rollback" /\ link = "open"
           /\ guard' = [guard EXCEPT !.recovery = TRUE, !.verified = FALSE]
           /\ toSup' = Append(toSup, "recover")
           /\ toGuard' = Tail(toGuard) /\ UNCHANGED link
    <2>1. guard' \in Guards /\ guard'.at = "ready" /\ guard'.recovery = TRUE
        BY <1>2, <1>3, <1>6 DEF Guards
    <2>2. Append(toSup, "recover") \in Seq(Answers)
        BY <1>2, Streams
    <2>3. Guarded /\ receipt.phase \in Unfinished => Handshake'
        <3> SUFFICES ASSUME Guarded, receipt.phase \in Unfinished
                     PROVE  Handshake'
            OBVIOUS
        <3>1. CASE sup.at \in Unasked
            BY <1>1, <3>1, HandshakeFree
        <3>2. CASE sup.at \notin Unasked
            <4>1. /\ sup.at = "returning" /\ toGuard = <<"rollback">> /\ toSup = <<>>
                  /\ receipt.phase = "rolling_back"
                BY <1>4, <1>6, <3>2
            <4>2. Append(<<>>, "recover") = <<"recover">> /\ Tail(<<"rollback">>) = <<>>
                BY <1>2, FramesRead
            <4>3. toSup' = <<"recover">> /\ toGuard' = <<>>
                BY <1>6, <4>1, <4>2
            <4> QED
                BY <1>1, <1>6, <2>1, <4>1, <4>3 DEF Handshake, Guard, Recovers, Serving
        <3> QED
            BY <3>1, <3>2
    <2> QED
        BY <1>1, <1>3, <1>6, <2>1, <2>2, <2>3, GuardStepInv
<1>7. CASE /\ frame = "commit" /\ toSup' = Append(toSup, "retired") /\ GuardEnds
    <2>1. Append(toSup, "retired") \in Seq(Answers)
        BY <1>2, Streams
    <2>2. Guarded /\ receipt.phase \in Unfinished => sup.at \in Unasked
        BY <1>4, <1>7
    <2> QED
        BY <1>1, <1>7, <2>1, <2>2, GuardEndsInv
<1>8. CASE ~(link = "open" /\ Expected(frame)) /\ GuardEnds /\ UNCHANGED toSup
    <2>1. Guarded /\ receipt.phase \in Unfinished => sup.at \in Unasked
        BY <1>4, <1>8 DEF Expected
    <2> QED
        BY <1>1, <1>2, <1>8, <2>1, GuardEndsInv
<1> QED
    BY <1>5, <1>6, <1>7, <1>8, Zenon DEF GuardReads

\* At the end of the stream the guard stays.
LEMMA GuardAtEofInv ==
    ASSUME IndInv, GuardAtEof
    PROVE  IndInv'
<1>1. Typed /\ Protocol
    BY Parts
<1>2. /\ guard.at = "ready" /\ link = "broken" /\ toGuard = <<>> /\ link' = "none"
      /\ UNCHANGED <<receipt, sup, workers, guard, toGuard, toSup, env>>
    BY DEF GuardAtEof
<1>3. Guarded /\ receipt.phase \in Unfinished => Handshake'
    <2> SUFFICES ASSUME Guarded, receipt.phase \in Unfinished
                 PROVE  Handshake'
        OBVIOUS
    <2>1. Handshake
        BY <1>1 DEF Protocol
    <2> QED
        BY <1>2, <2>1 DEF Handshake, Guard, Opening, Recovers
<1> QED
    BY <1>1, <1>2, <1>3, GuardStepInv DEF Typed

\* The guard's time ends; while a handoff is unfinished that is a fault.
LEMMA GuardExpiresInv ==
    ASSUME IndInv, GuardExpires
    PROVE  IndInv'
<1>1. Typed
    BY Parts
<1>2. ~(Guarded /\ receipt.phase \in Unfinished)
    BY DEF GuardExpires, Guarded
<1> QED
    BY <1>1, <1>2, GuardEndsInv DEF GuardExpires, Typed

-----------------------------------------------------------------------------
(* The theorems.                                                           *)

\* The invariant holds initially.
LEMMA InitInv ==
    ASSUME Init
    PROVE  IndInv
<1>1. env \in Envs
    BY UpgradeAssumption DEF Init, Envs
<1>2. receipt \in Receipts /\ receipt.gen = 0 /\ receipt.phase = "none" /\ receipt.attempts = 0
    BY DEF Init, NoReceipt, Receipts, Phases, Terminal, Images, RecoveryLimit
<1>3. sup \in Sups /\ sup.at = "down" /\ sup.pid = NoPid
    BY DEF Init, NoSup, Sups, Places, Images
<1>4. guard \in Guards
    BY DEF Init, NoGuard, Guards
<1>5. workers = {} /\ link = "none" /\ toGuard = <<>> /\ toSup = <<>>
    BY DEF Init
<1>6. receipt.gen <= env.upgrades
    BY <1>1, <1>2 DEF Envs
<1>7. Typed
    BY <1>1, <1>2, <1>3, <1>4, <1>5, <1>6 DEF Typed
<1>8. WorkerInv
    BY <1>2, <1>3, <1>5 DEF WorkerInv, PidIsUp, WorkersAreOwn, NoWorkerThere, RecoveryAlone
<1>9. ReceiptInv
    BY <1>3 DEF ReceiptInv, PhaseThere, ImageThere, Handing
<1>10. Protocol
    BY <1>2 DEF Protocol, Unfinished
<1> QED
    BY <1>7, <1>8, <1>9, <1>10, Parts

\* Every step keeps it.
LEMMA NextInv ==
    ASSUME IndInv, [Next]_vars
    PROVE  IndInv'
<1>1. CASE UNCHANGED vars
    <2>1. Typed /\ WorkerInv /\ ReceiptInv /\ Protocol
        BY Parts
    <2>2. UNCHANGED <<receipt, sup, workers, guard, link, toGuard, toSup, env>>
        BY <1>1 DEF vars
    <2>3. Guarded /\ receipt.phase \in Unfinished => Handshake'
        BY <2>1, <2>2 DEF Protocol, Handshake, Guard, Opening, Recovers
    <2> QED
        BY <2>1, <2>2, <2>3, GuardStepInv DEF Typed
<1>2. CASE Crash \/ \E w \in Pids \X Images : OrphanExits(w)
    BY <1>2, CrashInv, OrphanInv
<1>3. CASE StartStep
    BY <1>3, StartInv, BindInv, RecoveryInv, RefusedInv, RecoveredExecInv DEF StartStep
<1>4. CASE Begin \/ HandoffStep
    BY <1>4, BeginInv, DrainInv, ReapWorkerInv, StartGuardInv, RecordGuardInv, GuardIsReadyInv,
       ExecInv, HandoffFailsInv, RollbackInv DEF HandoffStep
<1>5. CASE ResumeStep
    BY <1>5, ResumeInv, ResumeRefusedInv, SendReadyInv, CommitOutcomeInv, NotVerifiedInv,
       ServeInv, FailInv, ReturnInv DEF ResumeStep
<1>6. CASE GuardStep \/ GuardExpires
    BY <1>6, GuardPreparesInv, GuardReadsInv, GuardAtEofInv, GuardExpiresInv DEF GuardStep
<1> QED
    BY <1>1, <1>2, <1>3, <1>4, <1>5, <1>6 DEF Next

\* The inductive invariant holds in every behaviour of an upgrade.
THEOREM UpgradeInvariant == Spec => []IndInv
BY InitInv, NextInv, PTL DEF Spec

\* Every variable keeps its type: no crash, failed save or lost frame leaves a
\* receipt or a process in a state that is not listed, and the recoveries of a
\* transaction stay within their limit.
THEOREM UpgradeTypeCorrect == Spec => []TypeOK
<1>1. IndInv => TypeOK
    BY DEF IndInv
<1> QED
    BY <1>1, UpgradeInvariant, PTL

\* A new image runs no worker beside one of the image it replaced, and one that
\* recovered the listener runs the only worker there is.
THEOREM OwnerIsSole == Spec => []SoleOwner
<1>1. IndInv => SoleOwner
    BY DEF IndInv, WorkersAreOwn, RecoveryAlone, SoleOwner
<1> QED
    BY <1>1, UpgradeInvariant, PTL

\* Who serves under a final receipt runs the image that the receipt selects.
THEOREM SelectedServes == Spec => []ServesSelected
<1>1. IndInv => ServesSelected
    BY DEF IndInv, ImageThere, ServesSelected
<1> QED
    BY <1>1, UpgradeInvariant, PTL

\* Until the transaction is over some process holds the listening socket,
\* whichever of the guarded places the supervisor is killed at, and how often.
THEOREM ListenerIsRetained == Spec => []ListenerRetained
<1>1. IndInv => ListenerRetained
    <2> SUFFICES ASSUME IndInv, Guarded, receipt.phase \in Unfinished
                 PROVE  \/ guard.at # "none"
                        \/ sup.at \in Serving \cup Handing \cup Resumed \cup {"recovered"}
        BY DEF ListenerRetained
    <2>1. Handshake /\ sup \in Sups
        BY Parts DEF Protocol, Typed
    <2>2. CASE sup.at \in {"down", "asking", "binding"}
        BY <2>1, <2>2 DEF Handshake
    <2> QED
        BY <2>1, <2>2 DEF Sups, Places, Starting
<1> QED
    BY <1>1, UpgradeInvariant, PTL
=============================================================================
