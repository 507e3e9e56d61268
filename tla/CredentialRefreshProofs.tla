----------------------- MODULE CredentialRefreshProofs -----------------------
(***************************************************************************)
(* Proofs about CredentialRefresh for every set of candidates and every    *)
(* bound.  ExchangeAtMostOnce is not inductive: that a second exchange of  *)
(* an operation is impossible rests on what the result file, the retained  *)
(* operation and the location of the call say about the first one, and on  *)
(* operation identities being fresh.  IndInv collects those facts.         *)
(***************************************************************************)
EXTENDS CredentialRefresh, TLAPS

Known(o) == result[o].kind \notin {"none", "attempt"}

\* mu has at most one holder, and none while the process is down.
OneHolder ==
    /\ \A c, d \in Candidates : pc[c] # "idle" /\ pc[d] # "idle" => c = d
    /\ up # "up" => \A c \in Candidates : pc[c] = "idle" /\ retained[c] = NoRetained

\* An identity not yet issued has left no trace; the one being selected has
\* neither been sent nor retained.
Unused(o) == sent[o] = 0 /\ result[o].kind = "none"
IdentitiesFresh ==
    /\ \A o \in Ops : o >= nextOp => Unused(o)
    /\ \A c \in Candidates : retained[c].op < nextOp
    /\ mut.phase = "selected" => mut.op \in Ops /\ mut.op < nextOp
    /\ \A c \in Candidates : pc[c] = "select" =>
         /\ CurrentOp \in Ops
         /\ Unused(CurrentOp)
         /\ \A d \in Candidates : retained[d].op # CurrentOp

\* No operation is retained for two candidates.
RetainedDistinct ==
    \A c, d \in Candidates :
        retained[c].op = retained[d].op /\ retained[c].op # NoOp => c = d

\* The result file is at least as advanced as the exchange.
FileCoversExchange ==
    \A o \in Ops :
        /\ sent[o] <= 1
        /\ sent[o] = 1 => result[o].kind # "none"
        /\ Known(o) => sent[o] = 1

\* The retained operation remembers the exchange.
RetainedCovers(c) ==
    retained[c].op # NoOp =>
        /\ retained[c].attempt => result[retained[c].op].kind # "none"
        /\ sent[retained[c].op] = 1 =>
             retained[c].indet \/ retained[c].res # "none" \/ pc[c] = "wait"
        /\ retained[c].res # "none" => sent[retained[c].op] = 1

\* What the location of the call says about the retained operation.
Located(c) ==
    /\ pc[c] \notin {"idle", "select", "activate", "activated"} =>
         retained[c].op # NoOp
    /\ pc[c] \in {"mark", "attempt", "exchange", "wait"} =>
         ~retained[c].indet /\ retained[c].res = "none"
    /\ pc[c] = "exchange" => retained[c].attempt
    /\ pc[c] = "wait" => sent[retained[c].op] = 1 /\ wire.kind # "none"
    /\ pc[c] = "persist" => retained[c].res # "none"

Core ==
    /\ OneHolder
    /\ IdentitiesFresh
    /\ RetainedDistinct
    /\ FileCoversExchange
    /\ \A c \in Candidates : RetainedCovers(c) /\ Located(c)

IndInv == TypeOK /\ Core

-----------------------------------------------------------------------------
(* Types.                                                                  *)

Control ==
    /\ pc \in [Candidates -> Locations]
    /\ local \in BOOLEAN
    /\ faults \in 0..MaxFaults

\* Rotate's Prepare leads to a location of the call.
LEMMA AfterPrepareLocation ==
    ASSUME NEW r, NEW committed
    PROVE  AfterPrepare(r, committed) \in
             {"idle", "attempt", "exchange", "persist", "record", "receipt"}
BY DEF AfterPrepare

\* So does publishing the commit.
LEMMA AfterPublishLocation ==
    ASSUME NEW c, NEW r, NEW committed
    PROVE  AfterPublish(c, r, committed) \in
             {"idle", "mark", "attempt", "exchange", "persist", "record", "receipt"}
BY AfterPrepareLocation DEF AfterPublish

\* A fault stays within its bound.
LEMMA FaultType ==
    ASSUME faults \in 0..MaxFaults, Fault
    PROVE  faults' \in 0..MaxFaults
BY BoundsAssumption DEF Fault

\* A chain may hold no anchor.
LEMMA NoAnchorType == NoReservation \in Reservation /\ NoCommitment \in Commitment
BY BoundsAssumption
   DEF NoReservation, Reservation, NoCommitment, Commitment, NoOp, Phases

\* Moving a call to a location keeps pc well typed.
LEMMA GotoType ==
    ASSUME pc \in [Candidates -> Locations], NEW c \in Candidates,
           NEW l \in Locations, Goto(c, l)
    PROVE  pc' \in [Candidates -> Locations]
BY DEF Goto

\* A storage step that took effect keeps the control variables well typed.
LEMMA FinishType ==
    ASSUME Control, NEW c \in Candidates, NEW ok \in BOOLEAN,
           NEW l \in Locations, Finish(c, ok, l)
    PROVE  Control'
<1>0. "idle" \in Locations
    BY DEF Locations
<1>1. CASE ok
    BY <1>1, GotoType DEF Finish, Control
<1>2. CASE ~ok
    BY <1>0, <1>2, GotoType, FaultType DEF Finish, Control
<1> QED
    BY <1>1, <1>2

\* Entering retryRetainedLocked keeps the types.
LEMMA RetryRetainedType ==
    ASSUME TypeOK, NEW c \in Candidates, RetryRetained(c)
    PROVE  TypeOK'
<1> DEFINE done == \/ retained[c].committed
                   \/ /\ retained[c].res = "ok" /\ rec[c].st = "ready"
                      /\ rec[c].op = NoOp /\ rec[c].cred = retained[c].mat
           l == IF retained[c].digest THEN AfterPublish(c, retained[c], done)
                                      ELSE "continuation"
<1>1. Goto(c, l) /\ local' = (done /\ l # "idle")
    BY DEF RetryRetained
<1>2. l \in Locations
    BY AfterPublishLocation DEF Locations
<1>3. local' \in BOOLEAN
    BY <1>1
<1> HIDE DEF l, done
<1>4. pc' \in [Candidates -> Locations]
    BY <1>1, <1>2, GotoType DEF TypeOK
<1> QED
    BY <1>3, <1>4 DEF TypeOK, RetryRetained, durable, mutChain, cmtChain, env, history

\* Suspending a shared lineage keeps the types.
LEMMA SuspendSharedType ==
    ASSUME TypeOK, NEW c \in Candidates, SuspendShared(c)
    PROVE  TypeOK'
<1>0. Control
    BY DEF TypeOK, Control
<1>1. rec' \in [Candidates -> Record]
    BY DEF TypeOK, SuspendShared, Record
<1> QED
    BY <1>0, <1>1 DEF TypeOK, Control, SuspendShared, durable, volatile, mutChain, cmtChain, env, history

\* Issuing an operation identity keeps the types.
LEMMA BeginRefreshType ==
    ASSUME TypeOK, NEW c \in Candidates, BeginRefresh(c)
    PROVE  TypeOK'
<1>0. Control
    BY DEF TypeOK, Control
<1>1. "select" \in Locations
    BY DEF Locations
<1>2. pc' \in [Candidates -> Locations]
    BY <1>0, <1>1, GotoType DEF Control, BeginRefresh
<1>3. nextOp' \in 1..(MaxOps + 1)
    BY BoundsAssumption DEF TypeOK, BeginRefresh
<1> QED
    BY <1>0, <1>1, <1>2, <1>3 DEF TypeOK, Control, BeginRefresh, durable, volatile, mutChain, cmtChain, env, history

\* A refused selection keeps the types.
LEMMA SelectRefusedType ==
    ASSUME TypeOK, NEW c \in Candidates, SelectRefused(c)
    PROVE  TypeOK'
<1>0. Control
    BY DEF TypeOK, Control
<1>1. "idle" \in Locations
    BY DEF Locations
<1>2. pc' \in [Candidates -> Locations]
    BY <1>0, <1>1, GotoType DEF Control, SelectRefused
<1>3. mutSeen' \in Reservation
    BY DEF TypeOK, SelectRefused, Reopened
<1> QED
    BY <1>0, <1>1, <1>2, <1>3 DEF TypeOK, Control, SelectRefused, durable, volatile, mutChain, cmtChain, env, history

\* Selecting the mutation keeps the types.
LEMMA SelectRefreshMutationType ==
    ASSUME TypeOK, NEW c \in Candidates, SelectRefreshMutation(c)
    PROVE  TypeOK'
<1>0. Control
    BY DEF TypeOK, Control
<1>1. "continuation" \in Locations
    BY DEF Locations
<1>2. PICK ok \in BOOLEAN : Finish(c, ok, "continuation") /\ mutGate' = ok
         /\ retained' = IF ok
                        THEN [retained EXCEPT ![c] =
                                [NoRetained EXCEPT !.op = CurrentOp]]
                        ELSE retained
    BY DEF SelectRefreshMutation
<1>3. Control'
    BY <1>0, <1>1, <1>2, FinishType
<1>4. CurrentOp \in 0..MaxOps
    BY BoundsAssumption DEF TypeOK, CurrentOp
<1>5. NoRetained \in Retained
    BY BoundsAssumption
       DEF NoRetained, Retained, NoOp, Answers, Material, NoMaterial, Tokens, NoTok
<1>6. [NoRetained EXCEPT !.op = CurrentOp] \in Retained
    BY <1>4, <1>5 DEF Retained
<1>7. retained' \in [Candidates -> Retained]
    BY <1>2, <1>6 DEF TypeOK
<1>8. mut' \in Reservation
    BY <1>4 DEF SelectRefreshMutation, Phases, Reservation
<1>9. mutSeen' \in Reservation
    BY <1>8 DEF TypeOK, SelectRefreshMutation
<1> QED
    BY <1>0, <1>1, <1>2, <1>3, <1>4, <1>5, <1>6, <1>7, <1>8, <1>9
       DEF TypeOK, Control, SelectRefreshMutation, durable, volatile, mutChain, cmtChain, env, history

\* Publishing the continuation keeps the types.
LEMMA PublishContinuationType ==
    ASSUME TypeOK, NEW c \in Candidates, PublishContinuation(c), retained[c].op \in Ops
    PROVE  TypeOK'
<1>0. Control
    BY DEF TypeOK, Control
<1>1. "commit" \in Locations
    BY DEF Locations
<1>2. PICK ok \in BOOLEAN : Finish(c, ok, "commit")
    BY DEF PublishContinuation
<1>3. Control'
    BY <1>0, <1>1, <1>2, FinishType
<1> QED
    BY <1>0, <1>1, <1>2, <1>3
       DEF TypeOK, Control, PublishContinuation, durable, volatile, mutChain, cmtChain, env, history

\* Publishing the commit keeps the types.
LEMMA PublishCommitType ==
    ASSUME TypeOK, NEW c \in Candidates, PublishCommit(c)
    PROVE  TypeOK'
<1>0. Control
    BY DEF TypeOK, Control
<1>1. \A r, done : AfterPublish(c, r, done) \in Locations
    BY AfterPublishLocation DEF Locations
<1>2. PICK ok \in BOOLEAN :
         /\ Finish(c, ok, AfterPublish(c, [retained[c] EXCEPT !.digest = ok], local))
         /\ cmtGate' = ok
         /\ retained' = [retained EXCEPT ![c] = [retained[c] EXCEPT !.digest = ok]]
    BY <1>1 DEF PublishCommit
<1>3. Control'
    BY <1>0, <1>1, <1>2, FinishType
<1>4. retained' \in [Candidates -> Retained]
    BY SMTT(30), <1>2 DEF TypeOK, Retained
<1>5. cmt' \in Commitment
    BY DEF TypeOK, PublishCommit, Phases, Retained, Commitment
<1>6. cmtSeen' \in Commitment
    BY <1>5 DEF TypeOK, PublishCommit
<1> QED
    BY <1>0, <1>1, <1>2, <1>3, <1>4, <1>5, <1>6
       DEF TypeOK, Control, PublishCommit, durable, volatile, mutChain, cmtChain, env, history

\* Marking the record keeps the types.
LEMMA MarkRefreshingType ==
    ASSUME TypeOK, NEW c \in Candidates, MarkRefreshing(c)
    PROVE  TypeOK'
<1>0. Control
    BY DEF TypeOK, Control
<1>1. PICK ok \in BOOLEAN, l \in Locations : Finish(c, ok, l)
    BY AfterPrepareLocation DEF MarkRefreshing, Locations
<1>2. Control'
    BY <1>0, <1>1, FinishType
<1>3. retained[c].op \in 0..MaxOps
    BY DEF TypeOK, Retained
<1>4. /\ rec \in [Candidates -> Record]
      /\ rec' = [rec EXCEPT ![c].st = "refreshing", ![c].op = retained[c].op]
    BY DEF TypeOK, MarkRefreshing
<1>5. rec' \in [Candidates -> Record]
    BY ZenonT(30), <1>3, <1>4 DEF Record, OperationStates
<1> QED
    BY <1>0, <1>1, <1>2, <1>3, <1>4, <1>5
       DEF TypeOK, Control, MarkRefreshing, durable, volatile, mutChain, cmtChain, env, history

\* Persisting the attempt keeps the types.
LEMMA PersistAttemptType ==
    ASSUME TypeOK, NEW c \in Candidates, PersistAttempt(c)
    PROVE  TypeOK'
<1>0. Control
    BY DEF TypeOK, Control
<1>1. "exchange" \in Locations
    BY DEF Locations
<1>2. PICK ok \in BOOLEAN : Finish(c, ok, "exchange") /\ retained' = [retained EXCEPT ![c].attempt = ok]
    BY DEF PersistAttempt
<1>3. Control'
    BY <1>0, <1>1, <1>2, FinishType
<1>4. retained' \in [Candidates -> Retained]
  <2>1. retained \in [Candidates -> Retained]
      BY DEF TypeOK
  <2>2. retained' = [retained EXCEPT ![c].attempt = ok]
      BY <1>2
  <2> QED
      BY <2>1, <2>2 DEF Retained
<1>5. result' \in [Ops -> [kind : Answers \cup {"attempt"}, mat : Material]]
    BY DEF TypeOK, PersistAttempt
<1> QED
    BY <1>0, <1>1, <1>2, <1>3, <1>4, <1>5
       DEF TypeOK, Control, PersistAttempt, durable, volatile, mutChain, cmtChain, env, history

\* Dispatching the exchange keeps the types.
LEMMA ExchangeType ==
    ASSUME TypeOK, NEW c \in Candidates, Exchange(c), retained[c].op \in Ops
    PROVE  TypeOK'
<1>0. Control
    BY DEF TypeOK, Control
<1>1. "wait" \in Locations
    BY DEF Locations
<1>2. pc' \in [Candidates -> Locations]
    BY <1>0, <1>1, GotoType DEF Control, Exchange
<1>3. rec[c].cred.rt \in Tokens
    BY DEF TypeOK, Record, Material
<1>4. /\ presented \in [Ops -> Tokens] /\ sent \in [Ops -> Nat]
      /\ presented' = [presented EXCEPT ![retained[c].op] = rec[c].cred.rt]
      /\ sent' = [sent EXCEPT ![retained[c].op] = sent[retained[c].op] + 1]
    BY DEF TypeOK, Exchange
<1>5. presented' \in [Ops -> Tokens]
    BY <1>3, <1>4
<1>6. sent[retained[c].op] + 1 \in Nat
    BY <1>4
<1>7. sent' \in [Ops -> Nat]
    BY <1>4, <1>6
<1>8. /\ nextTok \in 1..(MaxTok + 1) /\ spent \subseteq Tokens
      /\ ProviderAnswers(c)
    BY DEF TypeOK, Exchange
<1>9. spent' \subseteq Tokens
    BY <1>3, <1>8 DEF ProviderAnswers
<1>10. nextTok' \in 1..(MaxTok + 1)
    BY <1>8, BoundsAssumption DEF ProviderAnswers
<1>11. NoMaterial \in Material /\ (nextTok <= MaxTok => nextTok \in Tokens)
    BY <1>8, BoundsAssumption DEF Material, NoMaterial, Tokens, NoTok
<1>12. nextTok <= MaxTok =>
         /\ [rt |-> nextTok, at |-> nextTok] \in Material
         /\ [rt |-> rec[c].cred.rt, at |-> nextTok] \in Material
    BY <1>3, <1>11 DEF Material
<1>13. \E a \in Answers, m \in Material : wire' = [kind |-> a, mat |-> m]
    BY <1>8, <1>11, <1>12 DEF ProviderAnswers, Answers
<1>14. wire' \in [kind : Answers, mat : Material]
    BY <1>13
<1> QED
    BY <1>0, <1>1, <1>2, <1>3, <1>4, <1>5, <1>6, <1>7, <1>8, <1>9, <1>10, <1>11, <1>12, <1>13, <1>14
       DEF TypeOK, Control, Exchange, durable, volatile, mutChain, cmtChain, env, history

\* The return of the exchange keeps the types.
LEMMA ExchangeReturnsType ==
    ASSUME TypeOK, NEW c \in Candidates, ExchangeReturns(c)
    PROVE  TypeOK'
<1>0. Control
    BY DEF TypeOK, Control
<1>1. "persist" \in Locations
    BY DEF Locations
<1>2. pc' \in [Candidates -> Locations]
    BY <1>0, <1>1, GotoType DEF Control, ExchangeReturns
<1>3. faults' \in 0..MaxFaults
    BY <1>0, FaultType DEF Control, ExchangeReturns
<1>4. \E a \in Answers, m \in Material :
         \/ retained' = [retained EXCEPT ![c].res = a, ![c].mat = m]
         \/ retained' = [retained EXCEPT ![c].res = a]
    BY DEF TypeOK, ExchangeReturns, Answers
<1>5. retained \in [Candidates -> Retained]
    BY DEF TypeOK
<1>6. retained' \in [Candidates -> Retained]
    BY <1>4, <1>5 DEF Retained
<1>7. wire' \in [kind : Answers, mat : Material]
    BY BoundsAssumption DEF ExchangeReturns, Answers, Material, NoMaterial, Tokens, NoTok
<1> QED
    BY <1>0, <1>1, <1>2, <1>3, <1>4, <1>5, <1>6, <1>7
       DEF TypeOK, Control, ExchangeReturns, durable, volatile, mutChain, cmtChain, env, history

\* Persisting the result keeps the types.
LEMMA PersistResultType ==
    ASSUME TypeOK, NEW c \in Candidates, PersistResult(c)
    PROVE  TypeOK'
<1>0. Control
    BY DEF TypeOK, Control
<1>1. PICK ok \in BOOLEAN, l \in Locations :
         /\ Finish(c, ok, l)
         /\ retained' = [retained EXCEPT ![c].persisted = ok, ![c].committed = local]
    BY DEF PersistResult, Locations
<1>2. Control'
    BY <1>0, <1>1, FinishType
<1>3. retained \in [Candidates -> Retained] /\ local \in BOOLEAN
    BY DEF TypeOK
<1>4. retained' \in [Candidates -> Retained]
    BY ZenonT(30), <1>1, <1>3 DEF Retained
<1>5. retained[c].res \in Answers /\ retained[c].mat \in Material
    BY DEF TypeOK, Retained
<1>6. result' \in [Ops -> [kind : Answers \cup {"attempt"}, mat : Material]]
    BY <1>5 DEF TypeOK, PersistResult
<1> QED
    BY <1>0, <1>1, <1>2, <1>3, <1>4, <1>5, <1>6
       DEF TypeOK, Control, PersistResult, durable, volatile, mutChain, cmtChain, env, history

\* Committing the outcome keeps the types.
LEMMA CommitRecordType ==
    ASSUME TypeOK, NEW c \in Candidates, CommitRecord(c), retained[c].op \in Ops
    PROVE  TypeOK'
<1>0. Control
    BY DEF TypeOK, Control
<1>1. {"idle", "restore", "receipt"} \subseteq Locations
    BY DEF Locations
<1>2. pc' \in [Candidates -> Locations] /\ local' \in BOOLEAN
    BY <1>0, <1>1, GotoType DEF Control, CommitRecord
<1>3. faults' \in 0..MaxFaults
    BY <1>0, FaultType DEF Control, CommitRecord
<1>4. /\ retained \in [Candidates -> Retained]
      /\ retained' = retained \/ retained' = [retained EXCEPT ![c].committed = TRUE]
    BY DEF TypeOK, CommitRecord
<1>5. retained' \in [Candidates -> Retained]
    BY ZenonT(30), <1>4 DEF Retained
<1>6. /\ retained[c].mat \in Material /\ retained[c].op \in 0..MaxOps
      /\ rec[c] \in Record /\ NoOp \in 0..MaxOps
    BY BoundsAssumption DEF TypeOK, Retained, NoOp
<1>7. [rec[c] EXCEPT !.st = "ready", !.op = NoOp] \in Record
    BY <1>6 DEF Record, OperationStates
<1>8. [rec[c] EXCEPT !.st = "ready", !.op = NoOp, !.cred = retained[c].mat] \in Record
    BY <1>6 DEF Record, OperationStates
<1>9. [rec[c] EXCEPT !.st = "rotation_uncertain", !.op = retained[c].op] \in Record
    BY <1>6 DEF Record, OperationStates
<1>10. CommittedRecord(c) \in Record
    BY <1>7, <1>8, <1>9 DEF CommittedRecord
<1>11. rec' \in [Candidates -> Record]
    BY <1>10 DEF TypeOK, CommitRecord
<1>12. applied' \subseteq Ops
    BY DEF TypeOK, CommitRecord
<1> QED
    BY <1>0, <1>1, <1>2, <1>3, <1>4, <1>5, <1>6, <1>7, <1>8, <1>9, <1>10, <1>11, <1>12
       DEF TypeOK, Control, CommitRecord, durable, volatile, mutChain, cmtChain, env, history

\* Restoring the uncertain state keeps the types.
LEMMA RestoreRotationUncertainType ==
    ASSUME TypeOK, NEW c \in Candidates, RestoreRotationUncertain(c)
    PROVE  TypeOK'
<1>0. Control
    BY DEF TypeOK, Control
<1>1. "idle" \in Locations
    BY DEF Locations
<1>2. pc' \in [Candidates -> Locations]
    BY <1>0, <1>1, GotoType DEF Control, RestoreRotationUncertain
<1>3. retained[c].op \in 0..MaxOps
    BY DEF TypeOK, Retained
<1>4. rec \in [Candidates -> Record] /\ rec[c].op \in 0..MaxOps
    BY DEF TypeOK, Record
<1>5. \/ rec' = rec
      \/ \E o \in 0..MaxOps :
           rec' = [rec EXCEPT ![c].st = "rotation_uncertain", ![c].op = o]
    BY <1>3, <1>4 DEF RestoreRotationUncertain
<1>6. rec' \in [Candidates -> Record]
    BY <1>4, <1>5 DEF Record, OperationStates
<1> QED
    BY <1>0, <1>1, <1>2, <1>3, <1>4, <1>5, <1>6
       DEF TypeOK, Control, RestoreRotationUncertain, durable, volatile, mutChain, cmtChain, env, history

\* Terminalising the commit chain goes on or leaves the call.
LEMMA ReceiptFinishes ==
    ASSUME NEW c \in Candidates, PublishReceipt(c)
    PROVE  \E ok \in BOOLEAN : Finish(c, ok, "complete")
<1>1. CASE Recorded(cmtSeen, retained[c].op) /\ Goto(c, "complete")
             /\ UNCHANGED <<local, faults>>
    BY <1>1 DEF Finish
<1>2. CASE \E out \in Outcomes : Finish(c, out = "ok", "complete")
    BY <1>2
<1> QED
    BY <1>1, <1>2 DEF PublishReceipt

\* Terminalising the commit chain keeps the types.
LEMMA PublishReceiptType ==
    ASSUME TypeOK, NEW c \in Candidates, PublishReceipt(c)
    PROVE  TypeOK'
<1>0. Control
    BY DEF TypeOK, Control
<1>1. "complete" \in Locations
    BY DEF Locations
<1>2. PICK ok \in BOOLEAN : Finish(c, ok, "complete")
    BY ReceiptFinishes
<1>3. Control'
    BY <1>0, <1>1, <1>2, FinishType
<1>4. cmt' \in Commitment
    BY DEF TypeOK, PublishReceipt, Phases, Commitment, cmtChain
<1>5. cmtSeen' \in Commitment /\ cmtGate' \in BOOLEAN
    BY <1>4 DEF TypeOK, PublishReceipt, cmtChain
<1> QED
    BY <1>0, <1>1, <1>2, <1>3, <1>4, <1>5
       DEF TypeOK, Control, PublishReceipt, durable, volatile, mutChain, cmtChain, env, history

\* Terminalising the mutation chain keeps the types.
LEMMA CompleteRefreshMutationType ==
    ASSUME TypeOK, NEW c \in Candidates, CompleteRefreshMutation(c)
    PROVE  TypeOK'
<1>0. Control
    BY DEF TypeOK, Control
<1>1. "idle" \in Locations
    BY DEF Locations
<1>2. pc' \in [Candidates -> Locations] /\ local' \in BOOLEAN
    BY <1>0, <1>1, GotoType DEF Control, CompleteRefreshMutation
<1>3. faults' \in 0..MaxFaults
    BY <1>0, FaultType DEF Control, CompleteRefreshMutation
<1>4. NoRetained \in Retained
    BY BoundsAssumption
       DEF NoRetained, Retained, NoOp, Answers, Material, NoMaterial, Tokens, NoTok
<1>5. retained' \in [Candidates -> Retained]
    BY <1>4 DEF TypeOK, CompleteRefreshMutation
<1>6. mut' \in Reservation
    BY DEF TypeOK, CompleteRefreshMutation, Phases, Reservation
<1>7. mutSeen' \in Reservation /\ mutGate' \in BOOLEAN
    BY <1>6 DEF TypeOK, CompleteRefreshMutation, mutChain
<1> QED
    BY <1>0, <1>1, <1>2, <1>3, <1>4, <1>5, <1>6, <1>7
       DEF TypeOK, Control, CompleteRefreshMutation, durable, volatile, mutChain, cmtChain, env, history

\* A refused authority step keeps the types.
LEMMA StepRefusedType ==
    ASSUME TypeOK, NEW c \in Candidates, StepRefused(c)
    PROVE  TypeOK'
<1>0. Control
    BY DEF TypeOK, Control
<1>1. "idle" \in Locations
    BY DEF Locations
<1>2. Control'
    BY <1>0, <1>1, GotoType DEF Control, StepRefused, env
<1> QED
    BY <1>0, <1>1, <1>2 DEF TypeOK, Control, StepRefused, durable, volatile, mutChain, cmtChain, env, history

\* Writing auth.json keeps the types.
LEMMA WriteSystemAuthType ==
    ASSUME TypeOK, NEW c \in Candidates, WriteSystemAuth(c)
    PROVE  TypeOK'
<1>0. Control
    BY DEF TypeOK, Control
<1>1. "activated" \in Locations
    BY DEF Locations
<1>2. PICK ok \in BOOLEAN : Finish(c, ok, "activated")
    BY DEF WriteSystemAuth
<1>3. Control'
    BY <1>0, <1>1, <1>2, FinishType
<1>4. auth' \in Tokens
    BY DEF TypeOK, WriteSystemAuth, Record, Material
<1> QED
    BY <1>0, <1>1, <1>2, <1>3, <1>4
       DEF TypeOK, Control, WriteSystemAuth, durable, volatile, mutChain, cmtChain, env, history

\* Finishing an activation keeps the types.
LEMMA FinishActivateType ==
    ASSUME TypeOK, NEW c \in Candidates, FinishActivate(c)
    PROVE  TypeOK'
<1>0. Control
    BY DEF TypeOK, Control
<1>1. "idle" \in Locations
    BY DEF Locations
<1>2. PICK ok \in BOOLEAN : Finish(c, ok, "idle")
    BY DEF FinishActivate
<1>3. Control'
    BY <1>0, <1>1, <1>2, FinishType
<1>4. /\ rec \in [Candidates -> Record]
      /\ rec' = [rec EXCEPT ![c].st = "ready", ![c].own = "exported"]
    BY DEF TypeOK, FinishActivate
<1>5. rec' \in [Candidates -> Record]
    BY ZenonT(30), <1>4 DEF Record, OperationStates
<1> QED
    BY <1>0, <1>1, <1>2, <1>3, <1>4, <1>5
       DEF TypeOK, Control, FinishActivate, durable, volatile, mutChain, cmtChain, env, history

\* Beginning an activation keeps the types.
LEMMA BeginActivateType ==
    ASSUME TypeOK, NEW c \in Candidates, BeginActivate(c)
    PROVE  TypeOK'
<1>0. Control
    BY DEF TypeOK, Control
<1>1. "activate" \in Locations
    BY DEF Locations
<1>2. PICK ok \in BOOLEAN : Finish(c, ok, "activate")
    BY DEF BeginActivate
<1>3. Control'
    BY <1>0, <1>1, <1>2, FinishType
<1>4. /\ rec \in [Candidates -> Record]
      /\ rec' = [rec EXCEPT ![c].st = "activation_pending", ![c].own = "exported"]
    BY DEF TypeOK, BeginActivate
<1>5. rec' \in [Candidates -> Record]
    BY <1>4 DEF Record, OperationStates
<1>6. acts' \in 0..MaxActs
    BY BoundsAssumption DEF TypeOK, BeginActivate
<1> QED
    BY <1>0, <1>1, <1>2, <1>3, <1>4, <1>5, <1>6
       DEF TypeOK, Control, BeginActivate, durable, volatile, mutChain, cmtChain, env, history

\* A login keeps the types.
LEMMA SaveLoginType ==
    ASSUME TypeOK, NEW c \in Candidates, SaveLogin(c)
    PROVE  TypeOK'
<1>0. Control
    BY DEF TypeOK, Control
<1>1. [rt |-> nextTok, at |-> nextTok] \in Material
    BY BoundsAssumption DEF TypeOK, SaveLogin, Tokens, Material
<1>2. PICK m \in Material :
         rec' = [rec EXCEPT ![c].cred = m, ![c].own = "cq_owned",
                            ![c].st = "ready"]
    BY <1>1 DEF TypeOK, SaveLogin
<1>3. rec \in [Candidates -> Record] /\ rec[c] \in Record
    BY DEF TypeOK
<1>4. [rec[c] EXCEPT !.cred = m, !.own = "cq_owned", !.st = "ready"] \in Record
    BY <1>3 DEF Record, OperationStates
<1>5. rec' = [rec EXCEPT ![c] =
                 [rec[c] EXCEPT !.cred = m, !.own = "cq_owned", !.st = "ready"]]
    BY <1>2, <1>3
<1>6. rec' \in [Candidates -> Record]
    BY <1>3, <1>4, <1>5
<1>7. nextTok' \in 1..(MaxTok + 1)
    BY BoundsAssumption DEF TypeOK, SaveLogin
<1> QED
    BY <1>0, <1>1, <1>2, <1>3, <1>4, <1>5, <1>6, <1>7
       DEF TypeOK, Control, SaveLogin, durable, volatile, mutChain, cmtChain, env, history

\* A removal keeps the types.
LEMMA RemoveManagedType ==
    ASSUME TypeOK, NEW c \in Candidates, RemoveManaged(c)
    PROVE  TypeOK'
<1>0. Control
    BY DEF TypeOK, Control
<1>1. rec' \in [Candidates -> Record]
    BY BoundsAssumption
       DEF TypeOK, RemoveManaged, Record, OperationStates, Material, NoMaterial, Tokens, NoTok, NoOp
<1>2. auth' \in Tokens
    BY BoundsAssumption DEF TypeOK, RemoveManaged, Tokens, NoTok
<1>3. acts' \in 0..MaxActs
    BY BoundsAssumption DEF TypeOK, RemoveManaged
<1> QED
    BY <1>0, <1>1, <1>2, <1>3 DEF TypeOK, Control, RemoveManaged, durable, volatile, mutChain, cmtChain, env, history

\* A failing storage step keeps the types.
LEMMA StepFailsType ==
    ASSUME TypeOK, NEW c \in Candidates, StepFails(c)
    PROVE  TypeOK'
<1>0. Control
    BY DEF TypeOK, Control
<1>1. "idle" \in Locations
    BY DEF Locations
<1>2. Control'
    BY <1>0, <1>1, GotoType, FaultType DEF Control, StepFails
<1>3. mutSeen' \in Reservation /\ cmtSeen' \in Commitment
    BY NoAnchorType DEF TypeOK, StepFails, Unread
<1> QED
    BY <1>0, <1>1, <1>2, <1>3 DEF TypeOK, Control, StepFails, durable, volatile, mutChain, cmtChain, env, history

\* A rewrite of auth.json by the Codex CLI keeps the types.
LEMMA SystemRewritesAuthType ==
    ASSUME TypeOK, SystemRewritesAuth
    PROVE  TypeOK'
<1>0. Control
    BY DEF TypeOK, Control
<1>1. auth' \in Tokens
    BY BoundsAssumption DEF SystemRewritesAuth, Tokens, NoTok
<1>2. acts' \in 0..MaxActs
    BY BoundsAssumption DEF TypeOK, SystemRewritesAuth
<1> QED
    BY <1>0, <1>1, <1>2 DEF TypeOK, Control, SystemRewritesAuth, durable, volatile, mutChain, cmtChain, env, history

\* A crash keeps the types.
LEMMA CrashType ==
    ASSUME TypeOK, Crash
    PROVE  TypeOK'
<1>0. Control
    BY DEF TypeOK, Control
<1>1. Control'
    BY <1>0, FaultType DEF Control, Crash, Locations
<1>2. retained' \in [Candidates -> Retained]
    BY BoundsAssumption
       DEF Crash, NoRetained, Retained, NoOp, Answers, Material, NoMaterial, Tokens, NoTok
<1>3. wire' \in [kind : Answers, mat : Material]
    BY BoundsAssumption DEF Crash, Answers, Material, NoMaterial, Tokens, NoTok
<1> QED
    BY <1>0, <1>1, <1>2, <1>3, NoAnchorType DEF TypeOK, Control, Crash, durable, volatile, mutChain, cmtChain, env, history

\* A restart keeps the types.
LEMMA RestartType ==
    ASSUME TypeOK, Restart, mut.phase = "selected" => mut.op \in Ops
    PROVE  TypeOK'
<1>0. Control
    BY DEF TypeOK, Control
<1>1. CASE mut.phase # "selected"
    BY <1>0, <1>1 DEF TypeOK, Control, Restart, Phases, Reservation, Commitment, durable, volatile, mutChain, cmtChain, env, history
<1>2. ASSUME mut.phase = "selected" PROVE Hydrated \in Retained
    BY <1>2, BoundsAssumption
       DEF TypeOK, Reservation, Hydrated, Retained, Answers, Material, NoMaterial, Tokens, NoTok
<1>3. CASE mut.phase = "selected"
    BY <1>0, <1>2, <1>3 DEF TypeOK, Control, Restart, Phases, Reservation, Commitment, durable, volatile, mutChain, cmtChain, env, history
<1> QED
    BY <1>0, <1>1, <1>2, <1>3 DEF TypeOK, Control, Restart, durable, volatile, mutChain, cmtChain, env, history

-----------------------------------------------------------------------------
(* The inductive core.                                                     *)

SameRetained(r, q) ==
    /\ q.op = r.op /\ q.attempt = r.attempt
    /\ q.indet = r.indet /\ q.res = r.res

\* What must hold of the retained operation for its call to stand at l.
MayStandAt(r, l) ==
    /\ l \notin {"select", "wait"}
    /\ l \notin {"idle", "activate", "activated"} => r.op # NoOp
    /\ l \in {"mark", "attempt", "exchange"} => ~r.indet /\ r.res = "none"
    /\ l = "exchange" => r.attempt
    /\ l = "persist" => r.res # "none"

\* A step of c that neither issues, sends nor records anything, and leaves
\* every retained operation essentially alone, preserves the core.
LEMMA MoveCore ==
    ASSUME TypeOK, Core, NEW c \in Candidates, NEW l \in Locations,
           pc[c] # "idle" \/ MuFree, pc[c] # "wait",
           pc' = [pc EXCEPT ![c] = l], MayStandAt(retained[c], l),
           UNCHANGED <<up, sent, result, nextOp, wire>>,
           mut'.phase = "selected" => mut' = mut,
           \A d \in Candidates : SameRetained(retained[d], retained'[d])
    PROVE  Core'
<1>1. up = "up" /\ up' = "up"
    BY DEF Core, OneHolder, MuFree
<1>2. \A d \in Candidates : pc'[d] = IF d = c THEN l ELSE pc[d]
    BY DEF TypeOK
<1>3. \A d \in Candidates : d # c => pc[d] = "idle" /\ pc'[d] = "idle"
    BY <1>2 DEF Core, OneHolder, MuFree
<1>4. OneHolder'
    BY <1>1, <1>3 DEF OneHolder
<1>5. \A d \in Candidates : retained'[d].op = retained[d].op
    BY DEF SameRetained
<1>6. \A d \in Candidates : pc'[d] # "select"
    BY <1>2, <1>3 DEF MayStandAt
<1>7. IdentitiesFresh'
    BY <1>5, <1>6 DEF Core, IdentitiesFresh, Unused
<1>8. RetainedDistinct'
    BY <1>5 DEF Core, RetainedDistinct
<1>9. FileCoversExchange'
    BY DEF Core, FileCoversExchange, Known
<1>10. ASSUME NEW d \in Candidates PROVE RetainedCovers(d)'
  <2>1. RetainedCovers(d) /\ pc[d] # "wait" /\ SameRetained(retained[d], retained'[d])
      BY <1>3 DEF Core
  <2> QED
      BY <2>1 DEF RetainedCovers, SameRetained
<1>11. ASSUME NEW d \in Candidates PROVE Located(d)'
  <2>1. SameRetained(retained[d], retained'[d])
      OBVIOUS
  <2>2. CASE d = c
      BY <1>2, <2>1, <2>2 DEF Located, MayStandAt, SameRetained
  <2>3. CASE d # c
      BY <1>3, <2>1, <2>3 DEF Located
  <2> QED
      BY <2>2, <2>3
<1> QED
    BY <1>4, <1>7, <1>8, <1>9, <1>10, <1>11 DEF Core

\* Where Rotate goes after Prepare suits the retained operation.
LEMMA AfterPrepareStands ==
    ASSUME NEW r, NEW committed, r.op # NoOp, r.indet \in BOOLEAN,
           r.attempt \in BOOLEAN
    PROVE  MayStandAt(r, AfterPrepare(r, committed))
BY DEF AfterPrepare, MayStandAt

\* So does where it goes after publishing the commit.
LEMMA AfterPublishStands ==
    ASSUME NEW c, NEW r, NEW committed, r.op # NoOp, r.indet \in BOOLEAN,
           r.attempt \in BOOLEAN
    PROVE  MayStandAt(r, AfterPublish(c, r, committed))
<1>1. CASE ~r.indet /\ r.res = "none" /\ rec[c].st = "ready"
    BY <1>1 DEF AfterPublish, MayStandAt
<1>2. CASE ~(~r.indet /\ r.res = "none" /\ rec[c].st = "ready")
    BY <1>2, AfterPrepareStands DEF AfterPublish
<1> QED
    BY <1>1, <1>2

\* Steps that leave retained, files, identities and the wire alone.
LEMMA PlainCore ==
    ASSUME TypeOK, Core, UNCHANGED <<up, pc, retained, sent, result, nextOp, wire, mut>>
    PROVE  Core'
BY DEF Core, OneHolder, IdentitiesFresh, Unused, CurrentOp, RetainedDistinct,
       FileCoversExchange, Known, RetainedCovers, Located

\* MoveCore for a storage step that took effect.
LEMMA FinishCore ==
    ASSUME TypeOK, Core, NEW c \in Candidates, NEW ok \in BOOLEAN,
           NEW l \in Locations, Finish(c, ok, l),
           pc[c] # "idle" \/ MuFree, pc[c] # "wait",
           MayStandAt(retained[c], l),
           UNCHANGED <<up, sent, result, nextOp, wire>>,
           mut'.phase = "selected" => mut' = mut,
           \A d \in Candidates : SameRetained(retained[d], retained'[d])
    PROVE  Core'
<1>1. "idle" \in Locations /\ MayStandAt(retained[c], "idle")
    BY DEF Locations, MayStandAt
<1>2. CASE ok
    BY <1>2, MoveCore DEF Finish, Goto
<1>3. CASE ~ok
    BY <1>1, <1>3, MoveCore DEF Finish, Goto
<1> QED
    BY <1>2, <1>3

\* A call that leaves with an error preserves the core.
LEMMA LeaveCore ==
    ASSUME TypeOK, Core, NEW c \in Candidates, Goto(c, "idle"),
           pc[c] # "idle", pc[c] # "wait",
           UNCHANGED <<up, sent, result, nextOp, wire, retained>>,
           mut'.phase = "selected" => mut' = mut
    PROVE  Core'
<1>1. "idle" \in Locations /\ MayStandAt(retained[c], "idle")
    BY DEF Locations, MayStandAt
<1>2. \A d \in Candidates : SameRetained(retained[d], retained'[d])
    BY DEF SameRetained
<1> QED
    BY <1>1, <1>2, MoveCore DEF Goto

\* A retained operation that a call works on has a proper identity.
LEMMA RetainedOp ==
    ASSUME TypeOK, Core, NEW c \in Candidates,
           pc[c] \notin {"idle", "select", "activate", "activated"}
    PROVE  /\ retained[c].op \in Ops /\ retained[c].op # NoOp
           /\ retained[c].indet \in BOOLEAN /\ retained[c].attempt \in BOOLEAN
<1>1. retained[c].op # NoOp
    BY DEF Core, Located
<1> QED
    BY <1>1 DEF TypeOK, Retained, Ops, NoOp

\* Suspending a shared lineage preserves the core.
LEMMA SuspendSharedCore ==
    ASSUME TypeOK, Core, NEW c \in Candidates, SuspendShared(c)
    PROVE  Core'
BY PlainCore DEF SuspendShared, durable, volatile, env, history

\* A login preserves the core.
LEMMA SaveLoginCore ==
    ASSUME TypeOK, Core, NEW c \in Candidates, SaveLogin(c)
    PROVE  Core'
BY PlainCore DEF SaveLogin, durable, volatile, env, history

\* A removal preserves the core.
LEMMA RemoveManagedCore ==
    ASSUME TypeOK, Core, NEW c \in Candidates, RemoveManaged(c)
    PROVE  Core'
BY PlainCore DEF RemoveManaged, durable, volatile, env, history

\* A rewrite of auth.json preserves the core.
LEMMA SystemRewritesAuthCore ==
    ASSUME TypeOK, Core, SystemRewritesAuth
    PROVE  Core'
BY PlainCore DEF SystemRewritesAuth, durable, volatile, env, history

\* Publishing the continuation preserves the core.
LEMMA PublishContinuationCore ==
    ASSUME TypeOK, Core, NEW c \in Candidates, PublishContinuation(c)
    PROVE  Core'
<1>1. "commit" \in Locations
    BY DEF Locations
<1>2. PICK ok \in BOOLEAN : Finish(c, ok, "commit")
    BY DEF PublishContinuation
<1>3. \A d \in Candidates : SameRetained(retained[d], retained'[d])
    BY DEF SameRetained, PublishContinuation, durable, volatile, env, history
<1>4. MayStandAt(retained[c], "commit")
    BY RetainedOp DEF MayStandAt, PublishContinuation
<1> QED
    BY <1>1, <1>2, <1>3, <1>4, FinishCore DEF PublishContinuation, durable, volatile, env, history

\* Terminalising the commit chain preserves the core.
LEMMA PublishReceiptCore ==
    ASSUME TypeOK, Core, NEW c \in Candidates, PublishReceipt(c)
    PROVE  Core'
<1>1. "complete" \in Locations
    BY DEF Locations
<1>2. PICK ok \in BOOLEAN : Finish(c, ok, "complete")
    BY ReceiptFinishes
<1>3. \A d \in Candidates : SameRetained(retained[d], retained'[d])
    BY DEF SameRetained, PublishReceipt, durable, volatile, env, history
<1>4. MayStandAt(retained[c], "complete")
    BY RetainedOp DEF MayStandAt, PublishReceipt
<1> QED
    BY <1>1, <1>2, <1>3, <1>4, FinishCore DEF PublishReceipt, durable, volatile, env, history

\* Writing auth.json preserves the core.
LEMMA WriteSystemAuthCore ==
    ASSUME TypeOK, Core, NEW c \in Candidates, WriteSystemAuth(c)
    PROVE  Core'
<1>1. "activated" \in Locations
    BY DEF Locations
<1>2. PICK ok \in BOOLEAN : Finish(c, ok, "activated")
    BY DEF WriteSystemAuth
<1>3. \A d \in Candidates : SameRetained(retained[d], retained'[d])
    BY DEF SameRetained, WriteSystemAuth, durable, volatile, env, history
<1>4. MayStandAt(retained[c], "activated")
    BY RetainedOp DEF MayStandAt, WriteSystemAuth
<1> QED
    BY <1>1, <1>2, <1>3, <1>4, FinishCore DEF WriteSystemAuth, durable, volatile, env, history

\* Finishing an activation preserves the core.
LEMMA FinishActivateCore ==
    ASSUME TypeOK, Core, NEW c \in Candidates, FinishActivate(c)
    PROVE  Core'
<1>1. "idle" \in Locations
    BY DEF Locations
<1>2. PICK ok \in BOOLEAN : Finish(c, ok, "idle")
    BY DEF FinishActivate
<1>3. \A d \in Candidates : SameRetained(retained[d], retained'[d])
    BY DEF SameRetained, FinishActivate, durable, volatile, env, history
<1>4. MayStandAt(retained[c], "idle")
    BY RetainedOp DEF MayStandAt, FinishActivate
<1> QED
    BY <1>1, <1>2, <1>3, <1>4, FinishCore DEF FinishActivate, durable, volatile, env, history

\* Beginning an activation preserves the core.
LEMMA BeginActivateCore ==
    ASSUME TypeOK, Core, NEW c \in Candidates, BeginActivate(c)
    PROVE  Core'
<1>1. "activate" \in Locations /\ MayStandAt(retained[c], "activate")
    BY DEF Locations, MayStandAt
<1>2. PICK ok \in BOOLEAN : Finish(c, ok, "activate")
    BY DEF BeginActivate
<1>3. \A d \in Candidates : SameRetained(retained[d], retained'[d])
    BY DEF SameRetained, BeginActivate
<1>4. MuFree /\ pc[c] # "wait"
    BY DEF BeginActivate, MuFree
<1> QED
    BY <1>1, <1>2, <1>3, <1>4, FinishCore DEF BeginActivate, history

\* A refused selection preserves the core.
LEMMA SelectRefusedCore ==
    ASSUME TypeOK, Core, NEW c \in Candidates, SelectRefused(c)
    PROVE  Core'
BY LeaveCore DEF SelectRefused, durable, volatile, env, history

\* A refused authority step preserves the core.
LEMMA StepRefusedCore ==
    ASSUME TypeOK, Core, NEW c \in Candidates, StepRefused(c)
    PROVE  Core'
<1>1. pc[c] # "idle" /\ pc[c] # "wait"
    BY DEF StepRefused, Accepts
<1> QED
    BY <1>1, LeaveCore DEF StepRefused, durable, volatile, env, history

\* A failing storage step preserves the core.
LEMMA StepFailsCore ==
    ASSUME TypeOK, Core, NEW c \in Candidates, StepFails(c)
    PROVE  Core'
BY LeaveCore DEF StepFails, durable, volatile, env, history

\* Restoring the uncertain state preserves the core.
LEMMA RestoreRotationUncertainCore ==
    ASSUME TypeOK, Core, NEW c \in Candidates, RestoreRotationUncertain(c)
    PROVE  Core'
BY LeaveCore DEF RestoreRotationUncertain, durable, volatile, env, history

\* Marking the record preserves the core.
LEMMA MarkRefreshingCore ==
    ASSUME TypeOK, Core, NEW c \in Candidates, MarkRefreshing(c)
    PROVE  Core'
<1> DEFINE l == AfterPrepare(retained[c], local)
<1>1. l \in Locations
    BY AfterPrepareLocation DEF Locations
<1>2. PICK ok \in BOOLEAN : Finish(c, ok, l)
    BY DEF MarkRefreshing
<1>3. \A d \in Candidates : SameRetained(retained[d], retained'[d])
    BY DEF SameRetained, MarkRefreshing
<1>4. pc[c] = "mark"
    BY DEF MarkRefreshing
<1>5. MayStandAt(retained[c], l)
    BY <1>4, RetainedOp, AfterPrepareStands
<1> HIDE DEF l
<1> QED
    BY <1>1, <1>2, <1>3, <1>4, <1>5, FinishCore DEF MarkRefreshing, history

\* Entering retryRetainedLocked preserves the core.
LEMMA RetryRetainedCore ==
    ASSUME TypeOK, Core, NEW c \in Candidates, RetryRetained(c)
    PROVE  Core'
<1> DEFINE done == \/ retained[c].committed
                   \/ /\ retained[c].res = "ok" /\ rec[c].st = "ready"
                      /\ rec[c].op = NoOp /\ rec[c].cred = retained[c].mat
           l == IF retained[c].digest THEN AfterPublish(c, retained[c], done)
                                      ELSE "continuation"
<1>1. pc' = [pc EXCEPT ![c] = l]
    BY DEF RetryRetained, Goto
<1>2. l \in Locations
    BY AfterPublishLocation DEF Locations
<1>3. retained[c].op # NoOp
    BY DEF RetryRetained, RetainedExists
<1>4. retained[c].indet \in BOOLEAN /\ retained[c].attempt \in BOOLEAN
    BY DEF TypeOK, Retained
<1>5. MayStandAt(retained[c], AfterPublish(c, retained[c], done))
    BY <1>3, <1>4, AfterPublishStands
<1>6. MayStandAt(retained[c], "continuation")
    BY <1>3 DEF MayStandAt
<1>7. MayStandAt(retained[c], l)
    BY <1>5, <1>6
<1>8. \A d \in Candidates : SameRetained(retained[d], retained'[d])
    BY DEF SameRetained, RetryRetained
<1>9. MuFree /\ pc[c] # "wait"
    BY DEF RetryRetained, MuFree
<1> HIDE DEF l
<1> QED
    BY <1>1, <1>2, <1>7, <1>8, <1>9, MoveCore DEF RetryRetained, durable, env, history

\* Publishing the commit preserves the core.
LEMMA PublishCommitCore ==
    ASSUME TypeOK, Core, NEW c \in Candidates, PublishCommit(c)
    PROVE  Core'
<1>1. pc[c] = "commit"
    BY DEF PublishCommit
<1>2. retained[c].op # NoOp /\ retained[c].indet \in BOOLEAN /\ retained[c].attempt \in BOOLEAN
    BY <1>1, RetainedOp
<1>3. PICK ok \in BOOLEAN :
         /\ retained' = [retained EXCEPT ![c] = [retained[c] EXCEPT !.digest = ok]]
         /\ Finish(c, ok, AfterPublish(c, [retained[c] EXCEPT !.digest = ok], local))
    BY DEF PublishCommit
<1> DEFINE r == [retained[c] EXCEPT !.digest = ok]
           l == AfterPublish(c, r, local)
<1>4. SameRetained(retained[c], r)
    BY DEF SameRetained, TypeOK, Retained
<1>5. \A d \in Candidates : SameRetained(retained[d], retained'[d])
    BY <1>3, <1>4 DEF SameRetained, TypeOK
<1>6. l \in Locations
    BY AfterPublishLocation DEF Locations
<1>7. MayStandAt(r, l)
    BY <1>2, <1>4, AfterPublishStands DEF SameRetained
<1> HIDE DEF l
<1>8. MayStandAt(retained[c], l)
    BY <1>4, <1>7 DEF SameRetained, MayStandAt
<1> QED
    BY <1>1, <1>3, <1>5, <1>6, <1>8, FinishCore DEF PublishCommit, history, l

\* Committing the outcome preserves the core.
LEMMA CommitRecordCore ==
    ASSUME TypeOK, Core, NEW c \in Candidates, CommitRecord(c)
    PROVE  Core'
<1>1. pc[c] = "record" /\ retained[c].op # NoOp
    BY RetainedOp DEF CommitRecord
<1>2. PICK l \in {"idle", "restore", "receipt"} : Goto(c, l)
    BY DEF CommitRecord
<1>3. l \in Locations /\ MayStandAt(retained[c], l)
    BY <1>1 DEF Locations, MayStandAt
<1>4. \A d \in Candidates : SameRetained(retained[d], retained'[d])
  <2>1. \/ retained' = retained
        \/ retained' = [retained EXCEPT ![c].committed = TRUE]
      BY DEF CommitRecord
  <2> QED
      BY <2>1 DEF SameRetained, TypeOK, Retained
<1> QED
    BY <1>1, <1>2, <1>3, <1>4, MoveCore DEF CommitRecord, Goto

\* Issuing an operation identity preserves the core.
LEMMA BeginRefreshCore ==
    ASSUME TypeOK, Core, NEW c \in Candidates, BeginRefresh(c)
    PROVE  Core'
<1>1. /\ MuFree /\ nextOp <= MaxOps /\ nextOp' = nextOp + 1
      /\ pc' = [pc EXCEPT ![c] = "select"]
      /\ UNCHANGED <<mut, result, up, retained, wire, sent>>
    BY DEF BeginRefresh, Goto, durable, history
<1>2. \A d \in Candidates : pc[d] = "idle" /\ pc'[d] = IF d = c THEN "select" ELSE "idle"
    BY <1>1 DEF MuFree, TypeOK
<1>3. nextOp \in Ops /\ nextOp' - 1 = nextOp
    BY <1>1, BoundsAssumption DEF TypeOK, Ops
<1>4. OneHolder'
    BY <1>1, <1>2 DEF MuFree, OneHolder
<1>5. Unused(nextOp) /\ \A d \in Candidates : retained[d].op \in 0..MaxOps /\ retained[d].op < nextOp
    BY <1>3 DEF Core, IdentitiesFresh, TypeOK, Ops, Retained
<1>6. IdentitiesFresh'
    BY <1>1, <1>2, <1>3, <1>5 DEF Core, IdentitiesFresh, Unused, CurrentOp, TypeOK, Ops
<1>7. RetainedDistinct' /\ FileCoversExchange'
    BY <1>1 DEF Core, RetainedDistinct, FileCoversExchange, Known
<1>8. \A d \in Candidates : RetainedCovers(d)' /\ Located(d)'
    BY <1>1, <1>2 DEF Core, RetainedCovers, Located
<1> QED
    BY <1>4, <1>6, <1>7, <1>8 DEF Core

\* Selecting and retaining a fresh operation preserves the core.
LEMMA SelectRefreshMutationCore ==
    ASSUME TypeOK, Core, NEW c \in Candidates, SelectRefreshMutation(c)
    PROVE  Core'
<1>1. /\ pc[c] = "select" /\ mut'.op = CurrentOp
      /\ UNCHANGED <<result, up, wire, sent, nextOp>>
    BY DEF SelectRefreshMutation, history
<1>2. PICK ok \in BOOLEAN :
         /\ Finish(c, ok, "continuation")
         /\ retained' = IF ok THEN [retained EXCEPT ![c] =
                                      [NoRetained EXCEPT !.op = CurrentOp]]
                              ELSE retained
    BY DEF SelectRefreshMutation
<1>3. pc' = [pc EXCEPT ![c] = IF ok THEN "continuation" ELSE "idle"]
    BY <1>2 DEF Finish, Goto
<1>4. \A d \in Candidates : /\ pc'[d] = IF d = c /\ ok THEN "continuation" ELSE "idle"
                            /\ d # c => pc[d] = "idle"
    BY <1>1, <1>3 DEF Core, OneHolder, TypeOK
<1>5. up = "up"
    BY <1>1 DEF Core, OneHolder
<1>6. /\ CurrentOp \in Ops /\ Unused(CurrentOp) /\ CurrentOp < nextOp /\ CurrentOp # NoOp
      /\ \A d \in Candidates : retained[d].op # CurrentOp
    BY <1>1 DEF Core, IdentitiesFresh, TypeOK, CurrentOp, Ops, NoOp
<1>7. \A d \in Candidates :
         \/ retained'[d] = retained[d]
         \/ /\ d = c /\ ok
            /\ retained'[d].op = CurrentOp /\ ~retained'[d].attempt
            /\ ~retained'[d].indet /\ retained'[d].res = "none"
    BY <1>2 DEF TypeOK, NoRetained
<1>8. OneHolder'
    BY <1>1, <1>4, <1>5 DEF OneHolder
<1>9. IdentitiesFresh'
  <2>1. \A o \in Ops : o >= nextOp => Unused(o)
      BY DEF Core, IdentitiesFresh
  <2>2. \A d \in Candidates : retained'[d].op < nextOp
      BY <1>6, <1>7 DEF Core, IdentitiesFresh
  <2> QED
      BY <1>1, <1>4, <1>6, <2>1, <2>2 DEF IdentitiesFresh, Unused
<1>10. RetainedDistinct'
    BY <1>6, <1>7 DEF Core, RetainedDistinct
<1>11. FileCoversExchange'
    BY <1>1 DEF Core, FileCoversExchange, Known
<1>12. ASSUME NEW d \in Candidates PROVE RetainedCovers(d)'
  <2>1. CASE retained'[d] = retained[d]
      BY <1>1, <1>4, <2>1 DEF Core, RetainedCovers
  <2>2. CASE retained'[d] # retained[d]
      BY <1>1, <1>6, <1>7, <2>2 DEF RetainedCovers, Unused
  <2> QED
      BY <2>1, <2>2
<1>13. ASSUME NEW d \in Candidates PROVE Located(d)'
  <2>1. CASE d = c /\ ok
    <3>1. retained'[d].op = CurrentOp
        BY <1>2, <2>1 DEF TypeOK, NoRetained
    <3> QED
        BY <1>4, <1>6, <2>1, <3>1 DEF Located
  <2>2. CASE ~(d = c /\ ok)
      BY <1>4, <2>2 DEF Located
  <2> QED
      BY <2>1, <2>2
<1> QED
    BY <1>8, <1>9, <1>10, <1>11, <1>12, <1>13 DEF Core

\* Persisting the attempt preserves the core.
LEMMA PersistAttemptCore ==
    ASSUME TypeOK, Core, NEW c \in Candidates, PersistAttempt(c)
    PROVE  Core'
<1>1. /\ pc[c] = "attempt"
      /\ UNCHANGED <<mut, up, wire, sent, nextOp>>
    BY DEF PersistAttempt, durable, volatile, env, history
<1>2. /\ retained[c].op \in Ops /\ retained[c].op # NoOp
      /\ up = "up" /\ \A d \in Candidates : d # c => pc[d] = "idle"
    BY <1>1, RetainedOp DEF Core, OneHolder
<1>3. PICK ok \in BOOLEAN : /\ Finish(c, ok, "exchange")
                            /\ retained' = [retained EXCEPT ![c].attempt = ok]
    BY DEF PersistAttempt
<1> DEFINE o == retained[c].op
<1>4. pc' = [pc EXCEPT ![c] = IF ok THEN "exchange" ELSE "idle"]
    BY <1>3 DEF Finish, Goto
<1>5. \A d \in Candidates : pc'[d] = IF d = c /\ ok THEN "exchange" ELSE "idle"
    BY <1>2, <1>4 DEF TypeOK
<1>6. /\ \A d \in Candidates : d # c => retained'[d] = retained[d]
      /\ retained'[c].op = o /\ retained'[c].indet = retained[c].indet
      /\ retained'[c].res = retained[c].res /\ retained'[c].attempt = ok
    BY <1>3 DEF TypeOK, Retained
<1>7. /\ \A x \in Ops : x # o => result'[x] = result[x]
      /\ result'[o].kind # "none"
      /\ result'[o].kind \in {"none", "attempt"} <=> result[o].kind \in {"none", "attempt"}
  <2>1. /\ o \in Ops
        /\ result \in [Ops -> [kind : Answers \cup {"attempt"}, mat : Material]]
      BY <1>2 DEF TypeOK
  <2>2. CASE result[o].kind = "none"
    <3>1. result' = [result EXCEPT ![o].kind = "attempt"]
        BY <2>2 DEF PersistAttempt
    <3> HIDE DEF o
    <3>2. result'[o].kind = "attempt" /\ \A x \in Ops : x # o => result'[x] = result[x]
        BY <2>1, <3>1
    <3> QED
        BY <2>2, <3>2
  <2>3. CASE result[o].kind # "none"
    <3>1. result' = result
        BY <2>3 DEF PersistAttempt
    <3> QED
        BY <2>3, <3>1
  <2> QED
      BY <2>2, <2>3
<1> HIDE DEF o
<1>8. o \in Ops /\ o = retained[c].op
    BY <1>2 DEF o
<1>9. OneHolder'
    BY <1>1, <1>2, <1>5 DEF OneHolder
<1>10. \A d \in Candidates : retained'[d].op = retained[d].op
    BY <1>6, <1>8
<1>11. IdentitiesFresh'
  <2>1. o < nextOp /\ nextOp \in Nat /\ o \in Nat
      BY <1>8 DEF Core, IdentitiesFresh, TypeOK, Ops
  <2> QED
      BY <1>1, <1>5, <1>7, <1>10, <2>1 DEF Core, IdentitiesFresh, Unused, Ops
<1>12. RetainedDistinct'
    BY <1>10 DEF Core, RetainedDistinct
<1>13. FileCoversExchange'
  <2>1. ASSUME NEW x \in Ops
        PROVE  /\ sent'[x] <= 1
               /\ sent'[x] = 1 => result'[x].kind # "none"
               /\ Known(x)' => sent'[x] = 1
    <3>1. /\ sent[x] <= 1
          /\ sent[x] = 1 => result[x].kind # "none"
          /\ result[x].kind \notin {"none", "attempt"} => sent[x] = 1
          /\ sent' = sent
        BY <1>1 DEF Core, FileCoversExchange, Known
    <3>2. CASE x = o
        BY <1>7, <3>1, <3>2 DEF Known
    <3>3. CASE x # o
        BY <1>7, <3>1, <3>3 DEF Known
    <3> QED
        BY <3>2, <3>3
  <2> QED
      BY <2>1 DEF FileCoversExchange
<1>14. ASSUME NEW d \in Candidates PROVE RetainedCovers(d)'
  <2>1. CASE d = c
    <3>1. sent[o] = 1 => retained[c].indet \/ retained[c].res # "none"
        BY <1>1, <1>2, <1>8 DEF Core, RetainedCovers
    <3> QED
        BY <1>1, <1>2, <1>6, <1>7, <1>8, <2>1, <3>1 DEF Core, RetainedCovers
  <2>2. CASE d # c
    <3>1. retained[d].op # NoOp => retained[d].op \in Ops /\ retained[d].op # o
        BY <1>2, <1>8, <2>2 DEF Core, RetainedDistinct, TypeOK, Retained, Ops, NoOp
    <3> QED
        BY <1>1, <1>2, <1>5, <1>6, <1>7, <2>2, <3>1 DEF Core, RetainedCovers
  <2> QED
      BY <2>1, <2>2
<1>15. ASSUME NEW d \in Candidates PROVE Located(d)'
    BY <1>1, <1>2, <1>5, <1>6, <1>8 DEF Core, Located
<1> QED
    BY <1>9, <1>11, <1>12, <1>13, <1>14, <1>15 DEF Core

\* Dispatching the exchange preserves the core.
LEMMA ExchangeCore ==
    ASSUME TypeOK, Core, NEW c \in Candidates, Exchange(c)
    PROVE  Core'
<1>1. /\ pc[c] = "exchange"
      /\ UNCHANGED <<mut, up, result, retained, nextOp>>
    BY DEF Exchange, durable, volatile, env, history
<1>2. /\ retained[c].op \in Ops /\ retained[c].op # NoOp
      /\ up = "up" /\ \A d \in Candidates : d # c => pc[d] = "idle"
    BY <1>1, RetainedOp DEF Core, OneHolder
<1> DEFINE o == retained[c].op
<1>3. /\ pc' = [pc EXCEPT ![c] = "wait"]
      /\ sent' = [sent EXCEPT ![o] = sent[o] + 1]
    BY DEF Exchange, Goto
<1>4. wire'.kind # "none"
    BY DEF Exchange, ProviderAnswers
<1>5. \A d \in Candidates : pc'[d] = IF d = c THEN "wait" ELSE "idle"
    BY <1>2, <1>3 DEF TypeOK
<1> HIDE DEF o
<1>6. o \in Ops /\ o = retained[c].op
    BY <1>2 DEF o
<1>7. /\ ~retained[c].indet /\ retained[c].res = "none" /\ retained[c].attempt
      /\ sent[o] = 0 /\ result[o].kind # "none"
  <2>1. ~retained[c].indet /\ retained[c].res = "none" /\ retained[c].attempt
      BY <1>1 DEF Core, Located
  <2>2. sent[o] # 1 /\ result[o].kind # "none"
      BY <1>1, <1>2, <1>6, <2>1 DEF Core, RetainedCovers
  <2>3. sent[o] \in Nat /\ sent[o] <= 1
      BY <1>6 DEF Core, FileCoversExchange, TypeOK
  <2> QED
      BY <2>1, <2>2, <2>3
<1>8. sent'[o] = 1 /\ \A x \in Ops : x # o => sent'[x] = sent[x]
    BY <1>3, <1>6, <1>7 DEF TypeOK
<1>9. OneHolder'
    BY <1>1, <1>2, <1>5 DEF OneHolder
<1>10. IdentitiesFresh'
  <2>1. o < nextOp /\ nextOp \in Nat /\ o \in Nat
      BY <1>6 DEF Core, IdentitiesFresh, TypeOK, Ops
  <2> QED
      BY <1>1, <1>5, <1>8, <2>1 DEF Core, IdentitiesFresh, Unused, Ops
<1>11. RetainedDistinct'
    BY <1>1 DEF Core, RetainedDistinct
<1>12. FileCoversExchange'
    BY <1>1, <1>7, <1>8 DEF Core, FileCoversExchange, Known
<1>13. ASSUME NEW d \in Candidates PROVE RetainedCovers(d)'
  <2>1. CASE d = c
      BY <1>1, <1>5, <1>6, <1>7, <1>8, <2>1 DEF RetainedCovers
  <2>2. CASE d # c
    <3>1. retained[d].op # NoOp => retained[d].op \in Ops /\ retained[d].op # o
        BY <1>2, <1>6, <2>2 DEF Core, RetainedDistinct, TypeOK, Retained, Ops, NoOp
    <3> QED
        BY <1>1, <1>2, <1>5, <1>8, <2>2, <3>1 DEF Core, RetainedCovers
  <2> QED
      BY <2>1, <2>2
<1>14. ASSUME NEW d \in Candidates PROVE Located(d)'
    BY <1>1, <1>2, <1>4, <1>5, <1>6, <1>7, <1>8 DEF Located
<1> QED
    BY <1>9, <1>10, <1>11, <1>12, <1>13, <1>14 DEF Core

\* The exchange's return preserves the core.
LEMMA ExchangeReturnsCore ==
    ASSUME TypeOK, Core, NEW c \in Candidates, ExchangeReturns(c)
    PROVE  Core'
<1>1. /\ pc[c] = "wait" /\ pc' = [pc EXCEPT ![c] = "persist"]
      /\ UNCHANGED <<mut, up, result, sent, nextOp>>
    BY DEF ExchangeReturns, Goto, durable, history
<1>2. /\ retained[c].op \in Ops /\ retained[c].op # NoOp
      /\ up = "up" /\ \A d \in Candidates : d # c => pc[d] = "idle"
    BY <1>1, RetainedOp DEF Core, OneHolder
<1>3. \A d \in Candidates : pc'[d] = IF d = c THEN "persist" ELSE "idle"
    BY <1>1, <1>2 DEF TypeOK
<1>4. sent[retained[c].op] = 1 /\ wire.kind # "none"
    BY <1>1 DEF Core, Located
<1>5. /\ \A d \in Candidates : d # c => retained'[d] = retained[d]
      /\ retained'[c].op = retained[c].op /\ retained'[c].attempt = retained[c].attempt
      /\ retained'[c].res # "none"
  <2>1. /\ \/ retained' = [retained EXCEPT ![c].res = wire.kind, ![c].mat = wire.mat]
           \/ retained' = [retained EXCEPT ![c].res = "uncertain"]
        /\ retained \in [Candidates -> Retained]
      BY DEF ExchangeReturns, TypeOK
  <2> QED
      BY <1>4, <2>1 DEF Retained
<1>6. \A d \in Candidates : retained'[d].op = retained[d].op
    BY <1>5
<1>7. OneHolder'
    BY <1>1, <1>2, <1>3 DEF OneHolder
<1>8. IdentitiesFresh'
    BY <1>1, <1>3, <1>6 DEF Core, IdentitiesFresh, Unused
<1>9. RetainedDistinct'
    BY <1>6 DEF Core, RetainedDistinct
<1>10. FileCoversExchange'
    BY <1>1 DEF Core, FileCoversExchange, Known
<1>11. ASSUME NEW d \in Candidates PROVE RetainedCovers(d)'
  <2>1. RetainedCovers(d)
      BY DEF Core
  <2>2. CASE d = c
      BY <1>1, <1>4, <1>5, <2>1, <2>2 DEF RetainedCovers
  <2>3. CASE d # c
      BY <1>1, <1>2, <1>3, <1>5, <2>1, <2>3 DEF RetainedCovers
  <2> QED
      BY <2>2, <2>3
<1>12. ASSUME NEW d \in Candidates PROVE Located(d)'
    BY <1>2, <1>3, <1>5 DEF Located
<1> QED
    BY <1>7, <1>8, <1>9, <1>10, <1>11, <1>12 DEF Core

\* Persisting the outcome preserves the core.
LEMMA PersistResultCore ==
    ASSUME TypeOK, Core, NEW c \in Candidates, PersistResult(c)
    PROVE  Core'
<1>1. /\ pc[c] = "persist"
      /\ UNCHANGED <<mut, up, wire, sent, nextOp>>
    BY DEF PersistResult, history
<1>2. /\ retained[c].op \in Ops /\ retained[c].op # NoOp
      /\ up = "up" /\ \A d \in Candidates : d # c => pc[d] = "idle"
    BY <1>1, RetainedOp DEF Core, OneHolder
<1>3. PICK ok \in BOOLEAN :
         /\ retained' = [retained EXCEPT ![c].persisted = ok, ![c].committed = local]
         /\ Finish(c, ok, IF local THEN "receipt" ELSE "record")
    BY DEF PersistResult
<1>4. PICK l \in {"receipt", "record", "idle"} : pc' = [pc EXCEPT ![c] = l]
    BY <1>3 DEF Finish, Goto
<1>5. \A d \in Candidates : pc'[d] = IF d = c THEN l ELSE "idle"
    BY <1>2, <1>4 DEF TypeOK
<1>6. \A d \in Candidates : SameRetained(retained[d], retained'[d])
    BY <1>3 DEF SameRetained, TypeOK, Retained
<1> DEFINE o == retained[c].op
<1>7. retained[c].res # "none" /\ sent[o] = 1
    BY <1>1, <1>2 DEF Core, Located, RetainedCovers
<1>8. result'[o].kind = retained[c].res /\ \A x \in Ops : x # o => result'[x] = result[x]
    BY <1>2 DEF PersistResult, TypeOK
<1> HIDE DEF o
<1>9. o \in Ops /\ o = retained[c].op
    BY <1>2 DEF o
<1>10. OneHolder'
    BY <1>1, <1>2, <1>5 DEF OneHolder
<1>11. IdentitiesFresh'
  <2>1. o < nextOp /\ nextOp \in Nat /\ o \in Nat
      BY <1>9 DEF Core, IdentitiesFresh, TypeOK, Ops
  <2> QED
      BY <1>1, <1>5, <1>6, <1>8, <2>1 DEF Core, IdentitiesFresh, Unused, SameRetained, Ops
<1>12. RetainedDistinct'
    BY <1>6 DEF Core, RetainedDistinct, SameRetained
<1>13. FileCoversExchange'
    BY <1>1, <1>7, <1>8 DEF Core, FileCoversExchange, Known
<1>14. ASSUME NEW d \in Candidates PROVE RetainedCovers(d)'
  <2>1. RetainedCovers(d) /\ pc[d] # "wait" /\ SameRetained(retained[d], retained'[d])
      BY <1>1, <1>2, <1>6 DEF Core
  <2>2. CASE d = c
      BY <1>1, <1>7, <1>8, <1>9, <2>1, <2>2 DEF RetainedCovers, SameRetained
  <2>3. CASE d # c
    <3>1. retained[d].op # NoOp => retained[d].op \in Ops /\ retained[d].op # o
        BY <1>2, <1>9, <2>3 DEF Core, RetainedDistinct, TypeOK, Retained, Ops, NoOp
    <3> QED
        BY <1>1, <1>8, <2>1, <3>1 DEF RetainedCovers, SameRetained
  <2> QED
      BY <2>2, <2>3
<1>15. ASSUME NEW d \in Candidates PROVE Located(d)'
  <2>1. SameRetained(retained[d], retained'[d])
      BY <1>6
  <2> QED
      BY <1>2, <1>5, <2>1 DEF Located, SameRetained
<1> QED
    BY <1>10, <1>11, <1>12, <1>13, <1>14, <1>15 DEF Core

\* Completing the reservation preserves the core.
LEMMA CompleteRefreshMutationCore ==
    ASSUME TypeOK, Core, NEW c \in Candidates, CompleteRefreshMutation(c)
    PROVE  Core'
<1>1. /\ pc[c] = "complete" /\ pc' = [pc EXCEPT ![c] = "idle"]
      /\ UNCHANGED <<up, wire, result, sent, nextOp>>
    BY DEF CompleteRefreshMutation, Goto, history
<1>2. mut'.phase = "selected" => mut' = mut
    BY DEF CompleteRefreshMutation, TypeOK, Reservation
<1>3. \/ retained' = retained
      \/ retained' = [retained EXCEPT ![c] = NoRetained]
    BY DEF CompleteRefreshMutation
<1>4. up = "up" /\ \A d \in Candidates : pc'[d] = "idle" /\ pc[d] # "wait"
    BY <1>1 DEF Core, OneHolder, TypeOK
<1>5. \A d \in Candidates : \/ retained'[d] = retained[d]
                             \/ retained'[d] = NoRetained
    BY <1>3 DEF TypeOK
<1>6. OneHolder'
    BY <1>1, <1>4 DEF OneHolder
<1>7. \A d \in Candidates : retained'[d].op = retained[d].op \/ retained'[d].op = NoOp
    BY <1>5 DEF NoRetained
<1>8. IdentitiesFresh'
  <2>1. NoOp < nextOp
      BY DEF NoOp, TypeOK
  <2> QED
      BY <1>1, <1>2, <1>4, <1>7, <2>1 DEF Core, IdentitiesFresh, Unused
<1>9. RetainedDistinct'
    BY <1>7 DEF Core, RetainedDistinct
<1>10. FileCoversExchange'
    BY <1>1 DEF Core, FileCoversExchange, Known
<1>11. ASSUME NEW d \in Candidates PROVE RetainedCovers(d)'
  <2>1. CASE retained'[d] = retained[d]
      BY <1>1, <1>4, <2>1 DEF Core, RetainedCovers
  <2>2. CASE retained'[d] = NoRetained
      BY <2>2 DEF RetainedCovers, NoRetained
  <2> QED
      BY <1>5, <2>1, <2>2
<1>12. ASSUME NEW d \in Candidates PROVE Located(d)'
    BY <1>4 DEF Located
<1> QED
    BY <1>6, <1>8, <1>9, <1>10, <1>11, <1>12 DEF Core

\* A crash preserves the core.
LEMMA CrashCore ==
    ASSUME TypeOK, Core, Crash
    PROVE  Core'
<1>1. /\ \A d \in Candidates : pc'[d] = "idle" /\ retained'[d] = NoRetained
      /\ UNCHANGED <<mut, result, sent, nextOp>>
    BY DEF Crash, durable, history
<1>2. \A d \in Candidates : retained'[d].op = NoOp
    BY <1>1 DEF NoRetained
<1>3. OneHolder'
    BY <1>1 DEF OneHolder
<1>4. IdentitiesFresh'
  <2>1. NoOp < nextOp
      BY DEF NoOp, TypeOK
  <2> QED
      BY <1>1, <1>2, <2>1 DEF Core, IdentitiesFresh, Unused
<1>5. RetainedDistinct' /\ FileCoversExchange'
    BY <1>1, <1>2 DEF Core, RetainedDistinct, FileCoversExchange, Known
<1>6. \A d \in Candidates : RetainedCovers(d)' /\ Located(d)'
    BY <1>1, <1>2 DEF RetainedCovers, Located
<1> QED
    BY <1>3, <1>4, <1>5, <1>6 DEF Core

\* A restart preserves the core: what it retains is what the files say.
LEMMA RestartCore ==
    ASSUME TypeOK, Core, Restart
    PROVE  Core'
<1>1. /\ UNCHANGED <<mut, result, sent, nextOp, pc, wire>> /\ up # "up" /\ up' = "up"
      /\ retained' = IF mut.phase = "selected"
                     THEN [retained EXCEPT ![mut.c] = Hydrated] ELSE retained
    BY DEF Restart, env, history
<1>2. \A d \in Candidates : pc[d] = "idle" /\ retained[d] = NoRetained
    BY <1>1 DEF Core, OneHolder
<1>3. \A d \in Candidates : retained[d].op = NoOp
    BY <1>2 DEF NoRetained
<1>4. \A d \in Candidates :
        \/ retained'[d] = NoRetained
        \/ d = mut.c /\ mut.phase = "selected" /\ retained'[d] = Hydrated
    BY <1>1, <1>2 DEF TypeOK
<1>5. mut.phase = "selected" => mut.op \in Ops /\ mut.op < nextOp
    BY DEF Core, IdentitiesFresh
<1>6. /\ Hydrated.op = mut.op
      /\ Hydrated.attempt = (result[mut.op].kind # "none")
      /\ Hydrated.indet = (result[mut.op].kind = "attempt")
      /\ Hydrated.res = IF result[mut.op].kind \notin {"none", "attempt"}
                        THEN result[mut.op].kind ELSE "none"
    BY DEF Hydrated
<1>7. \A d \in Candidates :
        \/ retained'[d].op = NoOp
        \/ d = mut.c /\ mut.phase = "selected" /\ retained'[d].op = mut.op
    BY <1>4, <1>6 DEF NoRetained
<1>8. OneHolder'
    BY <1>1, <1>2 DEF OneHolder
<1>9. IdentitiesFresh'
  <2>1. NoOp < nextOp
      BY DEF NoOp, TypeOK
  <2>2. \A d \in Candidates : retained'[d].op < nextOp
      BY <1>5, <1>7, <2>1
  <2> QED
      BY <1>1, <1>2, <2>2 DEF Core, IdentitiesFresh, Unused
<1>10. RetainedDistinct'
    BY <1>7 DEF RetainedDistinct
<1>11. FileCoversExchange'
    BY <1>1 DEF Core, FileCoversExchange, Known
<1>12. ASSUME NEW d \in Candidates PROVE RetainedCovers(d)'
  <2>1. CASE retained'[d] = NoRetained
      BY <2>1 DEF RetainedCovers, NoRetained
  <2>2. CASE mut.phase = "selected" /\ retained'[d] = Hydrated
    <3>1. /\ sent[mut.op] = 1 => result[mut.op].kind # "none"
          /\ result[mut.op].kind \notin {"none", "attempt"} => sent[mut.op] = 1
        BY <1>5, <2>2 DEF Core, FileCoversExchange, Known
    <3> QED
        BY <1>1, <1>6, <2>2, <3>1 DEF RetainedCovers
  <2> QED
      BY <1>4, <2>1, <2>2
<1>13. ASSUME NEW d \in Candidates PROVE Located(d)'
    BY <1>1, <1>2 DEF Located
<1> QED
    BY <1>8, <1>9, <1>10, <1>11, <1>12, <1>13 DEF Core

-----------------------------------------------------------------------------
(* The invariant.                                                          *)

\* The initial state satisfies the invariant.
LEMMA InitInd == Init => IndInv
<1> SUFFICES ASSUME Init PROVE IndInv
    OBVIOUS
<1>1. NoMaterial \in Material /\ NoOp \in 0..MaxOps /\ NoTok \in Tokens
    BY BoundsAssumption DEF NoMaterial, Material, NoOp, NoTok, Tokens
<1>2. rec \in [Candidates -> Record]
    BY <1>1 DEF Init, Record, OperationStates
<1>3. retained \in [Candidates -> Retained]
    BY <1>1 DEF Init, NoRetained, Retained, Answers
<1>4. /\ result \in [Ops -> [kind : Answers \cup {"attempt"}, mat : Material]]
      /\ wire \in [kind : Answers, mat : Material]
    BY <1>1 DEF Init, Answers
<1>5. /\ mut \in Reservation /\ cmt \in Commitment
      /\ mutSeen \in Reservation /\ cmtSeen \in Commitment
    BY NoAnchorType DEF Init
<1>6. TypeOK
  <2>1. /\ auth \in Tokens /\ cont \subseteq Ops /\ up \in {"up", "down", "refused"}
        /\ pc \in [Candidates -> Locations] /\ local \in BOOLEAN
        /\ mutGate \in BOOLEAN /\ cmtGate \in BOOLEAN
      BY <1>1 DEF Init, Locations
  <2>2. /\ nextOp \in 1..(MaxOps + 1) /\ nextTok \in 1..(MaxTok + 1)
        /\ faults \in 0..MaxFaults /\ acts \in 0..MaxActs
      BY BoundsAssumption DEF Init
  <2>3. /\ sent \in [Ops -> Nat] /\ presented \in [Ops -> Tokens]
        /\ spent \subseteq Tokens /\ applied \subseteq Ops
      BY <1>1 DEF Init
  <2> QED
      BY <1>2, <1>3, <1>4, <1>5, <2>1, <2>2, <2>3 DEF TypeOK
<1>7. \A c \in Candidates : pc[c] = "idle" /\ retained[c].op = NoOp
    BY DEF Init, NoRetained
<1>8. OneHolder /\ RetainedDistinct
    BY <1>7 DEF Init, OneHolder, RetainedDistinct
<1>9. IdentitiesFresh
    BY <1>7 DEF Init, IdentitiesFresh, Unused, NoOp, NoReservation
<1>10. FileCoversExchange
    BY DEF Init, FileCoversExchange, Known
<1>11. \A c \in Candidates : RetainedCovers(c) /\ Located(c)
    BY <1>7 DEF RetainedCovers, Located
<1> QED
    BY <1>6, <1>8, <1>9, <1>10, <1>11 DEF IndInv, Core

\* Every step of the refresh transaction and of an activation preserves it.
LEMMA RefreshStepInd ==
    ASSUME TypeOK, Core, NEW c \in Candidates, RefreshStep(c)
    PROVE  TypeOK' /\ Core'
<1>1. pc[c] \notin {"idle", "select", "activate", "activated"} => retained[c].op \in Ops
    BY RetainedOp
<1>2. CASE SelectRefused(c)
    BY <1>2, SelectRefusedType, SelectRefusedCore
<1>3. CASE SelectRefreshMutation(c)
    BY <1>3, SelectRefreshMutationType, SelectRefreshMutationCore
<1>4. CASE PublishContinuation(c)
  <2>1. retained[c].op \in Ops
      BY <1>1, <1>4 DEF PublishContinuation
  <2> QED
      BY <1>4, <2>1, PublishContinuationType, PublishContinuationCore
<1>5. CASE PublishCommit(c)
    BY <1>5, PublishCommitType, PublishCommitCore
<1>6. CASE MarkRefreshing(c)
    BY <1>6, MarkRefreshingType, MarkRefreshingCore
<1>7. CASE PersistAttempt(c)
    BY <1>7, PersistAttemptType, PersistAttemptCore
<1>8. CASE Exchange(c)
  <2>1. retained[c].op \in Ops
      BY <1>1, <1>8 DEF Exchange
  <2> QED
      BY <1>8, <2>1, ExchangeType, ExchangeCore
<1>9. CASE ExchangeReturns(c)
    BY <1>9, ExchangeReturnsType, ExchangeReturnsCore
<1>10. CASE PersistResult(c)
    BY <1>10, PersistResultType, PersistResultCore
<1>11. CASE CommitRecord(c)
  <2>1. retained[c].op \in Ops
      BY <1>1, <1>11 DEF CommitRecord
  <2> QED
      BY <1>11, <2>1, CommitRecordType, CommitRecordCore
<1>12. CASE RestoreRotationUncertain(c)
    BY <1>12, RestoreRotationUncertainType, RestoreRotationUncertainCore
<1>13. CASE PublishReceipt(c)
    BY <1>13, PublishReceiptType, PublishReceiptCore
<1>14. CASE CompleteRefreshMutation(c)
    BY <1>14, CompleteRefreshMutationType, CompleteRefreshMutationCore
<1>15. CASE StepRefused(c)
    BY <1>15, StepRefusedType, StepRefusedCore
<1>16. CASE WriteSystemAuth(c)
    BY <1>16, WriteSystemAuthType, WriteSystemAuthCore
<1>17. CASE FinishActivate(c)
    BY <1>17, FinishActivateType, FinishActivateCore
<1> QED
    BY <1>2, <1>3, <1>4, <1>5, <1>6, <1>7, <1>8, <1>9, <1>10, <1>11,
       <1>12, <1>13, <1>14, <1>15, <1>16, <1>17 DEF RefreshStep

\* So does entering a call, and so do the coordinator's other operations.
LEMMA CallInd ==
    ASSUME TypeOK, Core, NEW c \in Candidates, Call(c) \/ Other(c)
    PROVE  TypeOK' /\ Core'
<1>1. CASE RetryRetained(c)
    BY <1>1, RetryRetainedType, RetryRetainedCore
<1>2. CASE SuspendShared(c)
    BY <1>2, SuspendSharedType, SuspendSharedCore
<1>3. CASE BeginRefresh(c)
    BY <1>3, BeginRefreshType, BeginRefreshCore
<1>4. CASE SaveLogin(c)
    BY <1>4, SaveLoginType, SaveLoginCore
<1>5. CASE BeginActivate(c)
    BY <1>5, BeginActivateType, BeginActivateCore
<1>6. CASE RemoveManaged(c)
    BY <1>6, RemoveManagedType, RemoveManagedCore
<1>7. CASE StepFails(c)
    BY <1>7, StepFailsType, StepFailsCore
<1> QED
    BY <1>1, <1>2, <1>3, <1>4, <1>5, <1>6, <1>7 DEF Call, Other

\* IndInv is inductive.
LEMMA NextInd == IndInv /\ [Next]_vars => IndInv'
<1> SUFFICES ASSUME TypeOK, Core, [Next]_vars PROVE TypeOK' /\ Core'
    BY DEF IndInv
<1>1. ASSUME NEW c \in Candidates, RefreshStep(c) PROVE TypeOK' /\ Core'
    BY <1>1, RefreshStepInd
<1>2. ASSUME NEW c \in Candidates, Call(c) \/ Other(c) PROVE TypeOK' /\ Core'
    BY <1>2, CallInd
<1>3. CASE SystemRewritesAuth
    BY <1>3, SystemRewritesAuthType, SystemRewritesAuthCore
<1>4. CASE Crash
    BY <1>4, CrashType, CrashCore
<1>5. CASE Restart
  <2>1. mut.phase = "selected" => mut.op \in Ops
      BY DEF Core, IdentitiesFresh
  <2> QED
      BY <1>5, <2>1, RestartType, RestartCore
<1>6. CASE RestartRefused
  <2>1. up' = "refused" /\ UNCHANGED <<durable, pc, local, retained, mutChain, cmtChain, env, history>>
      BY <1>6 DEF RestartRefused
  <2>2. TypeOK'
      BY <2>1 DEF TypeOK, durable, mutChain, cmtChain, env, history
  <2>3. up # "up"
      BY <1>6 DEF RestartRefused
  <2>4. Core'
      BY <2>1, <2>3 DEF Core, OneHolder, IdentitiesFresh, Unused, CurrentOp,
                        RetainedDistinct, FileCoversExchange, Known,
                        RetainedCovers, Located, durable, env, history
  <2> QED
      BY <2>2, <2>4
<1>7. CASE UNCHANGED vars
  <2>1. TypeOK'
      BY <1>7 DEF TypeOK, vars, durable, volatile, mutChain, cmtChain, env, history
  <2>2. Core'
      BY <1>7, PlainCore DEF vars, durable, volatile, env, history
  <2> QED
      BY <2>1, <2>2
<1> QED
    BY <1>1, <1>2, <1>3, <1>4, <1>5, <1>6, <1>7 DEF Next

\* Every reachable state of the refresh satisfies the inductive invariant.
THEOREM IndInvHolds == Spec => []IndInv
BY InitInd, NextInd, PTL DEF Spec

\* Records, chain anchors, files, retained operations and locations keep
\* their types through every interleaving, failure, crash and recovery.
THEOREM TypeCorrect == Spec => []TypeOK
<1>1. IndInv => TypeOK
    BY DEF IndInv
<1> QED
    BY <1>1, IndInvHolds, PTL

\* No operation's exchange is dispatched twice, for any number of
\* candidates, operations, faults and restarts.
THEOREM ExchangeOnce == Spec => []ExchangeAtMostOnce
<1>1. IndInv => ExchangeAtMostOnce
    BY DEF IndInv, Core, FileCoversExchange, ExchangeAtMostOnce
<1> QED
    BY <1>1, IndInvHolds, PTL

-----------------------------------------------------------------------------
(* Implementation of AtMostOnceEffect.                                     *)

Intent == {o \in Ops : result[o].kind # "none"}
Outcome == {o \in Ops : result[o].kind \notin {"none", "attempt"}}

\* A step that touches neither the result files nor the exchange counters is
\* a stuttering step of the abstract specification.
LEMMA StutterMap ==
    ASSUME result' = result, sent' = sent
    PROVE  UNCHANGED Effect!vars
BY DEF Effect!vars

\* Every other step of the refresh transaction leaves both alone.
LEMMA OtherStepsMap ==
    ASSUME NEW c \in Candidates, RefreshStep(c) \/ Call(c) \/ Other(c),
           ~PersistAttempt(c), ~Exchange(c), ~PersistResult(c)
    PROVE  result' = result /\ sent' = sent
<1>1. CASE SelectRefused(c) \/ SelectRefreshMutation(c) \/ PublishContinuation(c)
    BY <1>1 DEF SelectRefused, SelectRefreshMutation, PublishContinuation,
                durable, history
<1>2. CASE PublishCommit(c) \/ MarkRefreshing(c) \/ ExchangeReturns(c)
    BY <1>2 DEF PublishCommit, MarkRefreshing, ExchangeReturns, durable, history
<1>3. CASE CommitRecord(c) \/ RestoreRotationUncertain(c) \/ PublishReceipt(c)
    BY <1>3 DEF CommitRecord, RestoreRotationUncertain, PublishReceipt, history
<1>4. CASE CompleteRefreshMutation(c) \/ StepRefused(c) \/ WriteSystemAuth(c)
            \/ FinishActivate(c)
    BY <1>4 DEF CompleteRefreshMutation, StepRefused, WriteSystemAuth,
                FinishActivate, durable, history
<1>5. CASE Call(c)
    BY <1>5 DEF Call, RetryRetained, SuspendShared, BeginRefresh, durable, history
<1>6. CASE Other(c)
    BY <1>6 DEF Other, SaveLogin, BeginActivate, RemoveManaged, StepFails,
                durable, history
<1> QED
    BY <1>1, <1>2, <1>3, <1>4, <1>5, <1>6 DEF RefreshStep

\* PersistAttempt records the intent, or finds it recorded.
LEMMA PersistAttemptMap ==
    ASSUME IndInv, NEW c \in Candidates, PersistAttempt(c)
    PROVE  [Effect!Next]_(Effect!vars)
<1>0. PICK o \in Ops : o = retained[c].op
    BY RetainedOp DEF IndInv, PersistAttempt
<1>1. o \in Ops /\ sent' = sent
    BY DEF PersistAttempt, history
<1>2. result \in [Ops -> [kind : Answers \cup {"attempt"}, mat : Material]]
    BY DEF IndInv, TypeOK
<1>3. CASE result[o].kind = "none"
  <2>1. result' = [result EXCEPT ![o].kind = "attempt"]
      BY <1>0, <1>3 DEF PersistAttempt
  <2>2. result'[o].kind = "attempt" /\ \A x \in Ops : x # o => result'[x] = result[x]
      BY <1>1, <1>2, <2>1
  <2>3. o \notin Intent /\ Intent' = Intent \cup {o}
      BY <1>1, <1>3, <2>2 DEF Intent
  <2>4. Outcome' = Outcome
      BY <1>3, <2>2 DEF Outcome
  <2>5. Effect!RecordIntent(o)
      BY <1>1, <2>3, <2>4 DEF Effect!RecordIntent, Intent, Outcome
  <2>6. Effect!Next
      BY <1>1, <2>5 DEF Effect!Next
  <2> QED
      BY <2>6
<1>4. CASE result[o].kind # "none"
  <2>1. result' = result
      BY <1>0, <1>4 DEF PersistAttempt
  <2> QED
      BY <1>1, <2>1, StutterMap
<1> QED
    BY <1>3, <1>4

\* The exchange is the effect.
LEMMA ExchangeMap ==
    ASSUME IndInv, NEW c \in Candidates, Exchange(c)
    PROVE  [Effect!Next]_(Effect!vars)
<1>0. PICK o \in Ops : o = retained[c].op /\ o # NoOp
    BY RetainedOp DEF IndInv, Exchange
<1>1. pc[c] = "exchange" /\ o \in Ops /\ result' = result
    BY DEF Exchange, durable
<1>2. sent' = [sent EXCEPT ![o] = sent[o] + 1]
    BY <1>0 DEF Exchange
<1>3. ~retained[c].indet /\ retained[c].res = "none" /\ retained[c].attempt
    BY <1>1 DEF IndInv, Core, Located
<1>4. sent[o] # 1 /\ result[o].kind # "none"
    BY <1>0, <1>1, <1>3 DEF IndInv, Core, RetainedCovers
<1>5. sent[o] \in Nat /\ sent[o] <= 1 /\ (Known(o) => sent[o] = 1)
    BY <1>1 DEF IndInv, Core, FileCoversExchange, TypeOK
<1>6. sent[o] = 0
    BY <1>4, <1>5
<1>7. o \in Intent \ Outcome /\ Intent' = Intent /\ Outcome' = Outcome
    BY <1>1, <1>4, <1>5 DEF Intent, Outcome, Known
<1>8. sent' = [sent EXCEPT ![o] = 1]
    BY <1>2, <1>6
<1>9. Effect!Perform(o)
    BY <1>6, <1>7, <1>8 DEF Effect!Perform, Intent, Outcome
<1> QED
    BY <1>1, <1>9 DEF Effect!Next

\* PersistResult records the outcome, or finds it recorded.
LEMMA PersistResultMap ==
    ASSUME IndInv, NEW c \in Candidates, PersistResult(c)
    PROVE  [Effect!Next]_(Effect!vars)
<1>0. PICK o \in Ops : o = retained[c].op /\ o # NoOp
    BY RetainedOp DEF IndInv, PersistResult
<1>1. pc[c] = "persist" /\ o \in Ops /\ sent' = sent
    BY DEF PersistResult, history
<1>2. retained[c].res \in Answers /\ retained[c].res # "none" /\ sent[o] = 1
    BY <1>0, <1>1 DEF IndInv, Core, Located, RetainedCovers, TypeOK, Retained
<1>3. result'[o].kind = retained[c].res /\ \A x \in Ops : x # o => result'[x] = result[x]
    BY <1>0 DEF PersistResult, IndInv, TypeOK
<1>4. /\ \/ result[o].kind = "attempt"
         \/ result[o] = [kind |-> retained[c].res, mat |-> retained[c].mat]
      /\ result' = [result EXCEPT ![o] =
                       [kind |-> retained[c].res, mat |-> retained[c].mat]]
    BY <1>0 DEF PersistResult, ResultReplaceable
<1>5. result \in [Ops -> [kind : Answers \cup {"attempt"}, mat : Material]]
    BY DEF IndInv, TypeOK
<1>6. retained[c].res \notin {"none", "attempt"}
    BY <1>2 DEF Answers
<1>7. CASE result[o].kind = "attempt"
  <2>1. o \notin Outcome /\ Outcome' = Outcome \cup {o}
      BY <1>1, <1>3, <1>6, <1>7 DEF Outcome
  <2>2. Intent' = Intent
      BY <1>1, <1>3, <1>6, <1>7 DEF Intent
  <2>3. Effect!RecordOutcome(o)
      BY <1>1, <1>2, <2>1, <2>2 DEF Effect!RecordOutcome, Intent, Outcome
  <2>4. Effect!Next
      BY <1>1, <2>3 DEF Effect!Next
  <2> QED
      BY <2>4
<1>8. CASE result[o] = [kind |-> retained[c].res, mat |-> retained[c].mat]
  <2>1. result' = result
      BY <1>1, <1>4, <1>5, <1>8
  <2> QED
      BY <1>1, <2>1, StutterMap
<1> QED
    BY <1>4, <1>7, <1>8

\* Every step of the refresh is a step of AtMostOnceEffect or a stutter.
LEMMA NextMap == IndInv /\ [Next]_vars => [Effect!Next]_(Effect!vars)
<1> SUFFICES ASSUME IndInv, [Next]_vars PROVE [Effect!Next]_(Effect!vars)
    OBVIOUS
<1>1. ASSUME NEW c \in Candidates, RefreshStep(c) \/ Call(c) \/ Other(c)
      PROVE  [Effect!Next]_(Effect!vars)
    BY <1>1, PersistAttemptMap, ExchangeMap, PersistResultMap,
       OtherStepsMap, StutterMap
<1>2. CASE SystemRewritesAuth \/ Crash \/ Restart \/ RestartRefused
  <2>1. result' = result /\ sent' = sent
      BY <1>2 DEF SystemRewritesAuth, Crash, Restart, RestartRefused,
                  durable, history
  <2> QED
      BY <2>1, StutterMap
<1>3. CASE UNCHANGED vars
  <2>1. result' = result /\ sent' = sent
      BY <1>3 DEF vars, durable, history
  <2> QED
      BY <2>1, StutterMap
<1> QED
    BY <1>1, <1>2, <1>3 DEF Next

\* The rotation is an at-most-once effect: the result file is its durable
\* intent and then its outcome, the exchange with the provider its effect.
THEOREM RefreshImplements == Spec => ImplementsAtMostOnce
<1>1. Init => Effect!Init
    BY DEF Init, Effect!Init
<1> QED
    BY <1>1, IndInvHolds, NextMap, PTL DEF Spec, ImplementsAtMostOnce, Effect!Spec

=============================================================================
