------------------------ MODULE CredentialOutcomeProofs ------------------------
(***************************************************************************)
(* What becomes of the answer to an exchange, for every set of candidates  *)
(* and every bound: the order of the two chains (ChainOrder), that a       *)
(* durable outcome reaches the record (OutcomeNotDropped), and that a      *)
(* token that was rotated away is not presented again (NoReplay).          *)
(*                                                                         *)
(* Each of the three rests on the one before and on IndInv, in layers:     *)
(*   Chains  which operation the anchors name, against where a call stands *)
(*   Seen    a terminal commit that a chain has in memory is the stored    *)
(*           one, while its operation is selected                          *)
(*   Minted  an answer is recognised in the record by its access token,    *)
(*           which nothing else has: what counts as committed is           *)
(*   Lineage a refresh token belongs to one candidate, and a record that   *)
(*           holds a spent one is claimed by an operation                  *)
(***************************************************************************)
EXTENDS CredentialRefreshProofs

-----------------------------------------------------------------------------
(* Chains.                                                                 *)

Selected(o) == mut.phase = "selected" /\ mut.op = o

\* Up to the record the operation of a call is the selected one.
Reserving == {"continuation", "commit", "mark", "attempt", "exchange", "wait", "persist"}
Published == {"mark", "attempt", "exchange", "wait", "persist", "record", "receipt",
              "complete"}
Ending == {"record", "receipt", "complete"}

CommitEnded(o) == cmt.phase = "terminal" /\ cmt.op = o

\* An operation that has its outcome on file, ready for the record.
Answered(r) == r.digest /\ r.persisted /\ r.res # "none" /\ ~r.indet

Chained(c) ==
    /\ pc[c] \in Reserving => Selected(retained[c].op)
    /\ retained[c].op # NoOp /\ ~Selected(retained[c].op) => Answered(retained[c])
    /\ Selected(retained[c].op) /\ retained[c].op # NoOp => mut.c = c
    /\ pc[c] \in Published => retained[c].digest
    /\ pc[c] \in Ending => Answered(retained[c])
    /\ pc[c] \in {"persist", "restore"} => ~retained[c].indet
    /\ pc[c] = "complete" /\ Selected(retained[c].op) => CommitEnded(retained[c].op)

\* What the commit chain holds in memory was stored under its operation; no
\* anchor names the operation that is about to be selected.
Seen ==
    /\ cmt.op < nextOp /\ cmtSeen.op < nextOp
    /\ \A c \in Candidates : pc[c] = "select" => cmt.op # CurrentOp /\ cmtSeen.op # CurrentOp
    /\ cmtSeen.phase = "terminal" => cmtSeen = cmt \/ ~Selected(cmtSeen.op)

Chains == ChainOrder /\ \A c \in Candidates : Chained(c)

-----------------------------------------------------------------------------
(* Minted.                                                                 *)

\* A token that no record and no result file has.
Unseen(t) ==
    /\ \A d \in Candidates : rec[d].cred.at # t
    /\ \A o \in Ops : result[o].kind = "ok" => result[o].mat.at # t

Issued(t) == t # NoTok /\ t < nextTok

\* A result is the only one with its token, and no record has that token
\* before the result was applied.
Results ==
    \A o \in Ops : result[o].kind = "ok" =>
        /\ Issued(result[o].mat.at)
        /\ \A p \in Ops : result[p].kind = "ok" /\ p # o => result[p].mat.at # result[o].mat.at
        /\ o \notin applied => \A d \in Candidates : rec[d].cred.at # result[o].mat.at

\* The retained answer is the one on file, or is not on file yet.
OnFile(r) == result[r.op].kind = r.res /\ result[r.op].mat = r.mat
NotOnFile(r) ==
    /\ ~r.persisted /\ result[r.op].kind = "attempt"
    /\ r.res = "ok" => Issued(r.mat.at) /\ Unseen(r.mat.at)

Kept(c) ==
    LET r == retained[c] IN
    /\ r.op # NoOp /\ r.res # "none" => OnFile(r) \/ NotOnFile(r)
    /\ r.op # NoOp /\ r.committed => r.op \in applied
    /\ r.op # NoOp /\ r.persisted => r.res # "none"
    /\ r.op # NoOp /\ r.indet => r.res = "none" /\ ~r.committed
    /\ pc[c] = "wait" => /\ result[r.op].kind = "attempt"
                         /\ wire.kind = "ok" => Issued(wire.mat.at) /\ Unseen(wire.mat.at)
    /\ pc[c] \in {"receipt", "complete"} => r.op \in applied
    /\ local /\ pc[c] # "idle" =>
         /\ pc[c] \notin {"select", "activate", "activated", "record", "restore"}
         /\ r.op \in applied /\ ~r.indet

Minted ==
    /\ \A c \in Candidates : rec[c].cred.at < nextTok /\ Kept(c)
    /\ Results
    /\ (\A c \in Candidates : pc[c] = "idle") => ~local
    /\ OutcomeNotDropped

-----------------------------------------------------------------------------
(* Lineage.                                                                *)

\* The result of the selected operation, which a restart finds.
Awaited(c) == mut.phase = "selected" /\ mut.c = c

\* The refresh tokens of a candidate, those on their way to its record included.
Owns(c, t) ==
    \/ rec[c].cred.rt = t
    \/ retained[c].res = "ok" /\ retained[c].mat.rt = t
    \/ pc[c] = "wait" /\ wire.kind = "ok" /\ wire.mat.rt = t
    \/ Awaited(c) /\ result[mut.op].kind = "ok" /\ result[mut.op].mat.rt = t

\* A token that the provider still honours.
Usable(t) == t # NoTok /\ t \notin spent

Rotating == {"select", "record", "restore", "receipt", "complete"} \cup Reserving

Unspent(c) ==
    /\ retained[c].res = "ok" => Usable(retained[c].mat.rt)
    /\ retained[c].op # NoOp /\ (sent[retained[c].op] = 0 \/ retained[c].res = "definitive") =>
         rec[c].cred.rt \notin spent
    /\ pc[c] = "wait" => /\ wire.kind = "ok" => Usable(wire.mat.rt)
                         /\ wire.kind = "definitive" => rec[c].cred.rt \notin spent
    /\ Awaited(c) =>
         /\ result[mut.op].kind = "ok" => Usable(result[mut.op].mat.rt)
         /\ sent[mut.op] = 0 \/ result[mut.op].kind = "definitive" =>
              rec[c].cred.rt \notin spent
    /\ pc[c] = "select" => rec[c].cred.rt \notin spent

\* A record with a spent token is claimed by the operation that spent it.
Claimed(c) ==
    /\ rec[c].cred.rt \in spent => rec[c].op # NoOp
    /\ rec[c].st \in {"refreshing", "rotation_uncertain"} => rec[c].op # NoOp
    /\ rec[c].st \notin {"absent", "removed"} => rec[c].cred.rt # NoTok
    /\ pc[c] \in Rotating => rec[c].st \in {"ready", "refreshing", "rotation_uncertain"}
    /\ pc[c] \in {"attempt", "exchange", "wait"} => rec[c].op # NoOp
    /\ pc[c] \in {"activate", "activated"} => rec[c].st = "activation_pending"

\* A token belongs to one candidate.
Ownership ==
    \A c \in Candidates, t \in Tokens \ {NoTok} : Owns(c, t) =>
        /\ t < nextTok
        /\ \A d \in Candidates : Owns(d, t) => d = c

Lineage ==
    /\ Ownership
    /\ \A t \in spent : t # NoTok /\ t < nextTok
    /\ \A c \in Candidates : Unspent(c) /\ Claimed(c)

-----------------------------------------------------------------------------
(* Where a call may stand, and what the steps do to the retained operation. *)

\* What the chains and the retained operation must say for a call to be at l.
Fits(c, l) ==
    /\ l \in Reserving => Selected(retained[c].op)
    /\ l \in Published => retained[c].digest
    /\ l \in Ending => Answered(retained[c])
    /\ l \in {"persist", "restore"} => ~retained[c].indet
    /\ l = "complete" /\ Selected(retained[c].op) => CommitEnded(retained[c].op)

\* While one call is running every other candidate is idle.
LEMMA OthersIdle ==
    ASSUME Core, NEW c \in Candidates, pc[c] # "idle" \/ MuFree,
           NEW d \in Candidates, d # c
    PROVE  pc[d] = "idle"
BY DEF Core, OneHolder, MuFree

\* A call at its place fits it.
LEMMA PlaceFits ==
    ASSUME Chains, NEW c \in Candidates
    PROVE  Fits(c, pc[c])
BY DEF Chains, Chained, Fits

\* Leaving a call is always possible.
LEMMA IdleFits ==
    ASSUME NEW c \in Candidates, NEW l \in {"idle", "select", "activate", "activated"}
    PROVE  Fits(c, l)
BY DEF Fits, Reserving, Published, Ending

\* Moving a call to a place that it fits preserves the chains.
LEMMA MoveChains ==
    ASSUME TypeOK, Chains, NEW c \in Candidates, NEW l,
           pc' = [pc EXCEPT ![c] = l], Fits(c, l),
           UNCHANGED <<mut, cmt, retained>>
    PROVE  Chains'
<1>1. \A d \in Candidates : pc'[d] = IF d = c THEN l ELSE pc[d]
    BY DEF TypeOK
<1>2. ChainOrder'
    BY DEF Chains, ChainOrder
<1>3. ASSUME NEW d \in Candidates PROVE Chained(d)'
    BY <1>1 DEF Chains, Chained, CommitEnded, Fits, Selected, Answered
<1> QED
    BY <1>2, <1>3 DEF Chains

\* So does a storage step that took effect, whether it is reported or not.
LEMMA FinishChains ==
    ASSUME TypeOK, Chains, NEW c \in Candidates, NEW l, NEW ok \in BOOLEAN,
           Finish(c, ok, l), Fits(c, l), UNCHANGED <<mut, cmt, retained>>
    PROVE  Chains'
<1>1. CASE ok
    BY <1>1, MoveChains DEF Finish, Goto
<1>2. CASE ~ok
    BY <1>2, MoveChains, IdleFits DEF Finish, Goto
<1> QED
    BY <1>1, <1>2

\* Steps that touch neither the chains nor a call.
LEMMA PlainChains ==
    ASSUME Chains, UNCHANGED <<pc, mut, cmt, retained>>
    PROVE  Chains'
BY DEF Chains, ChainOrder, Chained, CommitEnded, Selected, Answered

\* Where Rotate goes after Prepare fits an operation that is selected or answered.
LEMMA AfterPrepareFits ==
    ASSUME NEW c \in Candidates, NEW committed,
           retained[c].op # NoOp, retained[c].indet \in BOOLEAN,
           retained[c].attempt \in BOOLEAN, retained[c].persisted \in BOOLEAN,
           retained[c].digest, Selected(retained[c].op) \/ Answered(retained[c])
    PROVE  Fits(c, AfterPrepare(retained[c], committed))
BY DEF AfterPrepare, Fits, Reserving, Published, Ending, Answered

\* So does where it goes after publishing the commit.
LEMMA AfterPublishFits ==
    ASSUME NEW c \in Candidates, NEW committed,
           retained[c].op # NoOp, retained[c].indet \in BOOLEAN,
           retained[c].attempt \in BOOLEAN, retained[c].persisted \in BOOLEAN,
           retained[c].digest, Selected(retained[c].op) \/ Answered(retained[c])
    PROVE  Fits(c, AfterPublish(c, retained[c], committed))
<1>1. CASE ~retained[c].indet /\ retained[c].res = "none" /\ rec[c].st = "ready"
    BY <1>1 DEF AfterPublish, Fits, Reserving, Published, Ending, Answered
<1>2. CASE ~(~retained[c].indet /\ retained[c].res = "none" /\ rec[c].st = "ready")
    BY <1>2, AfterPrepareFits DEF AfterPublish
<1> QED
    BY <1>1, <1>2

\* The fields of a retained operation have their types.
LEMMA RetainedTyped ==
    ASSUME TypeOK, NEW c \in Candidates
    PROVE  /\ retained[c].op \in 0..MaxOps /\ retained[c].digest \in BOOLEAN
           /\ retained[c].attempt \in BOOLEAN /\ retained[c].indet \in BOOLEAN
           /\ retained[c].res \in Answers /\ retained[c].mat \in Material
           /\ retained[c].persisted \in BOOLEAN /\ retained[c].committed \in BOOLEAN
           /\ retained[c].op # NoOp => retained[c].op \in Ops
BY DEF TypeOK, Retained, Ops, NoOp

-----------------------------------------------------------------------------
(* The steps that change a retained operation, field by field.             *)

\* Only c's retained operation changes.
OnlyRetained(c) == \A d \in Candidates : d # c => retained'[d] = retained[d]
OnlyPlace(c, l) == \A d \in Candidates : pc'[d] = IF d = c THEN l ELSE pc[d]

\* The place a storage step leads to.
LEMMA FinishPlace ==
    ASSUME TypeOK, NEW c \in Candidates, NEW ok \in BOOLEAN, NEW l, Finish(c, ok, l)
    PROVE  /\ OnlyPlace(c, IF ok THEN l ELSE "idle")
           /\ local' = (local /\ ok)
<1>1. pc' = [pc EXCEPT ![c] = IF ok THEN l ELSE "idle"] /\ pc \in [Candidates -> Locations]
    BY DEF Finish, Goto, TypeOK
<1>2. local \in BOOLEAN
    BY DEF TypeOK
<1>3. local' = (local /\ ok)
    BY <1>2 DEF Finish
<1> QED
    BY <1>1, <1>3 DEF OnlyPlace

\* SelectRefreshMutation retains a bare operation, or nothing.
LEMMA SelectFacts ==
    ASSUME TypeOK, Core, NEW c \in Candidates, SelectRefreshMutation(c)
    PROVE  /\ pc[c] = "select" /\ mut.phase # "selected"
           /\ mut'.op = CurrentOp /\ mut'.phase = "selected" /\ mut'.c = c
           /\ CurrentOp \in Ops /\ CurrentOp # NoOp /\ Unused(CurrentOp)
           /\ \A d \in Candidates : retained[d].op # CurrentOp
           /\ OnlyRetained(c)
           /\ \E ok \in BOOLEAN :
                /\ OnlyPlace(c, IF ok THEN "continuation" ELSE "idle")
                /\ local' = (local /\ ok)
                /\ ~ok => retained'[c] = retained[c]
                /\ ok => /\ retained'[c].op = CurrentOp /\ retained'[c].res = "none"
                         /\ ~retained'[c].persisted /\ ~retained'[c].committed
                         /\ ~retained'[c].digest /\ ~retained'[c].indet
           /\ UNCHANGED <<rec, auth, cmt, cont, result, wire, nextOp, nextTok, history>>
<1>1. PICK ok \in BOOLEAN :
         /\ Finish(c, ok, "continuation")
         /\ retained' = IF ok THEN [retained EXCEPT ![c] =
                                      [NoRetained EXCEPT !.op = CurrentOp]]
                              ELSE retained
    BY DEF SelectRefreshMutation
<1>2. OnlyPlace(c, IF ok THEN "continuation" ELSE "idle") /\ local' = (local /\ ok)
    BY <1>1, FinishPlace
<1>3. OnlyRetained(c)
    BY <1>1 DEF OnlyRetained, TypeOK
<1>4. ok => /\ retained'[c].op = CurrentOp /\ retained'[c].res = "none"
            /\ ~retained'[c].persisted /\ ~retained'[c].committed
            /\ ~retained'[c].digest /\ ~retained'[c].indet
    BY <1>1 DEF TypeOK, NoRetained
<1>5. pc[c] = "select"
    BY DEF SelectRefreshMutation
<1>6. /\ CurrentOp \in Ops /\ CurrentOp # NoOp /\ Unused(CurrentOp)
      /\ \A d \in Candidates : retained[d].op # CurrentOp
    BY <1>5 DEF Core, IdentitiesFresh, Ops, NoOp
<1>7. mut' = [op |-> CurrentOp, phase |-> "selected", c |-> c] /\ mut.phase # "selected"
    BY DEF SelectRefreshMutation, MutationSelectable
<1>8. ~ok => retained'[c] = retained[c]
    BY <1>1
<1>9. UNCHANGED <<rec, auth, cmt, cont, result, wire, nextOp, nextTok, history>>
    BY DEF SelectRefreshMutation
<1>10. mut'.op = CurrentOp /\ mut'.phase = "selected" /\ mut'.c = c
    BY <1>7
<1> QED
    BY <1>2, <1>3, <1>4, <1>5, <1>6, <1>7, <1>8, <1>9, <1>10

\* What a step keeps of a retained operation besides the one field it sets.
SameAnswer(r, s) == s.op = r.op /\ s.res = r.res /\ s.mat = r.mat /\ s.indet = r.indet

\* PublishCommit sets the digest.
LEMMA CommitFacts ==
    ASSUME TypeOK, NEW c \in Candidates, PublishCommit(c)
    PROVE  /\ pc[c] = "commit" /\ CommitSelectable(retained[c].op)
           /\ cmt'.op = retained[c].op /\ cmt'.phase = "selected"
           /\ OnlyRetained(c) /\ SameAnswer(retained[c], retained'[c])
           /\ retained'[c].persisted = retained[c].persisted
           /\ retained'[c].committed = retained[c].committed
           /\ retained'[c].attempt = retained[c].attempt
           /\ \E ok \in BOOLEAN :
                /\ retained'[c].digest = ok
                /\ OnlyPlace(c, IF ok THEN AfterPublish(c, retained'[c], local) ELSE "idle")
                /\ local' = (local /\ ok)
           /\ UNCHANGED <<rec, auth, mut, cont, result, wire, nextOp, nextTok, history>>
<1>1. PICK ok \in BOOLEAN :
         /\ retained' = [retained EXCEPT ![c] = [retained[c] EXCEPT !.digest = ok]]
         /\ Finish(c, ok, AfterPublish(c, [retained[c] EXCEPT !.digest = ok], local))
    BY DEF PublishCommit
<1>2. /\ pc[c] = "commit" /\ CommitSelectable(retained[c].op)
      /\ cmt'.op = retained[c].op /\ cmt'.phase = "selected"
      /\ UNCHANGED <<rec, auth, mut, cont, result, wire, nextOp, nextTok, history>>
    BY DEF PublishCommit
<1>3. retained'[c] = [retained[c] EXCEPT !.digest = ok]
    BY <1>1 DEF TypeOK
<1>4. Finish(c, ok, AfterPublish(c, retained'[c], local))
    BY <1>1, <1>3
<1>5. /\ OnlyPlace(c, IF ok THEN AfterPublish(c, retained'[c], local) ELSE "idle")
      /\ local' = (local /\ ok)
    BY <1>4, FinishPlace
<1>6. /\ OnlyRetained(c) /\ SameAnswer(retained[c], retained'[c])
      /\ retained'[c].persisted = retained[c].persisted
      /\ retained'[c].committed = retained[c].committed
      /\ retained'[c].attempt = retained[c].attempt
      /\ retained'[c].digest = ok
    BY <1>1 DEF OnlyRetained, SameAnswer, TypeOK, Retained
<1> QED
    BY <1>2, <1>5, <1>6

\* PersistAttempt sets the attempt, on file first.
LEMMA AttemptFacts ==
    ASSUME TypeOK, Core, NEW c \in Candidates, PersistAttempt(c)
    PROVE  /\ pc[c] = "attempt" /\ retained[c].op \in Ops /\ retained[c].op # NoOp
           /\ OnlyRetained(c) /\ SameAnswer(retained[c], retained'[c])
           /\ retained'[c].persisted = retained[c].persisted
           /\ retained'[c].committed = retained[c].committed
           /\ retained'[c].digest = retained[c].digest
           /\ \E ok \in BOOLEAN : /\ OnlyPlace(c, IF ok THEN "exchange" ELSE "idle")
                                  /\ local' = (local /\ ok)
           /\ \A o \in Ops : \/ result'[o] = result[o]
                             \/ /\ o = retained[c].op /\ result[o].kind = "none"
                                /\ result'[o].kind = "attempt"
           /\ UNCHANGED <<rec, auth, mut, cmt, cont, wire, nextOp, nextTok, history>>
<1>1. PICK ok \in BOOLEAN : /\ retained' = [retained EXCEPT ![c].attempt = ok]
                            /\ Finish(c, ok, "exchange")
    BY DEF PersistAttempt
<1>2. /\ pc[c] = "attempt"
      /\ UNCHANGED <<rec, auth, mut, cmt, cont, wire, nextOp, nextTok, history>>
    BY DEF PersistAttempt
<1>3. retained[c].op \in Ops /\ retained[c].op # NoOp
    BY <1>2, RetainedOp
<1>4. OnlyPlace(c, IF ok THEN "exchange" ELSE "idle") /\ local' = (local /\ ok)
    BY <1>1, FinishPlace
<1>5. /\ OnlyRetained(c) /\ SameAnswer(retained[c], retained'[c])
      /\ retained'[c].persisted = retained[c].persisted
      /\ retained'[c].committed = retained[c].committed
      /\ retained'[c].digest = retained[c].digest
    BY <1>1 DEF OnlyRetained, SameAnswer, TypeOK, Retained
<1>6. \A o \in Ops : \/ result'[o] = result[o]
                     \/ /\ o = retained[c].op /\ result[o].kind = "none"
                        /\ result'[o].kind = "attempt"
    BY <1>3 DEF PersistAttempt, TypeOK
<1> QED
    BY <1>2, <1>3, <1>4, <1>5, <1>6

\* ExchangeReturns keeps the answer, or notes that there is none.
LEMMA ReturnFacts ==
    ASSUME TypeOK, NEW c \in Candidates, ExchangeReturns(c)
    PROVE  /\ pc[c] = "wait" /\ OnlyPlace(c, "persist")
           /\ OnlyRetained(c) /\ retained'[c].op = retained[c].op
           /\ retained'[c].digest = retained[c].digest
           /\ retained'[c].indet = retained[c].indet
           /\ retained'[c].persisted = retained[c].persisted
           /\ retained'[c].committed = retained[c].committed
           /\ \/ retained'[c].res = wire.kind /\ retained'[c].mat = wire.mat
              \/ retained'[c].res = "uncertain"
           /\ UNCHANGED <<durable, local, nextOp, nextTok, history>>
<1>1. /\ pc[c] = "wait" /\ pc' = [pc EXCEPT ![c] = "persist"]
      /\ UNCHANGED <<durable, local, nextOp, nextTok, history>>
    BY DEF ExchangeReturns, Goto
<1>2. OnlyPlace(c, "persist")
    BY <1>1 DEF OnlyPlace, TypeOK
<1>3. CASE retained' = [retained EXCEPT ![c].res = wire.kind, ![c].mat = wire.mat]
    BY <1>1, <1>2, <1>3 DEF OnlyRetained, TypeOK, Retained
<1>4. CASE retained' = [retained EXCEPT ![c].res = "uncertain"]
    BY <1>1, <1>2, <1>4 DEF OnlyRetained, TypeOK, Retained
<1> QED
    BY <1>3, <1>4 DEF ExchangeReturns

\* PersistResult puts the retained answer on file.
LEMMA PersistFacts ==
    ASSUME TypeOK, Core, NEW c \in Candidates, PersistResult(c)
    PROVE  /\ pc[c] = "persist" /\ retained[c].op \in Ops /\ retained[c].op # NoOp
           /\ ResultReplaceable(retained[c])
           /\ OnlyRetained(c) /\ SameAnswer(retained[c], retained'[c])
           /\ retained'[c].digest = retained[c].digest
           /\ retained'[c].committed = local
           /\ \E ok \in BOOLEAN :
                /\ retained'[c].persisted = ok
                /\ OnlyPlace(c, IF ok THEN (IF local THEN "receipt" ELSE "record") ELSE "idle")
                /\ local' = (local /\ ok)
           /\ result'[retained[c].op].kind = retained[c].res
           /\ result'[retained[c].op].mat = retained[c].mat
           /\ \A o \in Ops : o # retained[c].op => result'[o] = result[o]
           /\ UNCHANGED <<rec, auth, mut, cmt, cont, wire, nextOp, nextTok, history>>
<1>1. PICK ok \in BOOLEAN :
        /\ retained' = [retained EXCEPT ![c].persisted = ok, ![c].committed = local]
        /\ Finish(c, ok, IF local THEN "receipt" ELSE "record")
    BY DEF PersistResult
<1>2. /\ pc[c] = "persist" /\ ResultReplaceable(retained[c])
      /\ UNCHANGED <<rec, auth, mut, cmt, cont, wire, nextOp, nextTok, history>>
    BY DEF PersistResult
<1>3. retained[c].op \in Ops /\ retained[c].op # NoOp
    BY <1>2, RetainedOp
<1>4. /\ OnlyPlace(c, IF ok THEN (IF local THEN "receipt" ELSE "record") ELSE "idle")
      /\ local' = (local /\ ok)
    BY <1>1, FinishPlace
<1>5. /\ OnlyRetained(c) /\ SameAnswer(retained[c], retained'[c])
      /\ retained'[c].digest = retained[c].digest
      /\ retained'[c].persisted = ok /\ retained'[c].committed = local
    BY <1>1 DEF OnlyRetained, SameAnswer, TypeOK, Retained
<1>6. /\ result'[retained[c].op].kind = retained[c].res
      /\ result'[retained[c].op].mat = retained[c].mat
      /\ \A o \in Ops : o # retained[c].op => result'[o] = result[o]
    BY <1>3 DEF PersistResult, TypeOK
<1> QED
    BY <1>2, <1>3, <1>4, <1>5, <1>6

\* CommitRecord writes the outcome into the record and marks it so, or fails
\* with or without having written it.
LEMMA RecordFacts ==
    ASSUME TypeOK, Core, NEW c \in Candidates, CommitRecord(c)
    PROVE  /\ pc[c] = "record" /\ retained[c].op \in Ops /\ retained[c].op # NoOp
           /\ OnlyRetained(c) /\ SameAnswer(retained[c], retained'[c])
           /\ retained'[c].digest = retained[c].digest
           /\ retained'[c].persisted = retained[c].persisted
           /\ \A d \in Candidates : d # c => rec'[d] = rec[d]
           /\ \/ /\ rec'[c] = CommittedRecord(c)
                 /\ applied' = applied \cup {retained[c].op}
                 /\ \/ retained'[c].committed /\ OnlyPlace(c, "receipt") /\ local' = local
                    \/ /\ retained'[c].committed = retained[c].committed /\ ~local'
                       /\ OnlyPlace(c, IF retained[c].res = "ok" THEN "restore" ELSE "idle")
              \/ /\ rec' = rec /\ applied' = applied /\ OnlyPlace(c, "restore")
                 /\ retained'[c].committed = retained[c].committed /\ local' = local
           /\ UNCHANGED <<auth, mut, cmt, cont, result, wire, nextOp, nextTok,
                          sent, presented, spent>>
<1>1. /\ pc[c] = "record"
      /\ UNCHANGED <<auth, mut, cmt, cont, result, wire, nextOp, nextTok, sent, presented, spent>>
    BY DEF CommitRecord
<1>2. retained[c].op \in Ops /\ retained[c].op # NoOp
    BY <1>1, RetainedOp
<1>3. rec \in [Candidates -> Record] /\ pc \in [Candidates -> Locations]
    BY DEF TypeOK
<1>4. CASE /\ rec' = [rec EXCEPT ![c] = CommittedRecord(c)]
           /\ applied' = applied \cup {retained[c].op}
           /\ retained' = [retained EXCEPT ![c].committed = TRUE]
           /\ Goto(c, "receipt") /\ UNCHANGED local
  <2>1. OnlyPlace(c, "receipt")
      BY <1>3, <1>4 DEF OnlyPlace, Goto
  <2>2. rec'[c] = CommittedRecord(c) /\ \A d \in Candidates : d # c => rec'[d] = rec[d]
      BY <1>3, <1>4
  <2>3. /\ OnlyRetained(c) /\ SameAnswer(retained[c], retained'[c])
        /\ retained'[c].digest = retained[c].digest
        /\ retained'[c].persisted = retained[c].persisted /\ retained'[c].committed
      BY <1>4 DEF OnlyRetained, SameAnswer, TypeOK, Retained
  <2> QED
      BY <1>1, <1>2, <1>4, <2>1, <2>2, <2>3
<1>5. CASE /\ rec' = [rec EXCEPT ![c] = CommittedRecord(c)]
           /\ applied' = applied \cup {retained[c].op}
           /\ Goto(c, IF retained[c].res = "ok" THEN "restore" ELSE "idle")
           /\ local' = FALSE /\ UNCHANGED retained
  <2>1. OnlyPlace(c, IF retained[c].res = "ok" THEN "restore" ELSE "idle")
      BY <1>3, <1>5 DEF OnlyPlace, Goto
  <2>2. rec'[c] = CommittedRecord(c) /\ \A d \in Candidates : d # c => rec'[d] = rec[d]
      BY <1>3, <1>5
  <2>3. OnlyRetained(c) /\ SameAnswer(retained[c], retained'[c])
      BY <1>5 DEF OnlyRetained, SameAnswer
  <2> QED
      BY <1>1, <1>2, <1>5, <2>1, <2>2, <2>3
<1>6. CASE Goto(c, "restore") /\ UNCHANGED <<rec, applied, retained, local>>
  <2>1. OnlyPlace(c, "restore")
      BY <1>3, <1>6 DEF OnlyPlace, Goto
  <2>2. OnlyRetained(c) /\ SameAnswer(retained[c], retained'[c])
      BY <1>6 DEF OnlyRetained, SameAnswer
  <2> QED
      BY <1>1, <1>2, <1>6, <2>1, <2>2
<1> QED
    BY <1>4, <1>5, <1>6 DEF CommitRecord

\* CompleteRefreshMutation closes the reservation and forgets the operation,
\* unless an error is reported; a reservation it finds closed stays as it is.
LEMMA CompleteFacts ==
    ASSUME TypeOK, NEW c \in Candidates, CompleteRefreshMutation(c)
    PROVE  /\ pc[c] = "complete"
           /\ mut'.op = mut.op /\ mut'.c = mut.c
           /\ mut' = mut \/ (Selected(retained[c].op) /\ mut'.phase = "terminal")
           /\ OnlyPlace(c, "idle") /\ ~local' /\ OnlyRetained(c)
           /\ retained'[c] = retained[c] \/ retained'[c] = NoRetained
           /\ UNCHANGED <<rec, auth, cmt, cont, result, wire, nextOp, nextTok, history>>
<1>1. /\ pc[c] = "complete" /\ Goto(c, "idle") /\ local' = FALSE
      /\ UNCHANGED <<rec, auth, cmt, cont, result, wire, nextOp, nextTok, history>>
    BY DEF CompleteRefreshMutation
<1>2. retained' = retained \/ retained' = [retained EXCEPT ![c] = NoRetained]
    BY DEF CompleteRefreshMutation
<1>3. OnlyPlace(c, "idle")
    BY <1>1 DEF OnlyPlace, Goto, TypeOK
<1>4. OnlyRetained(c) /\ (retained'[c] = retained[c] \/ retained'[c] = NoRetained)
    BY <1>2 DEF OnlyRetained, TypeOK
<1>5. \/ mut' = mut
      \/ Selected(retained[c].op) /\ mut' = [mut EXCEPT !.phase = "terminal"]
    BY DEF CompleteRefreshMutation, Terminalisable, Selected
<1>6. /\ mut'.op = mut.op /\ mut'.c = mut.c
      /\ mut' = mut \/ (Selected(retained[c].op) /\ mut'.phase = "terminal")
    BY <1>5 DEF TypeOK, Reservation
<1> QED
    BY <1>1, <1>3, <1>4, <1>6

\* A restart retains the selected operation as its files describe it.
LEMMA RestartFacts ==
    ASSUME TypeOK, Core, Restart
    PROVE  /\ \A d \in Candidates :
                /\ pc[d] = "idle" /\ pc'[d] = "idle" /\ retained[d] = NoRetained
                /\ \/ retained'[d] = NoRetained
                   \/ /\ d = mut.c /\ mut.phase = "selected" /\ mut.op \in Ops
                      /\ retained'[d].op = mut.op
                      /\ ~retained'[d].committed
                      /\ \/ /\ result[mut.op].kind \in {"none", "attempt"}
                            /\ retained'[d].res = "none" /\ ~retained'[d].persisted
                         \/ /\ result[mut.op].kind \notin {"none", "attempt"}
                            /\ retained'[d].persisted /\ ~retained'[d].indet
                            /\ retained'[d].res = result[mut.op].kind
                            /\ retained'[d].mat = result[mut.op].mat
           /\ \/ cmt' = cmt
              \/ mut.phase = "selected" /\ cmt'.phase = "selected" /\ cmt'.op = mut.op
           /\ UNCHANGED <<rec, mut, result, pc, local, env, history>>
<1>1. /\ UNCHANGED <<rec, mut, result, pc, local, env, history>> /\ up # "up"
      /\ retained' = IF mut.phase = "selected"
                     THEN [retained EXCEPT ![mut.c] = Hydrated] ELSE retained
    BY DEF Restart
<1>2. \A d \in Candidates : pc[d] = "idle" /\ retained[d] = NoRetained
    BY <1>1 DEF Core, OneHolder
<1>3. \A d \in Candidates :
        \/ retained'[d] = NoRetained
        \/ d = mut.c /\ mut.phase = "selected" /\ retained'[d] = Hydrated
    BY <1>1, <1>2 DEF TypeOK
<1>4. mut.phase = "selected" => mut.op \in Ops
    BY DEF Core, IdentitiesFresh
<1>5. /\ Hydrated.op = mut.op /\ ~Hydrated.committed
      /\ Hydrated.indet = (result[mut.op].kind = "attempt")
      /\ Hydrated.persisted = (result[mut.op].kind \notin {"none", "attempt"})
      /\ Hydrated.res = IF result[mut.op].kind \notin {"none", "attempt"}
                        THEN result[mut.op].kind ELSE "none"
      /\ Hydrated.mat = IF result[mut.op].kind \notin {"none", "attempt"}
                        THEN result[mut.op].mat ELSE NoMaterial
    BY DEF Hydrated
<1>6. \/ cmt' = cmt
      \/ mut.phase = "selected" /\ cmt'.phase = "selected" /\ cmt'.op = mut.op
    BY DEF Restart
<1>7. ASSUME NEW d \in Candidates, retained'[d] # NoRetained
      PROVE  /\ d = mut.c /\ mut.phase = "selected" /\ mut.op \in Ops
             /\ retained'[d].op = mut.op /\ ~retained'[d].committed
             /\ \/ /\ result[mut.op].kind \in {"none", "attempt"}
                   /\ retained'[d].res = "none" /\ ~retained'[d].persisted
                \/ /\ result[mut.op].kind \notin {"none", "attempt"}
                   /\ retained'[d].persisted /\ ~retained'[d].indet
                   /\ retained'[d].res = result[mut.op].kind
                   /\ retained'[d].mat = result[mut.op].mat
    BY <1>3, <1>4, <1>5, <1>7
<1> QED
    BY <1>1, <1>2, <1>6, <1>7

-----------------------------------------------------------------------------
(* The chains are preserved.                                               *)

\* An unselected operation that is retained has been answered.
LEMMA SelectedOrAnswered ==
    ASSUME Chains, NEW c \in Candidates, retained[c].op # NoOp
    PROVE  Selected(retained[c].op) \/ Answered(retained[c])
BY DEF Chains, Chained

\* retryRetainedLocked enters where the retained operation stands.
LEMMA RetryRetainedChains ==
    ASSUME TypeOK, Chains, NEW c \in Candidates, RetryRetained(c)
    PROVE  Chains'
<1> DEFINE done == \/ retained[c].committed
                   \/ /\ retained[c].res = "ok" /\ rec[c].st = "ready"
                      /\ rec[c].op = NoOp /\ rec[c].cred = retained[c].mat
           l == IF retained[c].digest THEN AfterPublish(c, retained[c], done)
                                      ELSE "continuation"
<1>1. pc' = [pc EXCEPT ![c] = l] /\ UNCHANGED <<mut, cmt, retained>>
    BY DEF RetryRetained, Goto, durable
<1>2. retained[c].op # NoOp
    BY DEF RetryRetained, RetainedExists
<1>3. CASE retained[c].digest
  <2>1. Fits(c, AfterPublish(c, retained[c], done))
      BY <1>2, <1>3, RetainedTyped, SelectedOrAnswered, AfterPublishFits
  <2>2. Fits(c, l)
      BY <1>3, <2>1
  <2> HIDE DEF l
  <2> QED
      BY <1>1, <2>2, MoveChains
<1>4. CASE ~retained[c].digest
  <2>1. Selected(retained[c].op)
      BY <1>2, <1>4, SelectedOrAnswered DEF Answered
  <2>2. l = "continuation"
      BY <1>4
  <2>3. Fits(c, "continuation")
      BY <2>1 DEF Fits, Reserving, Published, Ending
  <2> HIDE DEF l
  <2> QED
      BY <1>1, <2>2, <2>3, MoveChains
<1> QED
    BY <1>3, <1>4

\* Calls that leave, or stand at a place of no operation.
LEMMA LeaveChains ==
    ASSUME TypeOK, Chains, NEW c \in Candidates,
           \/ SelectRefused(c) \/ StepRefused(c) \/ StepFails(c)
           \/ RestoreRotationUncertain(c) \/ BeginRefresh(c)
    PROVE  Chains'
<1>1. PICK l \in {"idle", "select"} : Goto(c, l)
    BY DEF SelectRefused, StepRefused, StepFails, RestoreRotationUncertain, BeginRefresh
<1>2. UNCHANGED <<mut, cmt, retained>>
    BY DEF SelectRefused, StepRefused, StepFails, RestoreRotationUncertain, BeginRefresh,
           durable
<1> QED
    BY <1>1, <1>2, MoveChains, IdleFits DEF Goto

\* The continuation file, the Refreshing state and the activation.
LEMMA StorageChains ==
    ASSUME TypeOK, Core, Chains, NEW c \in Candidates,
           \/ PublishContinuation(c) \/ MarkRefreshing(c) \/ BeginActivate(c)
           \/ WriteSystemAuth(c) \/ FinishActivate(c)
    PROVE  Chains'
<1>1. UNCHANGED <<mut, cmt, retained>>
    BY DEF PublishContinuation, MarkRefreshing, BeginActivate, WriteSystemAuth, FinishActivate
<1>2. CASE PublishContinuation(c)
  <2>1. pc[c] = "continuation" /\ \E ok \in BOOLEAN : Finish(c, ok, "commit")
      BY <1>2 DEF PublishContinuation
  <2>2. Fits(c, "commit")
      BY <2>1, PlaceFits DEF Fits, Reserving, Published, Ending
  <2> QED
      BY <1>1, <2>1, <2>2, FinishChains
<1>3. CASE MarkRefreshing(c)
  <2>1. /\ pc[c] = "mark"
        /\ \E ok \in BOOLEAN : Finish(c, ok, AfterPrepare(retained[c], local))
      BY <1>3 DEF MarkRefreshing
  <2>2. Selected(retained[c].op) /\ retained[c].digest /\ retained[c].op # NoOp
      BY <2>1, PlaceFits, RetainedOp DEF Fits, Reserving, Published
  <2>3. Fits(c, AfterPrepare(retained[c], local))
      BY <2>2, RetainedTyped, AfterPrepareFits
  <2> QED
      BY <1>1, <2>1, <2>3, FinishChains
<1>4. CASE BeginActivate(c) \/ WriteSystemAuth(c) \/ FinishActivate(c)
  <2>1. PICK l \in {"idle", "activate", "activated"} : \E ok \in BOOLEAN : Finish(c, ok, l)
      BY <1>4 DEF BeginActivate, WriteSystemAuth, FinishActivate
  <2> QED
      BY <1>1, <2>1, FinishChains, IdleFits
<1> QED
    BY <1>2, <1>3, <1>4

\* Selecting an operation: none was selected, so every retained one is answered.
LEMMA SelectChains ==
    ASSUME TypeOK, Core, Chains, NEW c \in Candidates, SelectRefreshMutation(c)
    PROVE  Chains'
<1>1. PICK ok \in BOOLEAN :
         /\ OnlyPlace(c, IF ok THEN "continuation" ELSE "idle")
         /\ ~ok => retained'[c] = retained[c]
         /\ ok => /\ retained'[c].op = CurrentOp /\ retained'[c].res = "none"
                  /\ ~retained'[c].persisted /\ ~retained'[c].committed
                  /\ ~retained'[c].digest /\ ~retained'[c].indet
    BY SelectFacts
<1>2. /\ pc[c] = "select" /\ mut.phase # "selected" /\ OnlyRetained(c) /\ cmt' = cmt
      /\ mut'.op = CurrentOp /\ mut'.phase = "selected" /\ mut'.c = c
      /\ \A d \in Candidates : retained[d].op # CurrentOp
    BY SelectFacts
<1>3. ChainOrder'
    BY <1>2 DEF Chains, ChainOrder
<1>4. ASSUME NEW d \in Candidates, d # c PROVE Chained(d)'
  <2>1. pc'[d] = "idle"
      BY <1>1, <1>2, <1>4, OthersIdle DEF OnlyPlace
  <2>2. retained'[d] = retained[d] /\ retained[d].op # CurrentOp
      BY <1>2, <1>4 DEF OnlyRetained
  <2>3. retained[d].op # NoOp => Answered(retained[d])
      BY <1>2 DEF Chains, Chained, Selected
  <2> QED
      BY <1>2, <2>1, <2>2, <2>3 DEF Chained, Selected, Answered, Reserving, Published, Ending
<1>5. Chained(c)'
  <2>1. CASE ok
      BY <1>1, <1>2, <2>1 DEF Chained, Selected, OnlyPlace, Reserving, Published, Ending
  <2>2. CASE ~ok
    <3>1. pc'[c] = "idle" /\ retained'[c] = retained[c] /\ retained[c].op # CurrentOp
        BY <1>1, <1>2, <2>2 DEF OnlyPlace
    <3>2. retained[c].op # NoOp => Answered(retained[c])
        BY <1>2 DEF Chains, Chained, Selected
    <3> QED
        BY <1>2, <3>1, <3>2 DEF Chained, Selected, Answered, Reserving, Published, Ending
  <2> QED
      BY <2>1, <2>2
<1> QED
    BY <1>3, <1>4, <1>5 DEF Chains

\* Publishing the commit opens the commit chain for the selected operation.
LEMMA CommitChains ==
    ASSUME TypeOK, Core, Chains, NEW c \in Candidates, PublishCommit(c)
    PROVE  Chains'
<1>1. PICK ok \in BOOLEAN :
         /\ retained'[c].digest = ok
         /\ OnlyPlace(c, IF ok THEN AfterPublish(c, retained'[c], local) ELSE "idle")
    BY CommitFacts
<1>2. /\ pc[c] = "commit" /\ CommitSelectable(retained[c].op)
      /\ cmt'.op = retained[c].op /\ cmt'.phase = "selected" /\ mut' = mut /\ rec' = rec
      /\ OnlyRetained(c) /\ SameAnswer(retained[c], retained'[c])
      /\ retained'[c].persisted = retained[c].persisted
      /\ retained'[c].attempt = retained[c].attempt
    BY CommitFacts
<1>3. Selected(retained[c].op) /\ retained[c].op # NoOp /\ mut.c = c
    BY <1>2, RetainedOp DEF Chains, Chained, Reserving
<1>4. ChainOrder'
    BY <1>2, <1>3 DEF ChainOrder, Selected
<1>5. ASSUME NEW d \in Candidates, d # c PROVE Chained(d)'
  <2>1. pc'[d] = "idle" /\ retained'[d] = retained[d]
      BY <1>1, <1>2, <1>5, OthersIdle DEF OnlyPlace, OnlyRetained
  <2> QED
      BY <1>2, <2>1 DEF Chains, Chained, Selected, Answered, Reserving, Published, Ending
<1>6. Chained(c)'
  <2>1. Selected(retained[c].op)' /\ retained'[c].op = retained[c].op /\ mut'.c = c
      BY <1>2, <1>3 DEF Selected, SameAnswer
  <2>2. CASE ~ok
      BY <1>1, <2>1, <2>2 DEF Chained, OnlyPlace, Reserving, Published, Ending
  <2>3. CASE ok
    <3>1. pc'[c] = AfterPublish(c, retained'[c], local)
        BY <1>1, <2>3 DEF OnlyPlace
    <3> DEFINE r == retained'[c]
               l == AfterPublish(c, r, local)
    <3>2. r.indet \in BOOLEAN /\ r.attempt \in BOOLEAN /\ r.persisted \in BOOLEAN
        BY <1>2, RetainedTyped DEF SameAnswer
    <3>3. /\ l \in {"idle", "mark", "attempt", "exchange", "persist", "record", "receipt"}
          /\ l \in {"record", "receipt"} => r.persisted /\ r.res # "none" /\ ~r.indet
          /\ l = "persist" => ~r.indet
        BY <3>2 DEF AfterPublish, AfterPrepare
    <3> HIDE DEF l
    <3>4. pc'[c] = l /\ r.digest
        BY <1>1, <2>3, <3>1 DEF l
    <3> QED
        BY <2>1, <3>3, <3>4 DEF Chained, Answered, Ending
  <2> QED
      BY <2>2, <2>3
<1> QED
    BY <1>4, <1>5, <1>6 DEF Chains

\* Steps between the commit and the record: the operation stays selected.
LEMMA AnswerChains ==
    ASSUME TypeOK, Core, Chains, NEW c \in Candidates,
           PersistAttempt(c) \/ Exchange(c) \/ ExchangeReturns(c) \/ PersistResult(c)
    PROVE  Chains'
<1>1. /\ pc[c] \in {"attempt", "exchange", "wait", "persist"} /\ UNCHANGED <<mut, cmt>>
      /\ OnlyRetained(c) /\ retained'[c].op = retained[c].op
      /\ retained'[c].digest = retained[c].digest
      /\ retained'[c].indet = retained[c].indet
      /\ \E l : /\ OnlyPlace(c, l)
                /\ l \in {"idle", "exchange", "wait", "persist", "record", "receipt"}
                /\ l \in {"record", "receipt"} => retained'[c].persisted /\ retained'[c].res # "none"
                /\ l \in {"persist", "record", "receipt"} => ~retained[c].indet
  <2>1. pc[c] \in {"attempt", "exchange", "wait", "persist"}
      BY DEF PersistAttempt, Exchange, ExchangeReturns, PersistResult
  <2>2. CASE PersistAttempt(c)
      BY <2>1, <2>2, AttemptFacts DEF SameAnswer
  <2>3. CASE Exchange(c)
    <3>1. pc' = [pc EXCEPT ![c] = "wait"] /\ UNCHANGED <<mut, cmt, retained>>
        BY <2>3 DEF Exchange, Goto, durable
    <3>2. OnlyPlace(c, "wait") /\ OnlyRetained(c)
        BY <3>1 DEF OnlyPlace, OnlyRetained, TypeOK
    <3> QED
        BY <2>1, <3>1, <3>2
  <2>4. CASE ExchangeReturns(c)
    <3>1. pc[c] = "wait" /\ ~retained[c].indet
        BY <2>4 DEF ExchangeReturns, Core, Located
    <3> QED
        BY <2>1, <2>4, <3>1, ReturnFacts DEF durable
  <2>5. CASE PersistResult(c)
    <3>1. pc[c] = "persist" /\ ~retained[c].indet /\ retained[c].res # "none"
        BY <2>5 DEF PersistResult, Core, Located, Chains, Chained
    <3>2. PICK ok \in BOOLEAN :
            /\ retained'[c].persisted = ok
            /\ OnlyPlace(c, IF ok THEN (IF local THEN "receipt" ELSE "record") ELSE "idle")
        BY <2>5, PersistFacts
    <3>3. UNCHANGED <<mut, cmt>> /\ OnlyRetained(c) /\ SameAnswer(retained[c], retained'[c])
          /\ retained'[c].digest = retained[c].digest
        BY <2>5, PersistFacts
    <3> QED
        BY <2>1, <3>1, <3>2, <3>3 DEF SameAnswer
  <2> QED
      BY <2>2, <2>3, <2>4, <2>5
<1>2. Selected(retained[c].op) /\ retained[c].digest /\ retained[c].op # NoOp /\ mut.c = c
    BY <1>1, RetainedOp DEF Chains, Chained, Reserving, Published
<1>3. ChainOrder'
    BY <1>1 DEF Chains, ChainOrder
<1>4. PICK l : /\ OnlyPlace(c, l)
               /\ l \in {"idle", "exchange", "wait", "persist", "record", "receipt"}
               /\ l \in {"record", "receipt"} => retained'[c].persisted /\ retained'[c].res # "none"
               /\ l \in {"persist", "record", "receipt"} => ~retained[c].indet
    BY <1>1
<1>5. ASSUME NEW d \in Candidates, d # c PROVE Chained(d)'
  <2>1. pc'[d] = "idle" /\ retained'[d] = retained[d]
      BY <1>1, <1>4, <1>5, OthersIdle DEF OnlyPlace, OnlyRetained
  <2> QED
      BY <1>1, <2>1 DEF Chains, Chained, Selected, Answered, Reserving, Published, Ending
<1>6. Chained(c)'
    BY <1>1, <1>2, <1>4 DEF Chained, Selected, Answered, OnlyPlace, Ending
<1> QED
    BY <1>3, <1>5, <1>6 DEF Chains

\* Committing the record changes no chain.
LEMMA RecordChains ==
    ASSUME TypeOK, Core, Chains, NEW c \in Candidates, CommitRecord(c)
    PROVE  Chains'
<1>1. /\ pc[c] = "record" /\ UNCHANGED <<mut, cmt>> /\ retained[c].op # NoOp
      /\ OnlyRetained(c) /\ SameAnswer(retained[c], retained'[c])
      /\ retained'[c].digest = retained[c].digest
      /\ retained'[c].persisted = retained[c].persisted
    BY RecordFacts
<1>2. PICK l \in {"receipt", "restore", "idle"} : OnlyPlace(c, l)
    BY RecordFacts
<1>3. Answered(retained[c])
    BY <1>1 DEF Chains, Chained, Ending
<1>4. ChainOrder'
    BY <1>1 DEF Chains, ChainOrder
<1>5. ASSUME NEW d \in Candidates, d # c PROVE Chained(d)'
  <2>1. pc'[d] = "idle" /\ retained'[d] = retained[d]
      BY <1>1, <1>2, <1>5, OthersIdle DEF OnlyPlace, OnlyRetained
  <2> QED
      BY <1>1, <2>1 DEF Chains, Chained, Selected, Answered, Reserving, Published, Ending
<1>6. Chained(c)'
  <2>1. Answered(retained'[c]) /\ retained'[c].op = retained[c].op
      BY <1>1, <1>3 DEF Answered, SameAnswer
  <2>2. pc'[c] = l
      BY <1>2 DEF OnlyPlace
  <2>3. Selected(retained[c].op)' => mut'.c = c
      BY <1>1, <2>1 DEF Chains, Chained, Selected
  <2> QED
      BY <2>1, <2>2, <2>3 DEF Chained, Answered, Reserving, Published, Ending
<1> QED
    BY <1>4, <1>5, <1>6 DEF Chains

\* The receipt closes the commit chain, or is found in memory: then a chain
\* whose operation is still selected has it stored.
LEMMA ReceiptChains ==
    ASSUME TypeOK, Core, Chains, Seen, NEW c \in Candidates, PublishReceipt(c)
    PROVE  Chains'
<1>1. /\ pc[c] = "receipt" /\ UNCHANGED <<mut, retained>>
      /\ \E ok \in BOOLEAN : Finish(c, ok, "complete")
    BY ReceiptFinishes DEF PublishReceipt
<1>2. CASE Recorded(cmtSeen, retained[c].op) /\ cmt' = cmt
  <2>1. Answered(retained[c]) /\ retained[c].digest
      BY <1>1, PlaceFits DEF Fits, Ending, Published
  <2>2. Selected(retained[c].op) => CommitEnded(retained[c].op)
      BY <1>2 DEF Seen, Recorded, CommitEnded
  <2>3. Fits(c, "complete")
      BY <2>1, <2>2 DEF Fits, Reserving, Published, Ending
  <2> QED
      BY <1>1, <1>2, <2>3, FinishChains
<1>3. CASE /\ Terminalisable(cmtSeen, cmt, cmtGate, retained[c].op)
           /\ cmt' = [cmt EXCEPT !.phase = "terminal"]
  <2>1. PICK l \in {"complete", "idle"} : OnlyPlace(c, l)
      BY <1>1, FinishPlace
  <2>2. cmt'.op = retained[c].op /\ cmt'.phase = "terminal" /\ cmt'.op = cmt.op
      BY <1>3 DEF Terminalisable, TypeOK, Commitment
  <2>3. ChainOrder'
      BY <1>1, <2>2 DEF Chains, ChainOrder
  <2>4. ASSUME NEW d \in Candidates PROVE Chained(d)'
    <3>1. CASE d # c
      <4>1. pc'[d] = "idle"
          BY <1>1, <2>1, <3>1, OthersIdle DEF OnlyPlace
      <4> QED
          BY <1>1, <4>1 DEF Chains, Chained, Selected, Answered, Reserving, Published, Ending
    <3>2. CASE d = c
      <4>1. pc'[c] = l /\ Answered(retained[c]) /\ retained[c].digest
          BY <1>1, <2>1 DEF OnlyPlace, Chains, Chained, Ending, Published
      <4> QED
          BY <1>1, <2>2, <3>2, <4>1
             DEF Chains, Chained, CommitEnded, Selected, Answered, Reserving, Published, Ending
    <3> QED
        BY <3>1, <3>2
  <2> QED
      BY <2>3, <2>4 DEF Chains
<1> QED
    BY <1>2, <1>3 DEF PublishReceipt

\* The completion closes the reservation, after the receipt, or leaves it.
LEMMA CompleteChains ==
    ASSUME TypeOK, Core, Chains, NEW c \in Candidates, CompleteRefreshMutation(c)
    PROVE  Chains'
<1>1. /\ pc[c] = "complete" /\ mut'.op = mut.op /\ mut'.c = mut.c
      /\ mut' = mut \/ (Selected(retained[c].op) /\ mut'.phase = "terminal")
      /\ OnlyPlace(c, "idle") /\ OnlyRetained(c) /\ cmt' = cmt
      /\ retained'[c] = retained[c] \/ retained'[c] = NoRetained
    BY CompleteFacts
<1>2. Answered(retained[c]) /\ retained[c].op # NoOp
    BY <1>1, RetainedOp DEF Chains, Chained, Ending
<1>3. \A d \in Candidates :
         /\ pc'[d] = "idle"
         /\ retained'[d] = retained[d] \/ retained'[d].op = NoOp
    BY <1>1, OthersIdle DEF OnlyPlace, OnlyRetained, NoRetained
<1>4. CASE mut' = mut
  <2>1. ChainOrder'
      BY <1>1, <1>4 DEF Chains, ChainOrder
  <2>2. \A d \in Candidates : Chained(d)'
      BY <1>3, <1>4 DEF Chains, Chained, Selected, Answered, Reserving, Published, Ending
  <2> QED
      BY <2>1, <2>2 DEF Chains
<1>5. CASE Selected(retained[c].op) /\ mut'.phase = "terminal"
  <2>1. CommitEnded(retained[c].op) /\ mut.op = retained[c].op
      BY <1>1, <1>5 DEF Chains, Chained, Selected
  <2>2. ChainOrder'
      BY <1>1, <1>5, <2>1 DEF ChainOrder, CommitEnded
  <2>3. ASSUME NEW d \in Candidates PROVE Chained(d)'
    <3>1. retained[d].op # NoOp => Answered(retained[d])
      <4>1. CASE d = c
          BY <1>2, <4>1
      <4>2. CASE d # c
        <5>1. retained[d].op # NoOp => retained[d].op # mut.op
            BY <1>2, <2>1, <4>2 DEF Core, RetainedDistinct
        <5> QED
            BY <5>1 DEF Chains, Chained, Selected
      <4> QED
          BY <4>1, <4>2
    <3> QED
        BY <1>3, <1>5, <3>1 DEF Chained, Selected, Answered, Reserving, Published, Ending
  <2> QED
      BY <2>2, <2>3 DEF Chains
<1> QED
    BY <1>1, <1>4, <1>5

\* The process dies, and a restart opens the chains where they stand.
LEMMA CrashChains ==
    ASSUME TypeOK, Core, Chains, Crash \/ Restart
    PROVE  Chains'
<1>1. CASE Crash
  <2>1. /\ UNCHANGED <<mut, cmt>>
        /\ \A d \in Candidates : pc'[d] = "idle" /\ retained'[d].op = NoOp
      BY <1>1 DEF Crash, durable, NoRetained
  <2> QED
      BY <2>1 DEF Chains, ChainOrder, Chained, Reserving, Published, Ending
<1>2. CASE Restart
  <2>1. \A d \in Candidates :
          /\ pc'[d] = "idle"
          /\ \/ retained'[d] = NoRetained
             \/ d = mut.c /\ mut.phase = "selected" /\ retained'[d].op = mut.op
      BY <1>2, RestartFacts
  <2>2. /\ mut' = mut
        /\ cmt' = cmt \/ (mut.phase = "selected" /\ cmt'.phase = "selected" /\ cmt'.op = mut.op)
      BY <1>2, RestartFacts
  <2>3. ChainOrder'
      BY <2>2 DEF Chains, ChainOrder
  <2>4. \A d \in Candidates : Chained(d)'
      BY <2>1, <2>2 DEF Chained, Selected, NoRetained, Reserving, Published, Ending
  <2> QED
      BY <2>3, <2>4 DEF Chains
<1> QED
    BY <1>1, <1>2

\* Every step preserves the chains.
LEMMA NextChains == IndInv /\ Chains /\ Seen /\ [Next]_vars => Chains'
<1> SUFFICES ASSUME TypeOK, Core, Chains, Seen, [Next]_vars PROVE Chains'
    BY DEF IndInv
<1>1. ASSUME NEW c \in Candidates, RefreshStep(c) PROVE Chains'
  <2>1. CASE SelectRefused(c) \/ StepRefused(c) \/ RestoreRotationUncertain(c)
      BY <2>1, LeaveChains
  <2>2. CASE SelectRefreshMutation(c)
      BY <2>2, SelectChains
  <2>3. CASE PublishContinuation(c) \/ MarkRefreshing(c) \/ WriteSystemAuth(c) \/ FinishActivate(c)
      BY <2>3, StorageChains
  <2>4. CASE PublishCommit(c)
      BY <2>4, CommitChains
  <2>5. CASE PersistAttempt(c) \/ Exchange(c) \/ ExchangeReturns(c) \/ PersistResult(c)
      BY <2>5, AnswerChains
  <2>6. CASE CommitRecord(c)
      BY <2>6, RecordChains
  <2>7. CASE PublishReceipt(c)
      BY <2>7, ReceiptChains
  <2>8. CASE CompleteRefreshMutation(c)
      BY <2>8, CompleteChains
  <2> QED
      BY <1>1, <2>1, <2>2, <2>3, <2>4, <2>5, <2>6, <2>7, <2>8 DEF RefreshStep
<1>2. ASSUME NEW c \in Candidates, Call(c) \/ Other(c) PROVE Chains'
  <2>1. CASE RetryRetained(c)
      BY <2>1, RetryRetainedChains
  <2>2. CASE BeginRefresh(c) \/ StepFails(c)
      BY <2>2, LeaveChains
  <2>3. CASE BeginActivate(c)
      BY <2>3, StorageChains
  <2>4. CASE SuspendShared(c) \/ SaveLogin(c) \/ RemoveManaged(c)
      BY <2>4, PlainChains DEF SuspendShared, SaveLogin, RemoveManaged, volatile
  <2> QED
      BY <1>2, <2>1, <2>2, <2>3, <2>4 DEF Call, Other
<1>3. CASE SystemRewritesAuth \/ RestartRefused
    BY <1>3, PlainChains DEF SystemRewritesAuth, RestartRefused, volatile, durable
<1>4. CASE Crash \/ Restart
    BY <1>4, CrashChains
<1>5. CASE UNCHANGED vars
    BY <1>5, PlainChains DEF vars, durable, volatile
<1> QED
    BY <1>1, <1>2, <1>3, <1>4, <1>5 DEF Next

\* A chain's memory survives a step that leaves the anchors, and whose call
\* does not begin an operation.
LEMMA PlainSeen ==
    ASSUME Seen, UNCHANGED <<mut, cmt, cmtSeen, nextOp>>,
           \A d \in Candidates : pc'[d] = "select" => pc[d] = "select"
    PROVE  Seen'
BY DEF Seen, CurrentOp, Selected

\* Every step keeps the memory of the commit chain in step with its anchor.
LEMMA NextSeen == IndInv /\ Chains /\ Seen /\ [Next]_vars => Seen'
<1> SUFFICES ASSUME TypeOK, Core, Chains, Seen, [Next]_vars PROVE Seen'
    BY DEF IndInv
<1>0. /\ cmt \in Commitment /\ cmtSeen \in Commitment /\ nextOp \in Int
      /\ pc \in [Candidates -> Locations]
    BY DEF TypeOK
<1>1. ASSUME NEW c \in Candidates, RefreshStep(c) PROVE Seen'
  <2>1. CASE SelectRefreshMutation(c)
    <3>1. /\ pc[c] = "select" /\ mut'.op = CurrentOp /\ UNCHANGED <<cmt, cmtSeen, nextOp>>
          /\ \E l \in {"continuation", "idle"} : OnlyPlace(c, l)
        BY <2>1, SelectFacts DEF SelectRefreshMutation, cmtChain
    <3>2. cmtSeen.op # CurrentOp /\ \A d \in Candidates : pc'[d] # "select"
        BY <3>1, OthersIdle DEF Seen, OnlyPlace
    <3> QED
        BY <3>1, <3>2 DEF Seen, Selected
  <2>2. CASE PublishCommit(c)
    <3>1. /\ pc[c] = "commit" /\ UNCHANGED <<mut, nextOp>>
          /\ cmt' = [op |-> retained[c].op, phase |-> "selected"]
          /\ cmtSeen' = cmt' \/ (CommitReplaceable(retained[c].op) /\ cmtSeen' = cmt)
        BY <2>2 DEF PublishCommit
    <3>2. \A d \in Candidates : pc'[d] # "select"
      <4>1. PICK ok \in BOOLEAN :
              OnlyPlace(c, IF ok THEN AfterPublish(c, retained'[c], local) ELSE "idle")
          BY <2>2, CommitFacts
      <4>2. AfterPublish(c, retained'[c], local) # "select"
          BY AfterPublishLocation
      <4> QED
          BY <3>1, <4>1, <4>2, OthersIdle DEF OnlyPlace
    <3>3. retained[c].op < nextOp /\ Selected(retained[c].op)
        BY <3>1 DEF Core, IdentitiesFresh, Chains, Chained, Reserving
    <3>4. cmtSeen'.phase = "terminal" => cmtSeen'.op # retained[c].op
        BY <3>1 DEF CommitReplaceable
    <3>5. cmt'.op < nextOp /\ cmtSeen'.op < nextOp
        BY <3>1, <3>3 DEF Seen
    <3> QED
        BY <3>1, <3>2, <3>3, <3>4, <3>5 DEF Seen, Selected
  <2>3. CASE PublishReceipt(c)
    <3>1. /\ pc[c] = "receipt" /\ UNCHANGED <<mut, nextOp>>
          /\ \/ UNCHANGED <<cmt, cmtSeen>>
             \/ /\ cmtSeen = cmt /\ cmt.phase = "selected"
                /\ cmt' = [cmt EXCEPT !.phase = "terminal"]
                /\ cmtSeen' = cmtSeen \/ cmtSeen' = cmt'
        BY <2>3 DEF PublishReceipt, Terminalisable, cmtChain
    <3>2. \A d \in Candidates : pc'[d] # "select"
      <4>1. PICK l \in {"complete", "idle"} : OnlyPlace(c, l)
          BY <2>3, ReceiptFinishes, FinishPlace
      <4> QED
          BY <3>1, <4>1, OthersIdle DEF OnlyPlace
    <3>3. cmt'.op = cmt.op /\ (cmtSeen'.op = cmtSeen.op \/ cmtSeen'.op = cmt.op)
        BY <1>0, <3>1 DEF Commitment
    <3>4. cmtSeen'.phase = "terminal" => cmtSeen' = cmt' \/ ~Selected(cmtSeen'.op)
        BY <3>1 DEF Seen
    <3> QED
        BY <3>1, <3>2, <3>3, <3>4 DEF Seen, Selected
  <2>4. CASE CompleteRefreshMutation(c)
    <3>1. /\ pc[c] = "complete" /\ OnlyPlace(c, "idle")
          /\ mut' = mut \/ mut'.phase = "terminal"
          /\ UNCHANGED <<cmt, cmtSeen, nextOp>>
        BY <2>4, CompleteFacts DEF CompleteRefreshMutation, cmtChain
    <3>2. \A d \in Candidates : pc'[d] # "select"
        BY <3>1, OthersIdle DEF OnlyPlace
    <3> QED
        BY <3>1, <3>2 DEF Seen, Selected
  <2>5. CASE \/ SelectRefused(c) \/ PublishContinuation(c) \/ MarkRefreshing(c)
             \/ PersistAttempt(c) \/ Exchange(c) \/ ExchangeReturns(c) \/ PersistResult(c)
    <3>1. UNCHANGED <<mut, cmt, cmtSeen, nextOp>>
        BY <2>5 DEF SelectRefused, PublishContinuation, MarkRefreshing, PersistAttempt, Exchange,
           ExchangeReturns, PersistResult, durable, env, cmtChain
    <3>2. \E l \in Locations \ {"select"} : Goto(c, l)
        BY <2>5, AfterPrepareLocation DEF SelectRefused, PublishContinuation, MarkRefreshing,
           PersistAttempt, Exchange, ExchangeReturns, PersistResult, Finish, Locations
    <3> QED
        BY <1>0, <3>1, <3>2, PlainSeen DEF Goto
  <2>6. CASE \/ CommitRecord(c) \/ RestoreRotationUncertain(c) \/ StepRefused(c)
             \/ WriteSystemAuth(c) \/ FinishActivate(c)
    <3>1. UNCHANGED <<mut, cmt, cmtSeen, nextOp>>
        BY <2>6 DEF CommitRecord, RestoreRotationUncertain, StepRefused, WriteSystemAuth,
           FinishActivate, durable, env, cmtChain
    <3>2. \E l \in Locations \ {"select"} : Goto(c, l)
        BY <2>6 DEF CommitRecord, RestoreRotationUncertain, StepRefused, WriteSystemAuth,
           FinishActivate, Finish, Locations
    <3> QED
        BY <1>0, <3>1, <3>2, PlainSeen DEF Goto
  <2> QED
      BY <1>1, <2>1, <2>2, <2>3, <2>4, <2>5, <2>6 DEF RefreshStep
<1>2. ASSUME NEW c \in Candidates, Call(c) \/ Other(c) PROVE Seen'
  <2>1. CASE RetryRetained(c)
    <3> DEFINE done == \/ retained[c].committed
                       \/ /\ retained[c].res = "ok" /\ rec[c].st = "ready"
                          /\ rec[c].op = NoOp /\ rec[c].cred = retained[c].mat
               l == IF retained[c].digest THEN AfterPublish(c, retained[c], done)
                                          ELSE "continuation"
    <3>1. Goto(c, l) /\ UNCHANGED <<mut, cmt, cmtSeen, nextOp>>
        BY <2>1 DEF RetryRetained, durable, env, cmtChain
    <3>2. l # "select"
        BY AfterPublishLocation
    <3> HIDE DEF l
    <3> QED
        BY <1>0, <3>1, <3>2, PlainSeen DEF Goto
  <2>2. CASE BeginRefresh(c)
      BY <1>0, <2>2 DEF BeginRefresh, Seen, CurrentOp, Selected, durable, cmtChain, Commitment
  <2>3. CASE StepFails(c)
    <3>1. /\ Goto(c, "idle") /\ UNCHANGED <<mut, cmt, nextOp>>
          /\ cmtSeen' \in {cmtSeen, cmt, NoCommitment}
        BY <2>3 DEF StepFails, Unread, durable
    <3>2. \A d \in Candidates : pc'[d] = "select" => pc[d] = "select"
        BY <1>0, <3>1 DEF Goto
    <3>3. NoCommitment.op < nextOp /\ NoCommitment.phase = "none"
          /\ \A d \in Candidates : pc[d] = "select" => NoCommitment.op # CurrentOp
        BY DEF Core, IdentitiesFresh, TypeOK, NoCommitment, NoOp, Ops
    <3> QED
        BY <3>1, <3>2, <3>3 DEF Seen, Selected, CurrentOp
  <2>4. CASE SuspendShared(c) \/ SaveLogin(c) \/ RemoveManaged(c)
      BY <2>4, PlainSeen DEF SuspendShared, SaveLogin, RemoveManaged, volatile, cmtChain, env
  <2>5. CASE BeginActivate(c)
    <3>1. \E l \in {"idle", "activate"} : Goto(c, l)
        BY <2>5 DEF BeginActivate, Finish
    <3>2. UNCHANGED <<mut, cmt, cmtSeen, nextOp>>
        BY <2>5 DEF BeginActivate, cmtChain
    <3> QED
        BY <1>0, <3>1, <3>2, PlainSeen DEF Goto
  <2> QED
      BY <1>2, <2>1, <2>2, <2>3, <2>4, <2>5 DEF Call, Other
<1>3. CASE SystemRewritesAuth \/ RestartRefused \/ UNCHANGED vars
    BY <1>3, PlainSeen DEF SystemRewritesAuth, RestartRefused, vars, volatile, durable, env, cmtChain
<1>4. CASE Crash
    BY <1>4 DEF Crash, Seen, TypeOK, NoCommitment, NoOp, durable
<1>5. CASE Restart
  <2>1. /\ mut' = mut /\ nextOp' = nextOp /\ cmtSeen' = cmt'
        /\ \A d \in Candidates : pc'[d] = "idle"
        /\ cmt' = cmt \/ (mut.phase = "selected" /\ cmt'.op = mut.op)
      BY <1>5, RestartFacts DEF Restart, env
  <2>2. mut.phase = "selected" => mut.op < nextOp
      BY DEF Core, IdentitiesFresh
  <2> QED
      BY <2>1, <2>2 DEF Seen
<1> QED
    BY <1>1, <1>2, <1>3, <1>4, <1>5 DEF Next

\* The chains hold in every reachable state.
THEOREM ChainsHold == Spec => []Chains
<1>1. ASSUME Init PROVE Chains
  <2>1. \A c \in Candidates : pc[c] = "idle" /\ retained[c].op = NoOp
      BY <1>1 DEF Init, NoRetained
  <2>2. \A c \in Candidates : Chained(c)
      BY <2>1 DEF Chained, Reserving, Published, Ending
  <2>3. ChainOrder
      BY <1>1 DEF Init, ChainOrder, NoReservation, NoCommitment
  <2> QED
      BY <2>2, <2>3 DEF Chains
<1>2. Init => Seen
    BY DEF Init, Seen, NoCommitment, NoOp
<1> QED
    BY <1>1, <1>2, NextChains, NextSeen, IndInvHolds, PTL DEF Spec

\* The reservation opens before and closes after the commit, through every
\* interleaving, failure, crash and recovery (SelectRefreshMutation,
\* PublishCommit, PublishReceipt, CompleteRefreshMutation, RecoverRefresh).
THEOREM ChainsInOrder == Spec => []ChainOrder
<1>1. Chains => ChainOrder
    BY DEF Chains
<1> QED
    BY <1>1, ChainsHold, PTL

-----------------------------------------------------------------------------
(* Minted is preserved.  Steps that leave records, results and answers     *)
(* alone only have to say where their call goes.                           *)

\* What the record and the result must say for the call of c to be at l.
Settles(c, l, loc) ==
    /\ l # "wait"
    /\ l \in {"receipt", "complete"} => retained[c].op \in applied
    /\ loc => /\ l \notin {"idle", "select", "activate", "activated", "record", "restore"}
              /\ retained[c].op \in applied /\ ~retained[c].indet

\* What the layer reads of a retained operation, and of the result files: an
\* attempt that is put on file is no answer yet.
SameKept(r, s) == SameAnswer(r, s) /\ s.persisted = r.persisted /\ s.committed = r.committed
SameOutcomes ==
    \A o \in Ops : \/ result'[o] = result[o]
                   \/ result[o].kind = "none" /\ result'[o].kind = "attempt"

\* Moving a call, while records keep their credential and answers stay as they are.
LEMMA MoveMinted ==
    ASSUME TypeOK, Core, Minted, NEW c \in Candidates, NEW l,
           pc[c] # "idle" \/ MuFree, OnlyPlace(c, l), Settles(c, l, local'),
           \A d \in Candidates : rec'[d].cred = rec[d].cred,
           \A d \in Candidates : SameKept(retained[d], retained'[d]),
           SameOutcomes, UNCHANGED <<applied, nextTok, mut>>
    PROVE  Minted'
<1>1. \A d \in Candidates : d # c => pc[d] = "idle" /\ pc'[d] = "idle"
    BY OthersIdle DEF OnlyPlace
<1>2. pc'[c] = l
    BY DEF OnlyPlace
<1>3. \A o \in Ops : /\ result'[o].kind = "ok" <=> result[o].kind = "ok"
                     /\ result[o].kind # "none" => result'[o] = result[o]
                     /\ result'[o].kind \in {"ok", "definitive", "uncertain"} => result'[o] = result[o]
    BY DEF SameOutcomes
<1>4. Results'
    BY <1>3 DEF Minted, Results, Issued
<1>5. OutcomeNotDropped'
    BY <1>3 DEF Minted, OutcomeNotDropped
<1>6. ASSUME NEW d \in Candidates PROVE (rec[d].cred.at < nextTok /\ Kept(d))'
  <2>1. /\ SameKept(retained[d], retained'[d]) /\ rec[d].cred.at < nextTok /\ Kept(d)
        /\ retained[d].op # NoOp => retained[d].op \in Ops
      BY RetainedTyped DEF Minted
  <2>2. \A t : Unseen(t) => Unseen(t)'
      BY <1>3 DEF Unseen
  <2>3. retained'[d].op # NoOp /\ retained'[d].res # "none" =>
          OnFile(retained[d])' \/ NotOnFile(retained[d])'
      BY <1>3, <2>1, <2>2 DEF Kept, SameKept, SameAnswer, OnFile, NotOnFile, Issued
  <2>4. /\ pc'[d] # "wait"
        /\ pc'[d] \in {"receipt", "complete"} => retained'[d].op \in applied
        /\ local' /\ pc'[d] # "idle" =>
             /\ pc'[d] \notin {"select", "activate", "activated", "record", "restore"}
             /\ retained'[d].op \in applied /\ ~retained'[d].indet
      BY <1>1, <1>2, <2>1 DEF SameKept, SameAnswer, Settles
  <2> QED
      BY <2>1, <2>3, <2>4 DEF Kept, SameKept, SameAnswer
<1>7. (\A d \in Candidates : pc'[d] = "idle") => ~local'
    BY <1>2 DEF Settles
<1> QED
    BY <1>4, <1>5, <1>6, <1>7 DEF Minted

\* A step that changes neither retained operations nor files.
LEMMA NothingKept ==
    ASSUME UNCHANGED <<retained, result>>
    PROVE  (\A d \in Candidates : SameKept(retained[d], retained'[d])) /\ SameOutcomes
BY DEF SameKept, SameAnswer, SameOutcomes

\* Where Rotate goes after Prepare: to the receipt only once the outcome is
\* committed, to the record only before.
LEMMA AfterPrepareSettles ==
    ASSUME NEW c \in Candidates, NEW done \in BOOLEAN,
           done => retained[c].op \in applied /\ ~retained[c].indet,
           retained[c].indet \in BOOLEAN, retained[c].attempt \in BOOLEAN,
           retained[c].persisted \in BOOLEAN
    PROVE  /\ Settles(c, AfterPrepare(retained[c], done),
                      done /\ AfterPrepare(retained[c], done) # "idle")
           /\ AfterPrepare(retained[c], done) = "idle" => ~done
BY DEF AfterPrepare, Settles

\* The same after publishing the commit.
LEMMA AfterPublishSettles ==
    ASSUME NEW c \in Candidates, NEW done \in BOOLEAN,
           done => retained[c].op \in applied /\ ~retained[c].indet,
           retained[c].indet \in BOOLEAN, retained[c].attempt \in BOOLEAN,
           retained[c].persisted \in BOOLEAN
    PROVE  /\ Settles(c, AfterPublish(c, retained[c], done),
                      done /\ AfterPublish(c, retained[c], done) # "idle")
           /\ AfterPublish(c, retained[c], done) = "idle" => ~done
<1>1. CASE ~retained[c].indet /\ retained[c].res = "none" /\ rec[c].st = "ready"
    BY <1>1 DEF AfterPublish, Settles
<1>2. CASE ~(~retained[c].indet /\ retained[c].res = "none" /\ rec[c].st = "ready")
    BY <1>2, AfterPrepareSettles DEF AfterPublish
<1> QED
    BY <1>1, <1>2

\* retryRetainedLocked takes a record that holds the retained answer for a
\* committed one: rightly so, for only the commit can have put it there.
LEMMA DoneIsApplied ==
    ASSUME TypeOK, Minted, NEW c \in Candidates, retained[c].op # NoOp,
           \/ retained[c].committed
           \/ retained[c].res = "ok" /\ rec[c].cred = retained[c].mat
    PROVE  retained[c].op \in applied /\ ~retained[c].indet
<1>1. retained[c].op \in Ops
    BY RetainedTyped
<1>2. Kept(c)
    BY DEF Minted
<1>3. CASE retained[c].committed
    BY <1>2, <1>3 DEF Kept
<1>4. CASE retained[c].res = "ok" /\ rec[c].cred = retained[c].mat
  <2>1. OnFile(retained[c])
      BY <1>2, <1>4 DEF Kept, NotOnFile, Unseen
  <2> QED
      BY <1>1, <1>2, <1>4, <2>1 DEF Kept, OnFile, Minted, Results
<1> QED
    BY <1>3, <1>4

\* Entering the retry.
LEMMA RetryRetainedMinted ==
    ASSUME TypeOK, Core, Minted, NEW c \in Candidates, RetryRetained(c)
    PROVE  Minted'
<1> DEFINE done == \/ retained[c].committed
                   \/ /\ retained[c].res = "ok" /\ rec[c].st = "ready"
                      /\ rec[c].op = NoOp /\ rec[c].cred = retained[c].mat
           l == IF retained[c].digest THEN AfterPublish(c, retained[c], done)
                                      ELSE "continuation"
<1>1. /\ pc' = [pc EXCEPT ![c] = l] /\ local' = (done /\ l # "idle") /\ MuFree
      /\ UNCHANGED <<rec, mut, result, retained, applied, nextTok>>
    BY DEF RetryRetained, Goto, durable, env, history
<1>2. retained[c].op # NoOp
    BY DEF RetryRetained, RetainedExists
<1>3. done \in BOOLEAN /\ (done => retained[c].op \in applied /\ ~retained[c].indet)
    BY <1>2, DoneIsApplied, RetainedTyped
<1> HIDE DEF done
<1>4. Settles(c, l, done /\ l # "idle")
  <2>1. CASE retained[c].digest
      BY <1>3, <2>1, RetainedTyped, AfterPublishSettles
  <2>2. CASE ~retained[c].digest
      BY <1>3, <2>2 DEF Settles
  <2> QED
      BY <2>1, <2>2
<1> HIDE DEF l
<1>5. OnlyPlace(c, l)
    BY <1>1 DEF OnlyPlace, TypeOK
<1> QED
    BY <1>1, <1>4, <1>5, MoveMinted, NothingKept

\* Calls that leave, or stand at a place of no operation.
LEMMA LeaveMinted ==
    ASSUME TypeOK, Core, Minted, NEW c \in Candidates,
           \/ SelectRefused(c) \/ StepRefused(c) \/ StepFails(c)
           \/ RestoreRotationUncertain(c) \/ BeginRefresh(c)
    PROVE  Minted'
<1>1. PICK l \in {"idle", "select"} : Goto(c, l)
    BY DEF SelectRefused, StepRefused, StepFails, RestoreRotationUncertain, BeginRefresh
<1>2. UNCHANGED <<mut, retained, result, applied, nextTok>>
    BY DEF SelectRefused, StepRefused, StepFails, RestoreRotationUncertain, BeginRefresh,
           durable, env, history
<1>3. pc[c] # "idle" \/ MuFree
    BY DEF SelectRefused, StepRefused, StepFails, RestoreRotationUncertain, BeginRefresh, Accepts
<1>4. ~local'
  <2>1. CASE StepRefused(c) \/ StepFails(c)
      BY <2>1 DEF StepRefused, StepFails
  <2>2. CASE SelectRefused(c) \/ RestoreRotationUncertain(c)
      BY <2>2 DEF SelectRefused, RestoreRotationUncertain, Minted, Kept
  <2>3. CASE BeginRefresh(c)
      BY <2>3 DEF BeginRefresh, MuFree, Minted
  <2> QED
      BY <2>1, <2>2, <2>3
<1>5. \A d \in Candidates : rec'[d].cred = rec[d].cred
  <2>1. CASE RestoreRotationUncertain(c)
      BY <2>1 DEF RestoreRotationUncertain, TypeOK, Record
  <2>2. CASE ~RestoreRotationUncertain(c)
      BY <2>2 DEF SelectRefused, StepRefused, StepFails, BeginRefresh, durable
  <2> QED
      BY <2>1, <2>2
<1>6. OnlyPlace(c, l) /\ Settles(c, l, local')
    BY <1>1, <1>4 DEF OnlyPlace, Goto, TypeOK, Settles
<1> QED
    BY <1>2, <1>3, <1>5, <1>6, MoveMinted, NothingKept

\* Storage steps that leave retained operations and outcomes alone.
LEMMA StorageMinted ==
    ASSUME TypeOK, Core, Minted, NEW c \in Candidates,
           \/ PublishContinuation(c) \/ MarkRefreshing(c) \/ PublishReceipt(c)
           \/ BeginActivate(c) \/ WriteSystemAuth(c) \/ FinishActivate(c)
    PROVE  Minted'
<1>1. UNCHANGED <<mut, retained, result, applied, nextTok>>
    BY DEF PublishContinuation, MarkRefreshing, PublishReceipt, BeginActivate,
           WriteSystemAuth, FinishActivate, history
<1>2. pc[c] # "idle" \/ MuFree
    BY DEF PublishContinuation, MarkRefreshing, PublishReceipt, BeginActivate,
           WriteSystemAuth, FinishActivate
<1>3. \A d \in Candidates : rec'[d].cred = rec[d].cred
  <2>1. CASE MarkRefreshing(c) \/ BeginActivate(c) \/ FinishActivate(c)
    <3>1. rec \in [Candidates -> Record]
        BY DEF TypeOK
    <3>2. CASE MarkRefreshing(c)
        BY <3>1, <3>2 DEF MarkRefreshing, Record
    <3>3. CASE BeginActivate(c)
        BY <3>1, <3>3 DEF BeginActivate, Record
    <3>4. CASE FinishActivate(c)
        BY <3>1, <3>4 DEF FinishActivate, Record
    <3> QED
        BY <2>1, <3>2, <3>3, <3>4
  <2>2. CASE PublishContinuation(c) \/ PublishReceipt(c) \/ WriteSystemAuth(c)
      BY <2>2 DEF PublishContinuation, PublishReceipt, WriteSystemAuth
  <2> QED
      BY <2>1, <2>2
<1>4. Kept(c) /\ local \in BOOLEAN /\ (MuFree => ~local)
    BY DEF Minted, TypeOK, MuFree
<1>5. PICK l : /\ \E ok \in BOOLEAN : Finish(c, ok, l)
               /\ Settles(c, l, local /\ l # "idle") /\ (l = "idle" => ~local)
  <2>1. CASE PublishContinuation(c)
    <3>1. pc[c] = "continuation" /\ \E ok \in BOOLEAN : Finish(c, ok, "commit")
        BY <2>1 DEF PublishContinuation
    <3>2. Settles(c, "commit", local)
        BY <1>4, <3>1 DEF Settles, Kept
    <3> QED
        BY <3>1, <3>2 DEF Settles
  <2>2. CASE MarkRefreshing(c)
    <3>1. /\ pc[c] = "mark"
          /\ \E ok \in BOOLEAN : Finish(c, ok, AfterPrepare(retained[c], local))
        BY <2>2 DEF MarkRefreshing
    <3>2. local => retained[c].op \in applied /\ ~retained[c].indet
        BY <1>4, <3>1 DEF Kept
    <3> QED
        BY <1>4, <3>1, <3>2, RetainedTyped, AfterPrepareSettles
  <2>3. CASE PublishReceipt(c)
    <3>1. pc[c] = "receipt" /\ \E ok \in BOOLEAN : Finish(c, ok, "complete")
        BY <2>3, ReceiptFinishes DEF PublishReceipt
    <3>2. Settles(c, "complete", local)
        BY <1>4, <3>1 DEF Settles, Kept
    <3> QED
        BY <3>1, <3>2 DEF Settles
  <2>4. CASE BeginActivate(c) \/ WriteSystemAuth(c) \/ FinishActivate(c)
    <3>1. ~local
        BY <1>4, <2>4 DEF BeginActivate, WriteSystemAuth, FinishActivate, Kept
    <3>2. PICK m \in {"idle", "activate", "activated"} : \E ok \in BOOLEAN : Finish(c, ok, m)
        BY <2>4 DEF BeginActivate, WriteSystemAuth, FinishActivate
    <3> QED
        BY <3>1, <3>2 DEF Settles
  <2> QED
      BY <2>1, <2>2, <2>3, <2>4
<1>6. PICK ok \in BOOLEAN : Finish(c, ok, l)
    BY <1>5
<1>7. OnlyPlace(c, IF ok THEN l ELSE "idle") /\ local' = (local /\ ok)
    BY <1>6, FinishPlace
<1>8. Settles(c, IF ok THEN l ELSE "idle", local')
    BY <1>4, <1>5, <1>7 DEF Settles
<1> QED
    BY <1>1, <1>2, <1>3, <1>7, <1>8, MoveMinted, NothingKept

\* Publishing the commit and putting the attempt on file.
LEMMA CommitMinted ==
    ASSUME TypeOK, Core, Minted, NEW c \in Candidates, PublishCommit(c) \/ PersistAttempt(c)
    PROVE  Minted'
<1>1. Kept(c) /\ local \in BOOLEAN
    BY DEF Minted, TypeOK
<1>2. CASE PublishCommit(c)
  <2>1. PICK ok \in BOOLEAN :
           /\ OnlyPlace(c, IF ok THEN AfterPublish(c, retained'[c], local) ELSE "idle")
           /\ local' = (local /\ ok)
      BY <1>2, CommitFacts
  <2>2. /\ pc[c] = "commit" /\ OnlyRetained(c) /\ SameAnswer(retained[c], retained'[c])
        /\ retained'[c].persisted = retained[c].persisted
        /\ retained'[c].committed = retained[c].committed
        /\ retained'[c].attempt = retained[c].attempt
        /\ UNCHANGED <<rec, mut, result, nextTok, applied>>
      BY <1>2, CommitFacts DEF history
  <2>3. \A d \in Candidates : SameKept(retained[d], retained'[d])
      BY <2>2 DEF SameKept, OnlyRetained, SameAnswer
  <2>4. local => retained[c].op \in applied /\ ~retained[c].indet
      BY <1>1, <2>2 DEF Kept
  <2> DEFINE l == AfterPublish(c, retained'[c], local)
  <2>5. /\ l \notin {"wait", "complete", "select", "activate", "activated", "restore"}
        /\ l = "receipt" => local
        /\ local => l \notin {"idle", "record"}
    <3>1. /\ retained'[c].indet \in BOOLEAN /\ retained'[c].attempt \in BOOLEAN
          /\ retained'[c].persisted \in BOOLEAN /\ (local => ~retained'[c].indet)
        BY <2>2, <2>4, RetainedTyped DEF SameAnswer
    <3> QED
        BY <1>1, <3>1 DEF AfterPublish, AfterPrepare
  <2> HIDE DEF l
  <2>6. Settles(c, IF ok THEN l ELSE "idle", local')
      BY <1>1, <2>1, <2>4, <2>5 DEF Settles
  <2>7. OnlyPlace(c, IF ok THEN l ELSE "idle")
      BY <2>1 DEF l
  <2>8. SameOutcomes
      BY <2>2 DEF SameOutcomes
  <2> QED
      BY <2>2, <2>3, <2>6, <2>7, <2>8, MoveMinted
<1>3. CASE PersistAttempt(c)
  <2>1. PICK ok \in BOOLEAN : /\ OnlyPlace(c, IF ok THEN "exchange" ELSE "idle")
                              /\ local' = (local /\ ok)
      BY <1>3, AttemptFacts
  <2>2. /\ pc[c] = "attempt" /\ OnlyRetained(c) /\ SameAnswer(retained[c], retained'[c])
        /\ retained'[c].persisted = retained[c].persisted
        /\ retained'[c].committed = retained[c].committed
        /\ SameOutcomes /\ UNCHANGED <<rec, mut, nextTok, applied>>
      BY <1>3, AttemptFacts DEF SameOutcomes, history
  <2>3. \A d \in Candidates : SameKept(retained[d], retained'[d])
      BY <2>2 DEF SameKept, OnlyRetained, SameAnswer
  <2>4. Settles(c, IF ok THEN "exchange" ELSE "idle", local')
      BY <1>1, <2>1, <2>2 DEF Settles, Kept
  <2> QED
      BY <2>1, <2>2, <2>3, <2>4, MoveMinted
<1> QED
    BY <1>2, <1>3

\* Records that change outside a call: a login brings a new token, a removal none.
LEMMA RecordsMinted ==
    ASSUME TypeOK, Core, Minted, NEW c \in Candidates,
           SuspendShared(c) \/ SaveLogin(c) \/ RemoveManaged(c)
    PROVE  Minted'
<1>1. /\ UNCHANGED <<mut, result, retained, pc, local, applied>>
      /\ \A d \in Candidates : pc[d] = "idle"
    BY DEF SuspendShared, SaveLogin, RemoveManaged, volatile, history, MuFree
<1>2. rec \in [Candidates -> Record] /\ nextTok \in 1..(MaxTok + 1)
    BY DEF TypeOK
<1>3. /\ nextTok' \in Int /\ nextTok <= nextTok'
      /\ \A d \in Candidates : \/ rec'[d].cred.at = rec[d].cred.at
                               \/ rec'[d].cred.at = NoTok
                               \/ rec'[d].cred.at = nextTok /\ nextTok < nextTok'
  <2>1. CASE SuspendShared(c)
      BY <1>2, <2>1 DEF SuspendShared, env, Record
  <2>2. CASE SaveLogin(c)
      BY <1>2, <2>2 DEF SaveLogin, Record
  <2>3. CASE RemoveManaged(c)
      BY <1>2, <2>3 DEF RemoveManaged, NoMaterial, Record
  <2> QED
      BY <2>1, <2>2, <2>3
<1>4. /\ \A d \in Candidates : rec[d].cred.at \in Int /\ retained[d].mat.at \in Int
      /\ \A o \in Ops : result[o].mat.at \in Int
    BY DEF TypeOK, Record, Retained, Material, Tokens
<1>5. ASSUME NEW t \in Int, Issued(t) PROVE /\ Issued(t)'
                                            /\ \A d \in Candidates : rec[d].cred.at # t => rec'[d].cred.at # t
    BY <1>2, <1>3, <1>5 DEF Issued, NoTok
<1>6. Results'
    BY <1>1, <1>4, <1>5 DEF Minted, Results
<1>7. OutcomeNotDropped'
    BY <1>1 DEF Minted, OutcomeNotDropped
<1>8. ASSUME NEW d \in Candidates PROVE (rec[d].cred.at < nextTok /\ Kept(d))'
  <2>1. rec'[d].cred.at < nextTok'
      BY <1>2, <1>3, <1>4 DEF Minted, NoTok
  <2>2. Kept(d) /\ pc'[d] = "idle" /\ retained'[d] = retained[d]
      BY <1>1 DEF Minted
  <2>3. NotOnFile(retained[d]) => NotOnFile(retained[d])'
      BY <1>1, <1>4, <1>5 DEF NotOnFile, Unseen
  <2>4. OnFile(retained[d]) => OnFile(retained[d])'
      BY <1>1 DEF OnFile
  <2> QED
      BY <1>1, <2>1, <2>2, <2>3, <2>4 DEF Kept
<1> QED
    BY <1>1, <1>6, <1>7, <1>8 DEF Minted

\* The operation that is sent has no answer on file.
LEMMA NotYetAnswered ==
    ASSUME TypeOK, Core, NEW c \in Candidates, pc[c] = "exchange"
    PROVE  /\ retained[c].op \in Ops /\ retained[c].op # NoOp
           /\ retained[c].res = "none" /\ ~retained[c].indet
           /\ sent[retained[c].op] = 0 /\ result[retained[c].op].kind = "attempt"
<1>1. retained[c].op \in Ops /\ retained[c].op # NoOp
    BY RetainedOp
<1>2. retained[c].res = "none" /\ ~retained[c].indet /\ retained[c].attempt
    BY DEF Core, Located
<1>3. sent[retained[c].op] # 1 /\ result[retained[c].op].kind # "none"
    BY <1>1, <1>2 DEF Core, RetainedCovers
<1>4. sent[retained[c].op] \in Nat /\ sent[retained[c].op] <= 1 /\ ~Known(retained[c].op)
    BY <1>1, <1>3 DEF Core, FileCoversExchange, TypeOK
<1> QED
    BY <1>1, <1>2, <1>3, <1>4 DEF Known

\* The exchange mints a token that nothing has yet.
LEMMA ExchangeMinted ==
    ASSUME TypeOK, Core, Minted, NEW c \in Candidates, Exchange(c)
    PROVE  Minted'
<1>1. /\ pc[c] = "exchange" /\ pc' = [pc EXCEPT ![c] = "wait"]
      /\ UNCHANGED <<rec, mut, result, retained, local, applied>>
    BY DEF Exchange, Goto, durable
<1>2. OnlyPlace(c, "wait")
    BY <1>1 DEF OnlyPlace, TypeOK
<1>3. nextTok \in Int /\ nextTok >= 1
    BY DEF TypeOK
<1>4. /\ nextTok' \in {nextTok, nextTok + 1}
      /\ wire'.kind = "ok" => wire'.mat.at = nextTok /\ nextTok' = nextTok + 1
    BY <1>3 DEF Exchange, ProviderAnswers
<1>5. /\ \A d \in Candidates : rec[d].cred.at \in Int /\ retained[d].mat.at \in Int
      /\ \A o \in Ops : result[o].mat.at \in Int
    BY DEF TypeOK, Record, Retained, Material, Tokens
<1>6. \A t \in Int : Issued(t) => Issued(t)'
    BY <1>3, <1>4 DEF Issued
<1>7. \A t : Unseen(t)' <=> Unseen(t)
    BY <1>1 DEF Unseen
<1>8. wire'.kind = "ok" => nextTok # NoTok /\ nextTok < nextTok'
    BY <1>3, <1>4 DEF NoTok
<1>9. Unseen(nextTok)
    BY <1>3, <1>5 DEF Unseen, Minted, Results, Issued
<1>10. Results'
    BY <1>1, <1>5, <1>6 DEF Minted, Results
<1>11. OutcomeNotDropped'
    BY <1>1 DEF Minted, OutcomeNotDropped
<1>12. ASSUME NEW d \in Candidates PROVE (rec[d].cred.at < nextTok /\ Kept(d))'
  <2>1. rec'[d].cred.at < nextTok'
      BY <1>1, <1>3, <1>4, <1>5 DEF Minted
  <2>2. Kept(d) /\ retained'[d] = retained[d]
      BY <1>1 DEF Minted
  <2>3. /\ NotOnFile(retained[d]) => NotOnFile(retained[d])'
        /\ OnFile(retained[d]) => OnFile(retained[d])'
      BY <1>1, <1>5, <1>6, <1>7 DEF NotOnFile, OnFile
  <2>4. CASE d # c
    <3>1. pc'[d] = "idle"
        BY <1>1, <1>2, <2>4, OthersIdle DEF OnlyPlace
    <3> QED
        BY <1>1, <2>1, <2>2, <2>3, <3>1 DEF Kept
  <2>5. CASE d = c
    <3>1. pc'[c] = "wait" /\ result[retained[c].op].kind = "attempt" /\ pc[c] = "exchange"
        BY <1>1, <1>2, NotYetAnswered DEF OnlyPlace
    <3>2. wire'.kind = "ok" => (Issued(wire.mat.at) /\ Unseen(wire.mat.at))'
        BY <1>1, <1>4, <1>8, <1>9 DEF Issued, Unseen
    <3> QED
        BY <1>1, <2>1, <2>2, <2>3, <2>5, <3>1, <3>2 DEF Kept
  <2> QED
      BY <2>4, <2>5
<1>13. ~(\A d \in Candidates : pc'[d] = "idle")
    BY <1>2 DEF OnlyPlace
<1> QED
    BY <1>10, <1>11, <1>12, <1>13 DEF Minted

\* The answer is retained, and is not on file yet.
LEMMA ReturnMinted ==
    ASSUME TypeOK, Core, Chains, Minted, NEW c \in Candidates, ExchangeReturns(c)
    PROVE  Minted'
<1>1. /\ pc[c] = "wait" /\ OnlyPlace(c, "persist") /\ OnlyRetained(c)
      /\ retained'[c].op = retained[c].op
      /\ retained'[c].indet = retained[c].indet
      /\ retained'[c].persisted = retained[c].persisted
      /\ retained'[c].committed = retained[c].committed
      /\ \/ retained'[c].res = wire.kind /\ retained'[c].mat = wire.mat
         \/ retained'[c].res = "uncertain"
      /\ UNCHANGED <<rec, mut, result, local, nextTok, applied>>
    BY ReturnFacts DEF durable, history
<1>2. Results' /\ OutcomeNotDropped'
    BY <1>1 DEF Minted, Results, OutcomeNotDropped, Issued
<1>3. Kept(c) /\ retained[c].op \in Ops /\ retained[c].op # NoOp
    BY <1>1, RetainedOp DEF Minted
<1>4. retained[c].res = "none" /\ ~retained[c].indet
    BY <1>1 DEF Core, Located
<1>5. ~retained[c].persisted
    BY <1>3, <1>4 DEF Kept
<1>6. NotOnFile(retained[c])'
    BY <1>1, <1>3, <1>5 DEF Kept, NotOnFile, Issued, Unseen
<1>7. ASSUME NEW d \in Candidates PROVE (rec[d].cred.at < nextTok /\ Kept(d))'
  <2>1. rec'[d].cred.at < nextTok'
      BY <1>1 DEF Minted
  <2>2. CASE d = c
    <3>1. pc'[c] = "persist"
        BY <1>1 DEF OnlyPlace
    <3> QED
        BY <1>1, <1>3, <1>4, <1>5, <1>6, <2>1, <2>2, <3>1 DEF Kept
  <2>3. CASE d # c
    <3>1. pc'[d] = "idle" /\ retained'[d] = retained[d]
        BY <1>1, <2>3, OthersIdle DEF OnlyPlace, OnlyRetained
    <3>2. /\ NotOnFile(retained[d]) => NotOnFile(retained[d])'
          /\ OnFile(retained[d]) => OnFile(retained[d])'
        BY <1>1, <3>1 DEF NotOnFile, OnFile, Issued, Unseen
    <3> QED
        BY <1>1, <2>1, <3>1, <3>2 DEF Kept, Minted
  <2> QED
      BY <2>2, <2>3
<1>8. ~(\A d \in Candidates : pc'[d] = "idle")
    BY <1>1 DEF OnlyPlace
<1> QED
    BY <1>2, <1>7, <1>8 DEF Minted

\* An operation whose answer is not on file is the selected one.
LEMMA NotOnFileIsSelected ==
    ASSUME Chains, NEW c \in Candidates, retained[c].op # NoOp, NotOnFile(retained[c])
    PROVE  mut.phase = "selected" /\ retained[c].op = mut.op
BY DEF Chains, Chained, Answered, NotOnFile, Selected

\* The answer goes on file.  Another operation of which the answer is not on
\* file would be the selected one too.
LEMMA PersistMinted ==
    ASSUME TypeOK, Core, Chains, Minted, NEW c \in Candidates, PersistResult(c)
    PROVE  Minted'
<1> DEFINE x == retained[c].op
<1>1. /\ pc[c] = "persist" /\ x \in Ops /\ x # NoOp
      /\ OnlyRetained(c) /\ SameAnswer(retained[c], retained'[c])
      /\ retained'[c].committed = local
      /\ result'[x].kind = retained[c].res /\ result'[x].mat = retained[c].mat
      /\ \A o \in Ops : o # x => result'[o] = result[o]
      /\ UNCHANGED <<rec, mut, nextTok, applied>>
    BY PersistFacts DEF history
<1>2. PICK ok \in BOOLEAN :
        /\ retained'[c].persisted = ok
        /\ OnlyPlace(c, IF ok THEN (IF local THEN "receipt" ELSE "record") ELSE "idle")
        /\ local' = (local /\ ok)
    BY PersistFacts
<1>3. /\ Kept(c) /\ local \in BOOLEAN /\ retained[c].res # "none" /\ ~retained[c].indet
      /\ mut.phase = "selected" /\ mut.op = x
    BY <1>1 DEF Minted, TypeOK, Core, Located, Chains, Chained, Reserving, Selected
<1>4. /\ retained[c].res = "ok" => Issued(retained[c].mat.at)
      /\ \/ result'[x].kind = result[x].kind /\ result'[x].mat = result[x].mat
         \/ result[x].kind = "attempt" /\ (retained[c].res = "ok" => Unseen(retained[c].mat.at))
  <2>1. CASE OnFile(retained[c])
      BY <1>1, <2>1 DEF OnFile, Minted, Results
  <2>2. CASE NotOnFile(retained[c])
      BY <2>2 DEF NotOnFile
  <2> QED
      BY <1>1, <1>3, <2>1, <2>2 DEF Kept
<1> HIDE DEF x
<1>5. Results'
  <2>1. CASE result'[x].kind = result[x].kind /\ result'[x].mat = result[x].mat
    <3>1. \A o \in Ops : result'[o].kind = result[o].kind /\ result'[o].mat = result[o].mat
        BY <1>1, <2>1
    <3> QED
        BY <1>1, <3>1 DEF Minted, Results, Issued
  <2>2. CASE result[x].kind = "attempt" /\ (retained[c].res = "ok" => Unseen(retained[c].mat.at))
    <3>1. SUFFICES ASSUME NEW o \in Ops, result'[o].kind = "ok"
                   PROVE  /\ Issued(result'[o].mat.at)
                          /\ \A p \in Ops : result'[p].kind = "ok" /\ p # o =>
                                              result'[p].mat.at # result'[o].mat.at
                          /\ o \notin applied => \A d \in Candidates : rec[d].cred.at # result'[o].mat.at
        BY <1>1 DEF Results, Issued
    <3>2. CASE o = x
      <4>1. retained[c].res = "ok" /\ Issued(retained[c].mat.at) /\ Unseen(retained[c].mat.at)
          BY <1>1, <1>4, <2>2, <3>1, <3>2
      <4> QED
          BY <1>1, <3>2, <4>1 DEF Unseen
    <3>3. CASE o # x
      <4>1. result'[o] = result[o] /\ result[o].kind = "ok"
          BY <1>1, <3>1, <3>3
      <4>2. result'[x].kind = "ok" => result'[x].mat.at # result[o].mat.at
          BY <1>1, <2>2, <4>1 DEF Unseen
      <4> QED
          BY <1>1, <4>1, <4>2 DEF Minted, Results
    <3> QED
        BY <3>2, <3>3
  <2> QED
      BY <1>4, <2>1, <2>2
<1>6. OutcomeNotDropped'
    BY <1>1, <1>3 DEF Minted, OutcomeNotDropped
<1>7. ASSUME NEW d \in Candidates PROVE (rec[d].cred.at < nextTok /\ Kept(d))'
  <2>1. rec'[d].cred.at < nextTok'
      BY <1>1 DEF Minted
  <2>2. CASE d = c
    <3>1. OnFile(retained[c])'
        BY <1>1 DEF OnFile, SameAnswer, x
    <3>2. pc'[c] = IF ok THEN (IF local THEN "receipt" ELSE "record") ELSE "idle"
        BY <1>2 DEF OnlyPlace
    <3>3. local => retained[c].op \in applied
        BY <1>1, <1>3 DEF Kept
    <3> QED
        BY <1>1, <1>2, <1>3, <2>1, <2>2, <3>1, <3>2, <3>3 DEF Kept, SameAnswer
  <2>3. CASE d # c
    <3>1. pc'[d] = "idle" /\ retained'[d] = retained[d]
        BY <1>1, <1>2, <2>3, OthersIdle DEF OnlyPlace, OnlyRetained
    <3>2. retained[d].op # NoOp => retained[d].op # x /\ retained[d].op \in Ops
        BY <1>1, <2>3, RetainedTyped DEF Core, RetainedDistinct, x
    <3>3. retained[d].op # NoOp => ~NotOnFile(retained[d])
        BY <1>3, <3>2, NotOnFileIsSelected
    <3>4. retained[d].op # NoOp /\ OnFile(retained[d]) => OnFile(retained[d])'
        BY <1>1, <3>1, <3>2 DEF OnFile
    <3> QED
        BY <1>1, <2>1, <3>1, <3>3, <3>4 DEF Kept, Minted
  <2> QED
      BY <2>2, <2>3
<1>8. (\A d \in Candidates : pc'[d] = "idle") => ~local'
    BY <1>2, <1>3 DEF OnlyPlace
<1> QED
    BY <1>5, <1>6, <1>7, <1>8 DEF Minted

\* The record takes the token of a result that is on file, and so differs
\* from every answer that has not been applied.
LEMMA RecordMinted ==
    ASSUME TypeOK, Core, Chains, Minted, NEW c \in Candidates, CommitRecord(c)
    PROVE  Minted'
<1> DEFINE x == retained[c].op
<1>1. /\ pc[c] = "record" /\ x \in Ops /\ x # NoOp
      /\ OnlyRetained(c) /\ SameAnswer(retained[c], retained'[c])
      /\ retained'[c].persisted = retained[c].persisted
      /\ \A d \in Candidates : d # c => rec'[d] = rec[d]
      /\ UNCHANGED <<mut, result, nextTok>>
    BY RecordFacts
<1>2. /\ applied \subseteq applied'
      /\ applied' \subseteq applied \cup {x}
      /\ retained'[c].committed => x \in applied' \/ retained[c].committed
      /\ \E l \in {"receipt", "restore", "idle"} :
           OnlyPlace(c, l) /\ (l = "receipt" => x \in applied')
      /\ local' => local
      /\ rec'[c] = rec[c] \/ (rec'[c] = CommittedRecord(c) /\ x \in applied')
  <2>1. CASE /\ rec'[c] = CommittedRecord(c)
             /\ applied' = applied \cup {retained[c].op}
             /\ \/ retained'[c].committed /\ OnlyPlace(c, "receipt") /\ local' = local
                \/ /\ retained'[c].committed = retained[c].committed /\ ~local'
                   /\ OnlyPlace(c, IF retained[c].res = "ok" THEN "restore" ELSE "idle")
      BY <2>1
  <2>2. CASE /\ rec' = rec /\ applied' = applied /\ OnlyPlace(c, "restore")
             /\ retained'[c].committed = retained[c].committed /\ local' = local
      BY <2>2
  <2> QED
      BY <2>1, <2>2, RecordFacts
<1>3. /\ Kept(c) /\ Answered(retained[c])
    BY <1>1 DEF Minted, Chains, Chained, Ending
<1>4. OnFile(retained[c]) /\ retained[c].res # "none" /\ ~retained[c].indet /\ ~local
      /\ retained[c].persisted
    BY <1>1, <1>3 DEF Kept, Answered, NotOnFile
<1>5. /\ result[x].kind = retained[c].res /\ result[x].mat = retained[c].mat
    BY <1>4 DEF OnFile
<1>6. \/ rec'[c].cred = rec[c].cred
      \/ rec'[c].cred = result[x].mat /\ result[x].kind = "ok" /\ x \in applied'
  <2>1. rec[c] \in Record
      BY DEF TypeOK
  <2>2. \/ CommittedRecord(c).cred = rec[c].cred
        \/ CommittedRecord(c).cred = retained[c].mat /\ retained[c].res = "ok"
      BY <2>1 DEF CommittedRecord, Record
  <2> QED
      BY <1>2, <1>5, <2>2
<1> HIDE DEF x
<1>7. Results'
  <2>1. SUFFICES ASSUME NEW o \in Ops, result[o].kind = "ok", o \notin applied',
                        NEW d \in Candidates
                 PROVE  rec'[d].cred.at # result[o].mat.at
      BY <1>1 DEF Minted, Results, Issued
  <2>2. o \notin applied /\ rec[d].cred.at # result[o].mat.at
      BY <1>2, <2>1 DEF Minted, Results
  <2>3. CASE d # c
      BY <1>1, <2>2, <2>3
  <2>4. CASE d = c
    <3>1. result[x].kind = "ok" /\ x # o => result[x].mat.at # result[o].mat.at
        BY <1>1, <2>1 DEF Minted, Results
    <3> QED
        BY <1>6, <2>1, <2>2, <2>4, <3>1
  <2> QED
      BY <2>3, <2>4
<1>8. OutcomeNotDropped'
    BY <1>1, <1>2 DEF Minted, OutcomeNotDropped
<1>9. ASSUME NEW t, Unseen(t) PROVE Unseen(t)'
    BY <1>1, <1>6, <1>9 DEF Unseen
<1>10. ASSUME NEW d \in Candidates PROVE (rec[d].cred.at < nextTok /\ Kept(d))'
  <2>1. rec'[d].cred.at < nextTok'
      BY <1>1, <1>6 DEF Minted, Results, Issued
  <2>2. CASE d = c
    <3>1. OnFile(retained[c])'
        BY <1>1, <1>4 DEF OnFile, SameAnswer
    <3>2. /\ pc'[c] \in {"receipt", "restore", "idle"} /\ (pc'[c] = "receipt" => x \in applied')
          /\ ~local'
        BY <1>2, <1>4 DEF OnlyPlace
    <3>3. retained'[c].committed => x \in applied'
        BY <1>1, <1>2, <1>3 DEF Kept, x
    <3>4. retained'[c].op = x /\ retained'[c].res # "none" /\ ~retained'[c].indet
        BY <1>1, <1>4 DEF SameAnswer, x
    <3> QED
        BY <2>1, <2>2, <3>1, <3>2, <3>3, <3>4 DEF Kept
  <2>3. CASE d # c
    <3>1. pc'[d] = "idle" /\ retained'[d] = retained[d]
        BY <1>1, <1>2, <2>3, OthersIdle DEF OnlyPlace, OnlyRetained
    <3>2. /\ NotOnFile(retained[d]) => NotOnFile(retained[d])'
          /\ OnFile(retained[d]) => OnFile(retained[d])'
        BY <1>1, <1>9, <3>1 DEF NotOnFile, OnFile, Issued
    <3> QED
        BY <1>2, <2>1, <3>1, <3>2 DEF Kept, Minted
  <2> QED
      BY <2>2, <2>3
<1> QED
    BY <1>2, <1>4, <1>7, <1>8, <1>10 DEF Minted

\* A new operation has nothing to answer yet; a finished one is forgotten.
LEMMA SelectMinted ==
    ASSUME TypeOK, Core, Chains, Minted, NEW c \in Candidates,
           SelectRefreshMutation(c) \/ CompleteRefreshMutation(c)
    PROVE  Minted'
<1>1. /\ pc[c] # "idle" /\ OnlyRetained(c) /\ ~local'
      /\ \E l \in {"idle", "continuation"} : OnlyPlace(c, l)
      /\ \/ retained'[c] = retained[c]
         \/ /\ retained'[c].op = NoOp \/ retained'[c].res = "none"
            /\ ~retained'[c].persisted /\ ~retained'[c].committed
      /\ UNCHANGED <<rec, result, nextTok, applied>>
      /\ \A o \in Ops : mut.phase = "selected" /\ mut.op = o =>
           (mut'.phase = "selected" /\ mut'.op = o) \/ o \in applied
  <2>1. CASE SelectRefreshMutation(c)
    <3>1. PICK ok \in BOOLEAN :
            /\ OnlyPlace(c, IF ok THEN "continuation" ELSE "idle")
            /\ local' = (local /\ ok)
            /\ ~ok => retained'[c] = retained[c]
            /\ ok => /\ retained'[c].op = CurrentOp /\ retained'[c].res = "none"
                     /\ ~retained'[c].persisted /\ ~retained'[c].committed
                     /\ ~retained'[c].digest /\ ~retained'[c].indet
        BY <2>1, SelectFacts
    <3>2. /\ pc[c] = "select" /\ mut.phase # "selected" /\ OnlyRetained(c)
          /\ UNCHANGED <<rec, result, nextTok, applied>>
        BY <2>1, SelectFacts DEF history
    <3>3. ~local
        BY <3>2 DEF Minted, Kept
    <3> QED
        BY <3>1, <3>2, <3>3
  <2>2. CASE CompleteRefreshMutation(c)
    <3>1. /\ pc[c] = "complete" /\ (mut' = mut \/ mut.op = retained[c].op)
          /\ OnlyPlace(c, "idle") /\ ~local' /\ OnlyRetained(c)
          /\ retained'[c] = retained[c] \/ retained'[c] = NoRetained
          /\ UNCHANGED <<rec, result, nextTok, applied>>
        BY <2>2, CompleteFacts DEF history, Selected
    <3>2. mut' = mut \/ mut.op \in applied
        BY <3>1 DEF Minted, Kept
    <3> QED
        BY <3>1, <3>2 DEF NoRetained
  <2> QED
      BY <2>1, <2>2
<1>2. Results' /\ OutcomeNotDropped'
    BY <1>1 DEF Minted, Results, OutcomeNotDropped, Issued
<1>3. ASSUME NEW d \in Candidates PROVE (rec[d].cred.at < nextTok /\ Kept(d))'
  <2>1. pc'[d] \in {"idle", "continuation"}
      BY <1>1, OthersIdle DEF OnlyPlace
  <2>2. CASE retained'[d] = retained[d]
    <3>1. /\ NotOnFile(retained[d]) => NotOnFile(retained[d])'
          /\ OnFile(retained[d]) => OnFile(retained[d])'
        BY <1>1, <2>2 DEF NotOnFile, OnFile, Issued, Unseen
    <3> QED
        BY <1>1, <2>1, <2>2, <3>1 DEF Kept, Minted
  <2>3. CASE retained'[d] # retained[d]
    <3>1. /\ d = c /\ (retained'[c].op = NoOp \/ retained'[c].res = "none")
          /\ ~retained'[c].persisted /\ ~retained'[c].committed
        BY <1>1, <2>3 DEF OnlyRetained
    <3> QED
        BY <1>1, <2>1, <3>1 DEF Kept, Minted
  <2> QED
      BY <2>2, <2>3
<1> QED
    BY <1>1, <1>2, <1>3 DEF Minted

\* A crash forgets what is retained, and a restart finds it on file again.
LEMMA CrashMinted ==
    ASSUME TypeOK, Core, Minted, Crash \/ Restart
    PROVE  Minted'
<1>1. UNCHANGED <<rec, mut, result, nextTok, applied>>
    BY RestartFacts DEF Crash, durable, env, history
<1>2. Results' /\ OutcomeNotDropped'
    BY <1>1 DEF Minted, Results, OutcomeNotDropped, Issued
<1>3. \A d \in Candidates :
        /\ pc'[d] = "idle"
        /\ \/ retained'[d] = NoRetained
           \/ /\ retained'[d].op = mut.op /\ ~retained'[d].committed
              /\ \/ retained'[d].res = "none" /\ ~retained'[d].persisted
                 \/ /\ result[mut.op].kind \notin {"none", "attempt"} /\ ~retained'[d].indet
                    /\ retained'[d].res = result[mut.op].kind
                    /\ retained'[d].mat = result[mut.op].mat
  <2>1. CASE Crash
      BY <2>1 DEF Crash
  <2>2. CASE Restart
      BY <2>2, RestartFacts
  <2> QED
      BY <2>1, <2>2
<1>4. ~local'
  <2>1. CASE Crash
      BY <2>1 DEF Crash
  <2>2. CASE Restart
      BY <2>2, RestartFacts DEF Minted
  <2> QED
      BY <2>1, <2>2
<1>5. ASSUME NEW d \in Candidates PROVE (rec[d].cred.at < nextTok /\ Kept(d))'
  <2>1. CASE retained'[d] = NoRetained
      BY <1>1, <1>3, <2>1 DEF Minted, Kept, NoRetained
  <2>2. CASE retained'[d].res = "none" /\ ~retained'[d].persisted /\ ~retained'[d].committed
      BY <1>1, <1>3, <2>2 DEF Minted, Kept
  <2>3. CASE /\ retained'[d].op = mut.op /\ ~retained'[d].committed
             /\ result[mut.op].kind \notin {"none", "attempt"} /\ ~retained'[d].indet
             /\ retained'[d].res = result[mut.op].kind
             /\ retained'[d].mat = result[mut.op].mat
    <3>1. OnFile(retained[d])'
        BY <1>1, <2>3 DEF OnFile
    <3> QED
        BY <1>1, <1>3, <1>4, <2>3, <3>1 DEF Minted, Kept
  <2> QED
      BY <1>3, <2>1, <2>2, <2>3
<1> QED
    BY <1>2, <1>4, <1>5 DEF Minted

\* Every step preserves Minted.
LEMMA NextMinted == IndInv /\ Chains /\ Minted /\ [Next]_vars => Minted'
<1> SUFFICES ASSUME TypeOK, Core, Chains, Minted, [Next]_vars PROVE Minted'
    BY DEF IndInv
<1>1. ASSUME NEW c \in Candidates, RefreshStep(c) PROVE Minted'
  <2>1. CASE SelectRefused(c) \/ StepRefused(c) \/ RestoreRotationUncertain(c)
      BY <2>1, LeaveMinted
  <2>2. CASE SelectRefreshMutation(c) \/ CompleteRefreshMutation(c)
      BY <2>2, SelectMinted
  <2>3. CASE \/ PublishContinuation(c) \/ MarkRefreshing(c) \/ PublishReceipt(c)
             \/ WriteSystemAuth(c) \/ FinishActivate(c)
      BY <2>3, StorageMinted
  <2>4. CASE PublishCommit(c) \/ PersistAttempt(c)
      BY <2>4, CommitMinted
  <2>5. CASE Exchange(c)
      BY <2>5, ExchangeMinted
  <2>6. CASE ExchangeReturns(c)
      BY <2>6, ReturnMinted
  <2>7. CASE PersistResult(c)
      BY <2>7, PersistMinted
  <2>8. CASE CommitRecord(c)
      BY <2>8, RecordMinted
  <2> QED
      BY <1>1, <2>1, <2>2, <2>3, <2>4, <2>5, <2>6, <2>7, <2>8 DEF RefreshStep
<1>2. ASSUME NEW c \in Candidates, Call(c) \/ Other(c) PROVE Minted'
  <2>1. CASE RetryRetained(c)
      BY <2>1, RetryRetainedMinted
  <2>2. CASE BeginRefresh(c) \/ StepFails(c)
      BY <2>2, LeaveMinted
  <2>3. CASE BeginActivate(c)
      BY <2>3, StorageMinted
  <2>4. CASE SuspendShared(c) \/ SaveLogin(c) \/ RemoveManaged(c)
      BY <2>4, RecordsMinted
  <2> QED
      BY <1>2, <2>1, <2>2, <2>3, <2>4 DEF Call, Other
<1>3. CASE Crash \/ Restart
    BY <1>3, CrashMinted
<1>4. CASE SystemRewritesAuth \/ RestartRefused \/ UNCHANGED vars
  <2>1. UNCHANGED <<rec, mut, result, pc, local, retained, wire, nextTok, applied>>
      BY <1>4 DEF SystemRewritesAuth, RestartRefused, vars, volatile, durable, env, history
  <2> QED
      BY <2>1 DEF Minted, Kept, OnFile, NotOnFile, Results, OutcomeNotDropped, Issued, Unseen
<1> QED
    BY <1>1, <1>2, <1>3, <1>4 DEF Next

\* Minted holds in every reachable state.
THEOREM MintedHolds == Spec => []Minted
<1>1. ASSUME Init PROVE Minted
  <2>1. /\ \A c \in Candidates : /\ pc[c] = "idle" /\ retained[c].op = NoOp
                                 /\ rec[c].cred.at = 0
        /\ \A o \in Ops : result[o].kind = "none"
        /\ nextTok = 1 /\ local = FALSE
      BY <1>1 DEF Init, NoRetained, NoMaterial, NoTok
  <2>2. Results /\ OutcomeNotDropped
      BY <2>1 DEF Results, OutcomeNotDropped
  <2>3. \A c \in Candidates : rec[c].cred.at < nextTok /\ Kept(c)
      BY <2>1 DEF Kept
  <2> QED
      BY <2>1, <2>2, <2>3 DEF Minted
<1> QED
    BY <1>1, NextMinted, ChainsHold, IndInvHolds, PTL DEF Spec

\* A durable outcome reaches the managed record before its operation is closed,
\* through every failed write, crash and retry: what retryRetainedLocked takes for
\* committed has been committed (Rotate, CommitRecord, completeRefreshMutation).
THEOREM OutcomeKept == Spec => []OutcomeNotDropped
<1>1. Minted => OutcomeNotDropped
    BY DEF Minted
<1> QED
    BY <1>1, MintedHolds, PTL

-----------------------------------------------------------------------------
(* Lineage is preserved.                                                   *)

\* No candidate comes to own a token but c the one that is being minted.
LEMMA OwnershipKept ==
    ASSUME TypeOK, Ownership, NEW c \in Candidates, nextTok' \in Int, nextTok <= nextTok',
           \A d \in Candidates, t \in Tokens \ {NoTok} : Owns(d, t)' =>
               Owns(d, t) \/ (d = c /\ t = nextTok /\ nextTok < nextTok')
    PROVE  Ownership'
<1>1. nextTok \in Int /\ Tokens \subseteq Int
    BY DEF TypeOK, Tokens
<1>2. SUFFICES ASSUME NEW d \in Candidates, NEW t \in Tokens \ {NoTok}, Owns(d, t)'
               PROVE  /\ t < nextTok'
                      /\ \A e \in Candidates : Owns(e, t)' => e = d
    BY DEF Ownership
<1>3. CASE Owns(d, t)
  <2>1. t < nextTok /\ \A e \in Candidates : Owns(e, t) => e = d
      BY <1>3 DEF Ownership
  <2> QED
      BY <1>1, <2>1
<1>4. CASE d = c /\ t = nextTok /\ nextTok < nextTok'
  <2>1. \A e \in Candidates : ~Owns(e, t)
      BY <1>1, <1>4 DEF Ownership
  <2> QED
      BY <1>4, <2>1
<1> QED
    BY <1>2, <1>3, <1>4

\* What the layer reads of a retained operation.
SameTokens(r, s) == s.op = r.op /\ s.res = r.res /\ s.mat = r.mat

\* Steps that mint, spend and answer nothing.
LEMMA MoveLineage ==
    ASSUME TypeOK, Core, Lineage, NEW c \in Candidates, NEW l,
           pc[c] # "idle" \/ MuFree, pc[c] # "wait", l # "wait", OnlyPlace(c, l),
           \A d \in Candidates : d # c => rec'[d] = rec[d],
           rec'[c].cred = rec[c].cred, Claimed(c)',
           l = "select" => rec[c].cred.rt \notin spent,
           \A d \in Candidates : SameTokens(retained[d], retained'[d]),
           SameOutcomes, UNCHANGED <<mut, spent, sent, nextTok>>
    PROVE  Lineage'
<1>1. \A d \in Candidates : d # c => pc[d] = "idle" /\ pc'[d] = "idle"
    BY OthersIdle DEF OnlyPlace
<1>2. pc'[c] = l /\ \A d \in Candidates : pc'[d] # "wait" /\ rec'[d].cred = rec[d].cred
    BY <1>1 DEF OnlyPlace
<1>3. mut.phase = "selected" => mut.op \in Ops
    BY DEF Core, IdentitiesFresh
<1>4. ASSUME NEW d \in Candidates PROVE
        /\ Awaited(d)' = Awaited(d)
        /\ Awaited(d) => /\ result'[mut.op].kind = "ok" => result'[mut.op] = result[mut.op]
                         /\ result'[mut.op].kind = "definitive" => result'[mut.op] = result[mut.op]
    BY <1>3 DEF Awaited, SameOutcomes
<1>5. \A d \in Candidates, t \in Tokens \ {NoTok} : Owns(d, t)' => Owns(d, t)
    BY <1>2, <1>4 DEF Owns, SameTokens
<1>6. nextTok' \in Int /\ nextTok <= nextTok'
    BY DEF TypeOK
<1>7. Ownership'
    BY <1>5, <1>6, OwnershipKept DEF Lineage
<1>8. \A t \in spent' : t # NoTok /\ t < nextTok'
    BY DEF Lineage
<1>9. ASSUME NEW d \in Candidates PROVE Unspent(d)' /\ Claimed(d)'
  <2>1. Unspent(d) /\ Claimed(d) /\ SameTokens(retained[d], retained'[d])
      BY DEF Lineage
  <2>2. Unspent(d)'
      BY <1>1, <1>2, <1>4, <2>1 DEF Unspent, Usable, SameTokens
  <2>3. CASE d = c
      BY <2>2, <2>3
  <2>4. CASE d # c
      BY <1>1, <2>1, <2>2, <2>4 DEF Claimed, Rotating, Reserving
  <2> QED
      BY <2>3, <2>4
<1> QED
    BY <1>7, <1>8, <1>9 DEF Lineage

\* What the record must say for the call of c to be at l.
Admits(c, l) ==
    /\ l \in Rotating => rec[c].st \in {"ready", "refreshing", "rotation_uncertain"}
    /\ l \in {"attempt", "exchange"} => rec[c].op # NoOp
    /\ l \in {"activate", "activated"} => rec[c].st = "activation_pending"

\* The same for steps that leave every record alone.
LEMMA StayLineage ==
    ASSUME TypeOK, Core, Lineage, NEW c \in Candidates, NEW l,
           pc[c] # "idle" \/ MuFree, pc[c] # "wait", l # "wait", OnlyPlace(c, l),
           Admits(c, l), l = "select" => rec[c].cred.rt \notin spent,
           \A d \in Candidates : SameTokens(retained[d], retained'[d]),
           SameOutcomes, UNCHANGED <<rec, mut, spent, sent, nextTok>>
    PROVE  Lineage'
<1>1. Claimed(c) /\ pc'[c] = l
    BY DEF Lineage, OnlyPlace
<1>2. Claimed(c)'
    BY <1>1 DEF Claimed, Admits
<1> QED
    BY <1>2, MoveLineage

\* An operation that is retained and on its way stands on a record that a
\* retry accepts: where it has to be sent, the record is claimed by it.
LEMMA AfterPublishAdmits ==
    ASSUME NEW c \in Candidates, NEW r, NEW done, Claimed(c),
           r.indet \in BOOLEAN, r.attempt \in BOOLEAN, r.persisted \in BOOLEAN,
           rec[c].st \in {"ready", "refreshing", "rotation_uncertain"}
    PROVE  /\ Admits(c, AfterPublish(c, r, done))
           /\ AfterPublish(c, r, done) \notin {"wait", "select"}
<1>1. CASE ~r.indet /\ r.res = "none" /\ rec[c].st = "ready"
    BY <1>1 DEF AfterPublish, Admits
<1>2. CASE ~(~r.indet /\ r.res = "none" /\ rec[c].st = "ready")
  <2>1. AfterPublish(c, r, done) = AfterPrepare(r, done)
      BY <1>2 DEF AfterPublish
  <2>2. AfterPrepare(r, done) \in {"idle", "attempt", "exchange", "persist", "record", "receipt"}
      BY AfterPrepareLocation
  <2>3. AfterPrepare(r, done) \in {"attempt", "exchange"} => ~r.indet /\ r.res = "none"
      BY DEF AfterPrepare
  <2>4. AfterPrepare(r, done) \in {"attempt", "exchange"} => rec[c].op # NoOp
      BY <1>2, <2>3 DEF Claimed
  <2> QED
      BY <2>1, <2>2, <2>4 DEF Admits
<1> QED
    BY <1>1, <1>2

\* Steps that move a call and leave records, answers and outcomes alone.
LEMMA RetryLineage ==
    ASSUME TypeOK, Core, Lineage, NEW c \in Candidates, RetryRetained(c)
    PROVE  Lineage'
<1> DEFINE done == \/ retained[c].committed
                   \/ /\ retained[c].res = "ok" /\ rec[c].st = "ready"
                      /\ rec[c].op = NoOp /\ rec[c].cred = retained[c].mat
           l == IF retained[c].digest THEN AfterPublish(c, retained[c], done)
                                      ELSE "continuation"
<1>1. /\ pc' = [pc EXCEPT ![c] = l] /\ MuFree
      /\ UNCHANGED <<rec, mut, result, retained, spent, sent, nextTok>>
    BY DEF RetryRetained, Goto, durable, env, history
<1>2. rec[c].st \in {"ready", "refreshing", "rotation_uncertain"}
    BY DEF RetryRetained, Loaded, TypeOK, Record, OperationStates
<1>3. Claimed(c)
    BY DEF Lineage
<1>4. Admits(c, l) /\ l \notin {"wait", "select"}
  <2> HIDE DEF done
  <2>1. CASE retained[c].digest
      BY <1>2, <1>3, <2>1, RetainedTyped, AfterPublishAdmits
  <2>2. CASE ~retained[c].digest
      BY <1>2, <2>2 DEF Admits
  <2> QED
      BY <2>1, <2>2
<1> HIDE DEF l
<1>5. OnlyPlace(c, l) /\ pc[c] = "idle"
    BY <1>1 DEF OnlyPlace, TypeOK, MuFree
<1>6. (\A d \in Candidates : SameTokens(retained[d], retained'[d])) /\ SameOutcomes
    BY <1>1 DEF SameTokens, SameOutcomes
<1> QED
    BY <1>1, <1>4, <1>5, <1>6, StayLineage

\* Calls that leave, or stand at a place of no operation.  A refresh begins on a
\* record that no operation claims, so its token is not spent.
LEMMA LeaveLineage ==
    ASSUME TypeOK, Core, Lineage, NEW c \in Candidates,
           \/ SelectRefused(c) \/ StepRefused(c) \/ StepFails(c) \/ BeginRefresh(c)
    PROVE  Lineage'
<1>1. PICK l \in {"idle", "select"} : Goto(c, l) /\ (l = "select" => BeginRefresh(c))
    BY DEF SelectRefused, StepRefused, StepFails, BeginRefresh
<1>2. UNCHANGED <<rec, mut, retained, result, spent, sent, nextTok>>
    BY DEF SelectRefused, StepRefused, StepFails, BeginRefresh, durable, env, history
<1>3. (pc[c] # "idle" \/ MuFree) /\ pc[c] # "wait"
    BY DEF SelectRefused, StepRefused, StepFails, BeginRefresh, Accepts, MuFree
<1>4. OnlyPlace(c, l)
    BY <1>1 DEF OnlyPlace, Goto, TypeOK
<1>5. l = "select" => rec[c].st = "ready" /\ rec[c].cred.rt \notin spent
    BY <1>1 DEF BeginRefresh, RefreshEligible, Lineage, Claimed
<1>6. Admits(c, l)
    BY <1>5 DEF Admits, Rotating, Reserving
<1>7. (\A d \in Candidates : SameTokens(retained[d], retained'[d])) /\ SameOutcomes
    BY <1>2 DEF SameTokens, SameOutcomes
<1> QED
    BY <1>2, <1>3, <1>4, <1>5, <1>6, <1>7, StayLineage

\* Storage steps that touch no record and no answer.
LEMMA StorageLineage ==
    ASSUME TypeOK, Core, Lineage, NEW c \in Candidates,
           PublishContinuation(c) \/ PublishReceipt(c) \/ WriteSystemAuth(c)
    PROVE  Lineage'
<1>1. UNCHANGED <<rec, mut, retained, result, spent, sent, nextTok>>
    BY DEF PublishContinuation, PublishReceipt, WriteSystemAuth, history
<1>2. PICK l : /\ \E ok \in BOOLEAN : Finish(c, ok, l)
               /\ \/ pc[c] = "continuation" /\ l = "commit"
                  \/ pc[c] = "receipt" /\ l = "complete"
                  \/ pc[c] = "activate" /\ l = "activated"
    BY ReceiptFinishes DEF PublishContinuation, PublishReceipt, WriteSystemAuth
<1>3. PICK ok \in BOOLEAN : OnlyPlace(c, IF ok THEN l ELSE "idle")
    BY <1>2, FinishPlace
<1>4. Claimed(c)
    BY DEF Lineage
<1>5. Admits(c, l) /\ Admits(c, "idle")
    BY <1>2, <1>4 DEF Admits, Claimed, Rotating, Reserving
<1>6. (\A d \in Candidates : SameTokens(retained[d], retained'[d])) /\ SameOutcomes
    BY <1>1 DEF SameTokens, SameOutcomes
<1>7. CASE ok
    BY <1>1, <1>2, <1>3, <1>5, <1>6, <1>7, StayLineage
<1>8. CASE ~ok
    BY <1>1, <1>2, <1>3, <1>5, <1>6, <1>8, StayLineage
<1> QED
    BY <1>7, <1>8

\* Publishing the commit and putting the attempt on file.
LEMMA CommitLineage ==
    ASSUME TypeOK, Core, Lineage, NEW c \in Candidates, PublishCommit(c) \/ PersistAttempt(c)
    PROVE  Lineage'
<1>1. /\ UNCHANGED <<rec, mut, spent, sent, nextTok>> /\ SameOutcomes
      /\ pc[c] \in {"commit", "attempt"}
      /\ OnlyRetained(c) /\ SameAnswer(retained[c], retained'[c])
  <2>1. CASE PublishCommit(c)
      BY <2>1, CommitFacts DEF history, SameOutcomes
  <2>2. CASE PersistAttempt(c)
      BY <2>2, AttemptFacts DEF history, SameOutcomes
  <2> QED
      BY <2>1, <2>2
<1>2. Claimed(c) /\ rec[c].st \in {"ready", "refreshing", "rotation_uncertain"}
    BY <1>1 DEF Lineage, Claimed, Rotating, Reserving
<1>3. PICK l : OnlyPlace(c, l) /\ Admits(c, l) /\ l \notin {"wait", "select"}
  <2>1. CASE PublishCommit(c)
    <3>1. PICK ok \in BOOLEAN : OnlyPlace(c, IF ok THEN AfterPublish(c, retained'[c], local)
                                                   ELSE "idle")
        BY <2>1, CommitFacts
    <3>2. /\ retained'[c].indet \in BOOLEAN /\ retained'[c].attempt \in BOOLEAN
          /\ retained'[c].persisted \in BOOLEAN
        BY <2>1, CommitFacts, RetainedTyped DEF SameAnswer
    <3>3. /\ Admits(c, AfterPublish(c, retained'[c], local))
          /\ AfterPublish(c, retained'[c], local) \notin {"wait", "select"}
        BY <1>2, <3>2, AfterPublishAdmits
    <3>4. Admits(c, "idle")
        BY DEF Admits, Rotating, Reserving
    <3> QED
        BY <3>1, <3>3, <3>4
  <2>2. CASE PersistAttempt(c)
    <3>1. /\ pc[c] = "attempt"
          /\ OnlyPlace(c, "exchange") \/ OnlyPlace(c, "idle")
        BY <2>2, AttemptFacts
    <3>2. Admits(c, "exchange") /\ Admits(c, "idle")
        BY <1>2, <3>1 DEF Admits, Claimed, Rotating, Reserving
    <3> QED
        BY <3>1, <3>2
  <2> QED
      BY <2>1, <2>2
<1>4. \A d \in Candidates : SameTokens(retained[d], retained'[d])
    BY <1>1 DEF OnlyRetained, SameAnswer, SameTokens
<1> QED
    BY <1>1, <1>3, <1>4, StayLineage

\* Steps that change the state of a record and keep its credential: none of them
\* gives up the claim on a record with a spent token.
LEMMA StateLineage ==
    ASSUME TypeOK, Core, Lineage, NEW c \in Candidates,
           \/ MarkRefreshing(c) \/ RestoreRotationUncertain(c) \/ SuspendShared(c)
           \/ BeginActivate(c) \/ FinishActivate(c)
    PROVE  Lineage'
<1>1. UNCHANGED <<mut, retained, result, spent, sent, nextTok>>
    BY DEF MarkRefreshing, RestoreRotationUncertain, SuspendShared, BeginActivate, FinishActivate,
           env, history, volatile
<1>2. Claimed(c) /\ rec \in [Candidates -> Record]
    BY DEF Lineage, TypeOK
<1>3. \A d \in Candidates : d # c => rec'[d] = rec[d]
    BY <1>2 DEF MarkRefreshing, RestoreRotationUncertain, SuspendShared, BeginActivate,
                FinishActivate
<1>4. PICK l : /\ OnlyPlace(c, l) /\ (pc[c] # "idle" \/ MuFree) /\ pc[c] # "wait"
               /\ l \notin {"wait", "select"}
               /\ rec'[c].cred = rec[c].cred /\ Claimed(c)'
  <2>1. CASE MarkRefreshing(c)
    <3>1. /\ pc[c] = "mark" /\ rec'[c].st = "refreshing" /\ rec'[c].op = retained[c].op
          /\ rec'[c].cred = rec[c].cred
        BY <1>2, <2>1 DEF MarkRefreshing, Record
    <3>2. PICK ok \in BOOLEAN :
            OnlyPlace(c, IF ok THEN AfterPrepare(retained[c], local) ELSE "idle")
        BY <2>1, FinishPlace DEF MarkRefreshing
    <3>3. /\ pc'[c] \in {"idle", "attempt", "exchange", "persist", "record", "receipt"}
          /\ OnlyPlace(c, pc'[c])
        BY <3>2, AfterPrepareLocation DEF OnlyPlace
    <3>4. retained[c].op # NoOp
        BY <3>1, RetainedOp
    <3>5. Claimed(c)'
        BY <1>1, <1>2, <3>1, <3>3, <3>4 DEF Claimed, Rotating, Reserving
    <3> QED
        BY <3>1, <3>3, <3>5
  <2>2. CASE RestoreRotationUncertain(c)
    <3>1. pc[c] = "restore" /\ OnlyPlace(c, "idle")
        BY <2>2 DEF RestoreRotationUncertain, Goto, OnlyPlace, TypeOK
    <3>2. retained[c].op # NoOp
        BY <3>1, RetainedOp
    <3>3. rec'[c].st = "rotation_uncertain" /\ rec'[c].op # NoOp /\ rec'[c].cred = rec[c].cred
        BY <1>2, <2>2, <3>2 DEF RestoreRotationUncertain, Record
    <3>4. Claimed(c)'
        BY <1>1, <1>2, <3>1, <3>3 DEF Claimed, Rotating, Reserving, OnlyPlace
    <3> QED
        BY <3>1, <3>3, <3>4
  <2>3. CASE SuspendShared(c)
    <3>1. MuFree /\ pc[c] = "idle" /\ OnlyPlace(c, "idle")
        BY <2>3 DEF SuspendShared, volatile, MuFree, OnlyPlace
    <3>2. rec'[c].st = rec[c].st /\ rec'[c].op = rec[c].op /\ rec'[c].cred = rec[c].cred
        BY <1>2, <2>3 DEF SuspendShared, Record
    <3>3. Claimed(c)'
        BY <1>1, <1>2, <3>1, <3>2 DEF Claimed, OnlyPlace
    <3> QED
        BY <3>1, <3>2, <3>3
  <2>4. CASE BeginActivate(c)
    <3>1. /\ MuFree /\ pc[c] = "idle" /\ Loaded(c)
          /\ OnlyPlace(c, "idle") \/ OnlyPlace(c, "activate")
        BY <2>4, FinishPlace DEF BeginActivate, MuFree
    <3>2. /\ rec'[c].st = "activation_pending" /\ rec'[c].op = rec[c].op
          /\ rec'[c].cred = rec[c].cred
        BY <1>2, <2>4 DEF BeginActivate, Record
    <3>3. Claimed(c)'
        BY <1>1, <1>2, <3>1, <3>2 DEF Claimed, Loaded, OnlyPlace, Rotating, Reserving
    <3> QED
        BY <3>1, <3>2, <3>3
  <2>5. CASE FinishActivate(c)
    <3>1. pc[c] = "activated" /\ OnlyPlace(c, "idle")
        BY <2>5, FinishPlace DEF FinishActivate
    <3>2. rec'[c].st = "ready" /\ rec'[c].op = rec[c].op /\ rec'[c].cred = rec[c].cred
        BY <1>2, <2>5 DEF FinishActivate, Record
    <3>3. Claimed(c)'
        BY <1>1, <1>2, <3>1, <3>2 DEF Claimed, OnlyPlace, Rotating, Reserving
    <3> QED
        BY <3>1, <3>2, <3>3
  <2> QED
      BY <2>1, <2>2, <2>3, <2>4, <2>5
<1>5. (\A d \in Candidates : SameTokens(retained[d], retained'[d])) /\ SameOutcomes
    BY <1>1 DEF SameTokens, SameOutcomes
<1> QED
    BY <1>1, <1>3, <1>4, <1>5, MoveLineage

\* A login brings a token of its own, a removal leaves none.
LEMMA RecordsLineage ==
    ASSUME TypeOK, Core, Lineage, NEW c \in Candidates, SaveLogin(c) \/ RemoveManaged(c)
    PROVE  Lineage'
<1>1. /\ MuFree /\ UNCHANGED <<mut, retained, result, spent, sent, pc, wire>>
      /\ \A d \in Candidates : pc[d] = "idle"
    BY DEF SaveLogin, RemoveManaged, MuFree, volatile, history
<1>2. rec \in [Candidates -> Record] /\ nextTok \in Int /\ nextTok >= 1
    BY DEF TypeOK
<1>3. \A d \in Candidates : d # c => rec'[d] = rec[d]
    BY <1>2 DEF SaveLogin, RemoveManaged
<1>4. \/ /\ rec'[c].cred.rt = nextTok /\ nextTok' = nextTok + 1
         /\ rec'[c].st = "ready" /\ rec'[c].op = rec[c].op
      \/ /\ rec'[c].cred.rt = NoTok /\ nextTok' = nextTok
         /\ rec'[c].st = "removed" /\ rec'[c].op = NoOp
  <2>1. CASE SaveLogin(c)
      BY <1>2, <2>1 DEF SaveLogin, Record
  <2>2. CASE RemoveManaged(c)
      BY <1>2, <2>2 DEF RemoveManaged, NoMaterial
  <2> QED
      BY <2>1, <2>2
<1>5. nextTok' \in Int /\ nextTok <= nextTok' /\ nextTok # NoTok
    BY <1>2, <1>4 DEF NoTok
<1>6. \A d \in Candidates : Awaited(d)' = Awaited(d)
    BY <1>1 DEF Awaited
<1>7. \A d \in Candidates, t \in Tokens \ {NoTok} :
        Owns(d, t)' => Owns(d, t) \/ (d = c /\ t = nextTok /\ nextTok < nextTok')
  <2>1. SUFFICES ASSUME NEW d \in Candidates, NEW t \in Tokens \ {NoTok}, Owns(d, t)', ~Owns(d, t)
                 PROVE  d = c /\ t = nextTok /\ nextTok < nextTok'
      OBVIOUS
  <2>2. rec'[d].cred.rt = t /\ rec[d].cred.rt # t
      BY <1>1, <1>6, <2>1 DEF Owns
  <2> QED
      BY <1>2, <1>3, <1>4, <2>2
<1>8. Ownership'
    BY <1>5, <1>7, OwnershipKept DEF Lineage
<1>9. /\ spent \subseteq Int
      /\ \A t \in spent : t # NoTok /\ t < nextTok
    BY DEF Lineage, TypeOK, Tokens
<1>10. \A t \in spent' : t # NoTok /\ t < nextTok'
    BY <1>1, <1>2, <1>5, <1>9
<1>11. rec'[c].cred.rt \notin spent
  <2>1. ~(nextTok < nextTok)
      BY <1>2
  <2>2. nextTok \notin spent /\ NoTok \notin spent
      BY <1>9, <2>1
  <2> QED
      BY <1>4, <2>2
<1>12. ASSUME NEW d \in Candidates PROVE Unspent(d)' /\ Claimed(d)'
  <2>1. Unspent(d) /\ Claimed(d)
      BY DEF Lineage
  <2>2. CASE d # c
      BY <1>1, <1>3, <1>6, <2>1, <2>2 DEF Unspent, Usable, Claimed
  <2>3. CASE d = c
    <3>1. Unspent(c)'
        BY <1>1, <1>6, <1>11, <2>1, <2>3 DEF Unspent, Usable
    <3>2. Claimed(c)'
        BY <1>1, <1>4, <1>5, <1>11, <2>1, <2>3 DEF Claimed, Rotating, Reserving
    <3> QED
        BY <2>3, <3>1, <3>2
  <2> QED
      BY <2>2, <2>3
<1> QED
    BY <1>8, <1>10, <1>12 DEF Lineage

\* The steps that only set or clear the reservation: a new operation has not been
\* sent and its record's token is not spent, a finished one is awaited no more.
LEMMA SelectLineage ==
    ASSUME TypeOK, Core, Lineage, NEW c \in Candidates, SelectRefreshMutation(c)
    PROVE  Lineage'
<1> DEFINE x == CurrentOp
<1>1. /\ pc[c] = "select" /\ mut.phase # "selected"
      /\ mut'.op = x /\ mut'.phase = "selected" /\ mut'.c = c
      /\ x \in Ops /\ x # NoOp /\ sent[x] = 0 /\ result[x].kind = "none"
      /\ OnlyRetained(c)
      /\ \E l \in {"continuation", "idle"} : OnlyPlace(c, l)
      /\ \/ retained'[c] = retained[c]
         \/ retained'[c].op = x /\ retained'[c].res = "none"
      /\ UNCHANGED <<rec, result, nextTok, sent, spent>>
    BY SelectFacts DEF Unused, history
<1> HIDE DEF x
<1>2. \A d \in Candidates : ~Awaited(d) /\ (Awaited(d)' => d = c)
    BY <1>1 DEF Awaited
<1>3. \A d \in Candidates : pc'[d] \in {"continuation", "idle"} /\ (d # c => pc'[d] = "idle")
    BY <1>1, OthersIdle DEF OnlyPlace
<1>4. \A d \in Candidates : retained'[d].res = "ok" => retained'[d] = retained[d]
    BY <1>1 DEF OnlyRetained
<1>5. nextTok' \in Int /\ nextTok <= nextTok'
    BY <1>1 DEF TypeOK
<1>6. \A d \in Candidates, t \in Tokens \ {NoTok} : Owns(d, t)' => Owns(d, t)
    BY <1>1, <1>2, <1>3, <1>4 DEF Owns
<1>7. Ownership'
    BY <1>5, <1>6, OwnershipKept DEF Lineage
<1>8. Unspent(c) /\ Claimed(c) /\ rec[c].cred.rt \notin spent
    BY <1>1 DEF Lineage, Unspent
<1>9. Unspent(c)' /\ Claimed(c)'
  <2>1. Unspent(c)'
      BY <1>1, <1>3, <1>4, <1>8 DEF Unspent, Usable
  <2>2. Claimed(c)'
      BY <1>1, <1>3, <1>8 DEF Claimed, Rotating, Reserving
  <2> QED
      BY <2>1, <2>2
<1>10. ASSUME NEW d \in Candidates, d # c PROVE Unspent(d)' /\ Claimed(d)'
  <2>1. Unspent(d) /\ Claimed(d) /\ retained'[d] = retained[d] /\ pc'[d] = "idle"
      BY <1>1, <1>3, <1>10 DEF Lineage, OnlyRetained
  <2> QED
      BY <1>1, <1>2, <1>10, <2>1 DEF Unspent, Usable, Claimed, Rotating, Reserving
<1> QED
    BY <1>1, <1>7, <1>9, <1>10 DEF Lineage

\* Completion, a crash and a restart: what is forgotten is awaited on file, and
\* what is retained again was awaited.
LEMMA ForgetLineage ==
    ASSUME TypeOK, Core, Lineage,
           (\E c \in Candidates : CompleteRefreshMutation(c)) \/ Crash \/ Restart
    PROVE  Lineage'
<1>1. /\ UNCHANGED <<rec, result, nextTok, sent, spent>>
      /\ mut'.op = mut.op /\ mut'.c = mut.c
      /\ mut'.phase = "selected" => mut.phase = "selected"
      /\ \A d \in Candidates : pc'[d] = "idle"
  <2>1. CASE \E c \in Candidates : CompleteRefreshMutation(c)
      BY <2>1, CompleteFacts, OthersIdle DEF history, OnlyPlace
  <2>2. CASE Crash
      BY <2>2 DEF Crash, durable, history
  <2>3. CASE Restart
      BY <2>3, RestartFacts DEF env, history
  <2> QED
      BY <2>1, <2>2, <2>3
<1>2. ASSUME NEW d \in Candidates
      PROVE  \/ retained'[d] = retained[d]
             \/ retained'[d] = NoRetained
             \/ /\ Awaited(d) /\ retained'[d].op = mut.op
                /\ retained'[d].res # "none" => /\ retained'[d].res = result[mut.op].kind
                                                /\ retained'[d].mat = result[mut.op].mat
  <2>1. CASE \E c \in Candidates : CompleteRefreshMutation(c)
      BY <2>1, CompleteFacts DEF OnlyRetained
  <2>2. CASE Crash
      BY <2>2 DEF Crash
  <2>3. CASE Restart
      BY <2>3, RestartFacts DEF Awaited
  <2> QED
      BY <2>1, <2>2, <2>3
<1>3. \A d \in Candidates : Awaited(d)' => Awaited(d)
    BY <1>1 DEF Awaited
<1>4. nextTok' \in Int /\ nextTok <= nextTok'
    BY <1>1 DEF TypeOK
<1>5. ASSUME NEW d \in Candidates, NEW t \in Tokens \ {NoTok}, Owns(d, t)' PROVE Owns(d, t)
    BY <1>1, <1>2, <1>3, <1>5 DEF Owns, NoRetained
<1>6. Ownership'
  <2>1. PICK c : c \in Candidates \/ Candidates = {}
      OBVIOUS
  <2> QED
      BY <1>4, <1>5, <2>1, OwnershipKept DEF Lineage, Ownership
<1>7. ASSUME NEW d \in Candidates PROVE Unspent(d)' /\ Claimed(d)'
  <2>1. Unspent(d) /\ Claimed(d)
      BY DEF Lineage
  <2>2. Unspent(d)'
      BY <1>1, <1>2, <1>3, <2>1 DEF Unspent, Usable, NoRetained
  <2>3. Claimed(d)'
      BY <1>1, <2>1 DEF Claimed, Rotating, Reserving
  <2> QED
      BY <2>2, <2>3
<1> QED
    BY <1>1, <1>6, <1>7 DEF Lineage

\* What an exchange does to the tokens.
LEMMA ExchangeFacts ==
    ASSUME TypeOK, Core, Lineage, NEW c \in Candidates, Exchange(c)
    PROVE  /\ pc[c] = "exchange" /\ OnlyPlace(c, "wait")
           /\ UNCHANGED <<rec, mut, result, retained>>
           /\ sent'[retained[c].op] = 1
           /\ presented'[retained[c].op] = rec[c].cred.rt
           /\ \A o \in Ops : o # retained[c].op => sent'[o] = sent[o]
           /\ Usable(rec[c].cred.rt) /\ rec[c].cred.rt < nextTok /\ rec[c].op # NoOp
           /\ rec[c].cred.rt \in Tokens \ {NoTok}
           /\ \/ /\ wire'.kind = "ok" /\ wire'.mat.rt = nextTok
                 /\ spent' = spent \cup {rec[c].cred.rt} /\ nextTok' = nextTok + 1
              \/ /\ wire'.kind = "ok" /\ wire'.mat.rt = rec[c].cred.rt
                 /\ spent' = spent /\ nextTok' = nextTok + 1
              \/ /\ wire'.kind = "definitive" /\ spent' = spent /\ nextTok' = nextTok
<1>1. /\ pc[c] = "exchange" /\ pc' = [pc EXCEPT ![c] = "wait"]
      /\ UNCHANGED <<rec, mut, result, retained>>
    BY DEF Exchange, Goto, durable
<1>2. retained[c].op \in Ops /\ retained[c].op # NoOp /\ sent[retained[c].op] = 0
    BY <1>1, NotYetAnswered
<1>3. Unspent(c) /\ Claimed(c) /\ Ownership
    BY DEF Lineage
<1>4. rec[c].cred.rt # NoTok /\ rec[c].cred.rt \notin spent /\ rec[c].op # NoOp
    BY <1>1, <1>2, <1>3 DEF Unspent, Claimed, Rotating, Reserving
<1>5. rec[c].cred.rt \in Tokens \ {NoTok}
    BY <1>4 DEF TypeOK, Record, Material
<1>6. rec[c].cred.rt < nextTok
    BY <1>3, <1>5 DEF Ownership, Owns
<1>7. /\ sent'[retained[c].op] = 1 /\ \A o \in Ops : o # retained[c].op => sent'[o] = sent[o]
      /\ presented'[retained[c].op] = rec[c].cred.rt
    BY <1>2 DEF Exchange, TypeOK
<1>8. OnlyPlace(c, "wait")
    BY <1>1 DEF OnlyPlace, TypeOK
<1>9. \/ /\ wire'.kind = "ok" /\ wire'.mat.rt = nextTok
         /\ spent' = spent \cup {rec[c].cred.rt} /\ nextTok' = nextTok + 1
      \/ /\ wire'.kind = "ok" /\ wire'.mat.rt = rec[c].cred.rt
         /\ spent' = spent /\ nextTok' = nextTok + 1
      \/ /\ wire'.kind = "definitive" /\ spent' = spent /\ nextTok' = nextTok
    BY DEF Exchange, ProviderAnswers
<1> QED
    BY <1>1, <1>4, <1>5, <1>6, <1>7, <1>8, <1>9 DEF Usable

\* The exchange spends at most the token of its own record, which its operation
\* claims and no other candidate has.
LEMMA ExchangeLineage ==
    ASSUME TypeOK, Core, Chains, Lineage, NEW c \in Candidates, Exchange(c)
    PROVE  Lineage'
<1> DEFINE x == retained[c].op
           r == rec[c].cred.rt
<1>1. /\ pc[c] = "exchange" /\ OnlyPlace(c, "wait") /\ UNCHANGED <<rec, mut, result, retained>>
      /\ sent'[x] = 1 /\ \A o \in Ops : o # x => sent'[o] = sent[o]
      /\ Usable(r) /\ r < nextTok /\ rec[c].op # NoOp /\ r \in Tokens \ {NoTok}
    BY ExchangeFacts
<1>2. \/ /\ wire'.kind = "ok" /\ wire'.mat.rt = nextTok
         /\ spent' = spent \cup {r} /\ nextTok' = nextTok + 1
      \/ /\ wire'.kind = "ok" /\ wire'.mat.rt = r /\ spent' = spent /\ nextTok' = nextTok + 1
      \/ /\ wire'.kind = "definitive" /\ spent' = spent /\ nextTok' = nextTok
    BY ExchangeFacts
<1>3. /\ x \in Ops /\ x # NoOp /\ retained[c].res = "none" /\ result[x].kind = "attempt"
      /\ mut.phase = "selected" /\ mut.op = x /\ mut.c = c
    BY <1>1, NotYetAnswered DEF Chains, Chained, Reserving, Selected
<1>4. \A d \in Candidates : rec[d].cred.rt = r => d = c
    BY <1>1 DEF Lineage, Ownership, Owns
<1>5. \A d \in Candidates : retained[d].res = "ok" /\ retained[d].mat.rt = r => d = c
    BY <1>1 DEF Lineage, Ownership, Owns
<1>6. nextTok \in Int /\ nextTok >= 1 /\ spent \subseteq Int /\ r \in Int
    BY <1>1 DEF TypeOK, Tokens
<1>7. \A t \in spent : t # NoTok /\ t < nextTok
    BY DEF Lineage
<1>8. nextTok' \in Int /\ nextTok <= nextTok' /\ nextTok # NoTok
    BY <1>2, <1>6 DEF NoTok
<1>9. nextTok \notin spent'
  <2>1. ~(nextTok < nextTok)
      BY <1>6
  <2>2. nextTok \notin spent /\ nextTok # r
      BY <1>1, <1>7, <2>1
  <2> QED
      BY <1>2, <2>2
<1> HIDE DEF x
<1>10. \A d \in Candidates : /\ d # c => pc'[d] = "idle" /\ ~Awaited(d)'
                             /\ Awaited(d)' = Awaited(d)
    BY <1>1, <1>3, OthersIdle DEF OnlyPlace, Awaited
<1>11. pc'[c] = "wait"
    BY <1>1 DEF OnlyPlace
<1>12. \A d \in Candidates, t \in Tokens \ {NoTok} :
         Owns(d, t)' => Owns(d, t) \/ (d = c /\ t = nextTok /\ nextTok < nextTok')
  <2>1. SUFFICES ASSUME NEW d \in Candidates, NEW t \in Tokens \ {NoTok}, Owns(d, t)', ~Owns(d, t)
                 PROVE  d = c /\ t = nextTok /\ nextTok < nextTok'
      OBVIOUS
  <2>2. d = c /\ wire'.kind = "ok" /\ wire'.mat.rt = t /\ t # r
      BY <1>1, <1>10, <2>1 DEF Owns
  <2>3. t = nextTok /\ nextTok' = nextTok + 1
      BY <1>2, <2>2
  <2> QED
      BY <1>6, <2>2, <2>3
<1>13. Ownership'
    BY <1>8, <1>12, OwnershipKept DEF Lineage
<1>14. \A t \in spent' : t # NoTok /\ t < nextTok'
  <2>1. SUFFICES ASSUME NEW t \in spent' PROVE t # NoTok /\ t < nextTok'
      OBVIOUS
  <2>2. t \in Int /\ t # NoTok /\ t < nextTok
      BY <1>1, <1>2, <1>6, <1>7, <2>1 DEF Usable
  <2> QED
      BY <1>6, <1>8, <2>2
<1>15. spent' = spent \/ spent' = spent \cup {r}
    BY <1>2
<1>16. Unspent(c)' /\ Claimed(c)'
  <2>1. Unspent(c) /\ Claimed(c)
      BY DEF Lineage
  <2>2. /\ wire'.kind = "ok" => wire'.mat.rt # NoTok /\ wire'.mat.rt \notin spent'
        /\ wire'.kind = "definitive" => rec[c].cred.rt \notin spent'
      BY <1>1, <1>2, <1>8, <1>9 DEF Usable
  <2>3. retained'[c].op = x /\ retained'[c].res = "none" /\ mut' = mut /\ sent'[x] # 0
        /\ result'[mut.op].kind = "attempt" /\ rec' = rec
      BY <1>1, <1>3 DEF x
  <2>4. Unspent(c)'
      BY <1>3, <1>11, <2>2, <2>3 DEF Unspent, Usable
  <2>5. Claimed(c)'
      BY <1>1, <1>11, <2>1 DEF Claimed, Rotating, Reserving
  <2> QED
      BY <2>4, <2>5
<1>17. ASSUME NEW d \in Candidates, d # c PROVE Unspent(d)' /\ Claimed(d)'
  <2>1. Unspent(d) /\ Claimed(d) /\ pc'[d] = "idle" /\ ~Awaited(d)'
      BY <1>10, <1>17 DEF Lineage
  <2>2. retained[d].op # NoOp => sent'[retained[d].op] = sent[retained[d].op]
    <3>1. retained[d].op # NoOp => retained[d].op \in Ops /\ retained[d].op # x
        BY <1>3, <1>17, RetainedTyped DEF x, Core, RetainedDistinct
    <3> QED
        BY <1>1, <3>1 DEF x
  <2>3. rec[d].cred.rt \in spent' => rec[d].cred.rt \in spent
      BY <1>4, <1>15, <1>17
  <2>4. retained[d].res = "ok" => (retained[d].mat.rt \in spent' => retained[d].mat.rt \in spent)
      BY <1>5, <1>15, <1>17
  <2>5. Unspent(d)'
      BY <1>1, <2>1, <2>2, <2>3, <2>4 DEF Unspent, Usable
  <2>6. Claimed(d)'
      BY <1>1, <2>1, <2>3 DEF Claimed, Rotating, Reserving
  <2> QED
      BY <2>5, <2>6
<1> QED
    BY <1>13, <1>14, <1>16, <1>17 DEF Lineage

\* The answer is retained: it was on the wire.
LEMMA ReturnLineage ==
    ASSUME TypeOK, Core, Lineage, NEW c \in Candidates, ExchangeReturns(c)
    PROVE  Lineage'
<1>1. /\ pc[c] = "wait" /\ OnlyPlace(c, "persist") /\ OnlyRetained(c)
      /\ retained'[c].op = retained[c].op
      /\ \/ retained'[c].res = wire.kind /\ retained'[c].mat = wire.mat
         \/ retained'[c].res = "uncertain"
      /\ UNCHANGED <<rec, mut, result, nextTok, sent, spent>>
    BY ReturnFacts DEF durable, history
<1>2. sent[retained[c].op] = 1 /\ Unspent(c) /\ Claimed(c)
    BY <1>1 DEF Core, Located, Lineage
<1>3. \A d \in Candidates : /\ Awaited(d)' = Awaited(d) /\ pc'[d] # "wait"
                            /\ d # c => pc'[d] = "idle" /\ retained'[d] = retained[d]
    BY <1>1, OthersIdle DEF OnlyPlace, OnlyRetained, Awaited
<1>4. pc'[c] = "persist"
    BY <1>1 DEF OnlyPlace
<1>5. nextTok' \in Int /\ nextTok <= nextTok'
    BY <1>1 DEF TypeOK
<1>6. ASSUME NEW d \in Candidates, NEW t \in Tokens \ {NoTok}, Owns(d, t)' PROVE Owns(d, t)
  <2>1. CASE d = c
      BY <1>1, <1>3, <1>6, <2>1 DEF Owns
  <2>2. CASE d # c
      BY <1>1, <1>3, <1>6, <2>2 DEF Owns
  <2> QED
      BY <2>1, <2>2
<1>7. Ownership'
    BY <1>5, <1>6, OwnershipKept DEF Lineage
<1>8. Unspent(c)' /\ Claimed(c)'
  <2>1. Unspent(c)'
      BY <1>1, <1>2, <1>3, <1>4 DEF Unspent, Usable
  <2>2. Claimed(c)'
      BY <1>1, <1>2, <1>4 DEF Claimed, Rotating, Reserving
  <2> QED
      BY <2>1, <2>2
<1>9. ASSUME NEW d \in Candidates, d # c PROVE Unspent(d)' /\ Claimed(d)'
  <2>1. Unspent(d) /\ Claimed(d)
      BY DEF Lineage
  <2> QED
      BY <1>1, <1>3, <1>9, <2>1 DEF Unspent, Usable, Claimed, Rotating, Reserving
<1> QED
    BY <1>1, <1>7, <1>8, <1>9 DEF Lineage

\* The answer goes on file, where a restart finds it for the same candidate.
LEMMA PersistLineage ==
    ASSUME TypeOK, Core, Chains, Lineage, NEW c \in Candidates, PersistResult(c)
    PROVE  Lineage'
<1> DEFINE x == retained[c].op
<1>1. /\ pc[c] = "persist" /\ x \in Ops /\ x # NoOp
      /\ OnlyRetained(c) /\ SameAnswer(retained[c], retained'[c])
      /\ result'[x].kind = retained[c].res /\ result'[x].mat = retained[c].mat
      /\ \E l \in {"receipt", "record", "idle"} : OnlyPlace(c, l)
      /\ UNCHANGED <<rec, mut, nextTok, sent, spent>>
    BY PersistFacts DEF history
<1>2. /\ retained[c].res # "none" /\ sent[x] = 1
      /\ mut.phase = "selected" /\ mut.op = x /\ mut.c = c
    BY <1>1 DEF Core, Located, RetainedCovers, Chains, Chained, Reserving, Selected
<1>3. Unspent(c) /\ Claimed(c)
    BY DEF Lineage
<1>4. \A d \in Candidates : /\ Awaited(d)' => d = c /\ Awaited(d)
                            /\ SameTokens(retained[d], retained'[d])
                            /\ pc'[d] # "wait" /\ (d # c => pc'[d] = "idle")
    BY <1>1, <1>2, OthersIdle DEF OnlyPlace, OnlyRetained, Awaited, SameTokens, SameAnswer
<1>5. pc'[c] \in {"receipt", "record", "idle"}
    BY <1>1 DEF OnlyPlace
<1>6. mut' = mut /\ result'[mut'.op].kind = retained[c].res /\ result'[mut'.op].mat = retained[c].mat
    BY <1>1, <1>2
<1> HIDE DEF x
<1>7. nextTok' \in Int /\ nextTok <= nextTok'
    BY <1>1 DEF TypeOK
<1>8. ASSUME NEW d \in Candidates, NEW t \in Tokens \ {NoTok}, Owns(d, t)' PROVE Owns(d, t)
    BY <1>1, <1>4, <1>6, <1>8 DEF Owns, SameTokens
<1>9. Ownership'
    BY <1>7, <1>8, OwnershipKept DEF Lineage
<1>10. Unspent(c)' /\ Claimed(c)'
  <2>1. Unspent(c)'
      BY <1>1, <1>2, <1>3, <1>4, <1>5, <1>6 DEF Unspent, Usable, SameTokens, x
  <2>2. Claimed(c)'
      BY <1>1, <1>3, <1>5 DEF Claimed, Rotating, Reserving
  <2> QED
      BY <2>1, <2>2
<1>11. ASSUME NEW d \in Candidates, d # c PROVE Unspent(d)' /\ Claimed(d)'
  <2>1. Unspent(d) /\ Claimed(d)
      BY DEF Lineage
  <2> QED
      BY <1>1, <1>4, <1>11, <2>1 DEF Unspent, Usable, Claimed, Rotating, Reserving, SameTokens
<1> QED
    BY <1>1, <1>9, <1>10, <1>11 DEF Lineage

\* The record gives up its claim only with a token that the provider honours.
LEMMA RecordLineage ==
    ASSUME TypeOK, Core, Chains, Lineage, NEW c \in Candidates, CommitRecord(c)
    PROVE  Lineage'
<1>1. /\ pc[c] = "record" /\ retained[c].op # NoOp
      /\ OnlyRetained(c) /\ SameAnswer(retained[c], retained'[c])
      /\ \A d \in Candidates : d # c => rec'[d] = rec[d]
      /\ \E l \in {"receipt", "restore", "idle"} : OnlyPlace(c, l)
      /\ rec'[c] = rec[c] \/ rec'[c] = CommittedRecord(c)
      /\ UNCHANGED <<mut, result, nextTok, sent, spent>>
    BY RecordFacts
<1>2. Unspent(c) /\ Claimed(c) /\ retained[c].res # "none"
    BY <1>1 DEF Lineage, Chains, Chained, Ending, Answered
<1>3. \A d \in Candidates : /\ Awaited(d)' = Awaited(d)
                            /\ SameTokens(retained[d], retained'[d])
                            /\ pc'[d] # "wait" /\ (d # c => pc'[d] = "idle")
    BY <1>1, OthersIdle DEF OnlyPlace, OnlyRetained, Awaited, SameTokens, SameAnswer
<1>4. pc'[c] \in {"receipt", "restore", "idle"}
    BY <1>1 DEF OnlyPlace
<1>5. \/ rec'[c] = rec[c]
      \/ /\ retained[c].res = "ok" /\ rec'[c].cred = retained[c].mat
         /\ rec'[c].st = "ready" /\ rec'[c].op = NoOp
      \/ /\ retained[c].res = "definitive" /\ rec'[c].cred = rec[c].cred
         /\ rec'[c].st = "ready" /\ rec'[c].op = NoOp
      \/ /\ rec'[c].cred = rec[c].cred
         /\ rec'[c].st = "rotation_uncertain" /\ rec'[c].op = retained[c].op
  <2>1. rec[c] \in Record /\ retained[c].res \in {"ok", "definitive", "uncertain"}
      BY <1>2, RetainedTyped DEF TypeOK, Answers
  <2> QED
      BY <1>1, <2>1 DEF CommittedRecord, Record
<1>6. \/ rec'[c].cred.rt = rec[c].cred.rt
      \/ rec'[c].cred.rt = retained[c].mat.rt /\ retained[c].res = "ok" /\ Usable(rec'[c].cred.rt)
    BY <1>2, <1>5 DEF Unspent
<1>7. nextTok' \in Int /\ nextTok <= nextTok'
    BY <1>1 DEF TypeOK
<1>8. ASSUME NEW d \in Candidates, NEW t \in Tokens \ {NoTok}, Owns(d, t)' PROVE Owns(d, t)
    BY <1>1, <1>3, <1>6, <1>8 DEF Owns, SameTokens
<1>9. Ownership'
    BY <1>7, <1>8, OwnershipKept DEF Lineage
<1>10. Unspent(c)'
    BY <1>1, <1>2, <1>3, <1>4, <1>6 DEF Unspent, Usable, SameTokens
<1>11. Claimed(c)'
    BY <1>1, <1>2, <1>4, <1>5 DEF Unspent, Usable, Claimed, Rotating, Reserving
<1>12. ASSUME NEW d \in Candidates, d # c PROVE Unspent(d)' /\ Claimed(d)'
  <2>1. Unspent(d) /\ Claimed(d)
      BY DEF Lineage
  <2> QED
      BY <1>1, <1>3, <1>12, <2>1 DEF Unspent, Usable, Claimed, Rotating, Reserving, SameTokens
<1> QED
    BY <1>1, <1>9, <1>10, <1>11, <1>12 DEF Lineage

\* Every step preserves Lineage.
LEMMA NextLineage == IndInv /\ Chains /\ Lineage /\ [Next]_vars => Lineage'
<1> SUFFICES ASSUME TypeOK, Core, Chains, Lineage, [Next]_vars PROVE Lineage'
    BY DEF IndInv
<1>1. ASSUME NEW c \in Candidates, RefreshStep(c) PROVE Lineage'
  <2>1. CASE SelectRefused(c) \/ StepRefused(c)
      BY <2>1, LeaveLineage
  <2>2. CASE SelectRefreshMutation(c)
      BY <2>2, SelectLineage
  <2>3. CASE PublishContinuation(c) \/ PublishReceipt(c) \/ WriteSystemAuth(c)
      BY <2>3, StorageLineage
  <2>4. CASE PublishCommit(c) \/ PersistAttempt(c)
      BY <2>4, CommitLineage
  <2>5. CASE MarkRefreshing(c) \/ RestoreRotationUncertain(c) \/ FinishActivate(c)
      BY <2>5, StateLineage
  <2>6. CASE Exchange(c)
      BY <2>6, ExchangeLineage
  <2>7. CASE ExchangeReturns(c)
      BY <2>7, ReturnLineage
  <2>8. CASE PersistResult(c)
      BY <2>8, PersistLineage
  <2>9. CASE CommitRecord(c)
      BY <2>9, RecordLineage
  <2>10. CASE CompleteRefreshMutation(c)
      BY <2>10, ForgetLineage
  <2> QED
      BY <1>1, <2>1, <2>2, <2>3, <2>4, <2>5, <2>6, <2>7, <2>8, <2>9, <2>10 DEF RefreshStep
<1>2. ASSUME NEW c \in Candidates, Call(c) \/ Other(c) PROVE Lineage'
  <2>1. CASE RetryRetained(c)
      BY <2>1, RetryLineage
  <2>2. CASE BeginRefresh(c) \/ StepFails(c)
      BY <2>2, LeaveLineage
  <2>3. CASE SuspendShared(c) \/ BeginActivate(c)
      BY <2>3, StateLineage
  <2>4. CASE SaveLogin(c) \/ RemoveManaged(c)
      BY <2>4, RecordsLineage
  <2> QED
      BY <1>2, <2>1, <2>2, <2>3, <2>4 DEF Call, Other
<1>3. CASE Crash \/ Restart
    BY <1>3, ForgetLineage
<1>4. CASE SystemRewritesAuth \/ RestartRefused \/ UNCHANGED vars
  <2>1. UNCHANGED <<rec, mut, result, pc, retained, wire, nextTok, sent, spent>>
      BY <1>4 DEF SystemRewritesAuth, RestartRefused, vars, volatile, durable, env, history
  <2> QED
      BY <2>1 DEF Lineage, Ownership, Owns, Awaited, Unspent, Usable, Claimed
<1> QED
    BY <1>1, <1>2, <1>3, <1>4 DEF Next

\* Lineage holds in every reachable state.
THEOREM LineageHolds == Spec => []Lineage
<1>1. ASSUME Init PROVE Lineage
  <2>1. /\ \A c \in Candidates : /\ pc[c] = "idle" /\ retained[c].op = NoOp
                                 /\ retained[c].res = "none"
                                 /\ rec[c].cred.rt = NoTok /\ rec[c].st = "absent"
        /\ mut.phase = "none" /\ spent = {}
      BY <1>1 DEF Init, NoRetained, NoMaterial, NoReservation
  <2>2. Ownership
      BY <2>1 DEF Ownership, Owns, Awaited
  <2>3. \A c \in Candidates : Unspent(c) /\ Claimed(c)
      BY <2>1 DEF Unspent, Usable, Claimed, Awaited, Rotating, Reserving
  <2> QED
      BY <2>1, <2>2, <2>3 DEF Lineage
<1> QED
    BY <1>1, NextLineage, ChainsHold, IndInvHolds, PTL DEF Spec

\* Only the exchange sends anything, and what it presents has not been spent.
LEMMA StepPresents ==
    ASSUME TypeOK, Core, Lineage, [Next]_vars, NEW o \in Ops, sent'[o] > sent[o]
    PROVE  presented'[o] \notin spent
<1>1. sent'[o] # sent[o]
    BY DEF TypeOK
<1>2. PICK c \in Candidates : Exchange(c)
  <2>1. sent' # sent
      BY <1>1
  <2>2. ~UNCHANGED vars
      BY <2>1 DEF vars, history
  <2>3. ASSUME NEW c \in Candidates, Call(c) \/ Other(c) PROVE FALSE
      BY <2>1, <2>3 DEF Call, Other, RetryRetained, SuspendShared, BeginRefresh, SaveLogin,
         BeginActivate, RemoveManaged, StepFails, history
  <2>4. ASSUME NEW c \in Candidates, RefreshStep(c), ~Exchange(c) PROVE FALSE
    <3>1. CASE \/ SelectRefused(c) \/ SelectRefreshMutation(c) \/ PublishContinuation(c)
               \/ PublishCommit(c) \/ MarkRefreshing(c) \/ PersistAttempt(c)
               \/ ExchangeReturns(c) \/ PersistResult(c)
        BY <2>1, <3>1 DEF SelectRefused, SelectRefreshMutation, PublishContinuation,
           PublishCommit, MarkRefreshing, PersistAttempt, ExchangeReturns, PersistResult, history
    <3>2. CASE \/ CommitRecord(c) \/ RestoreRotationUncertain(c) \/ PublishReceipt(c)
               \/ CompleteRefreshMutation(c) \/ StepRefused(c) \/ WriteSystemAuth(c)
               \/ FinishActivate(c)
        BY <2>1, <3>2 DEF CommitRecord, RestoreRotationUncertain, PublishReceipt,
           CompleteRefreshMutation, StepRefused, WriteSystemAuth, FinishActivate, history
    <3> QED
        BY <2>4, <3>1, <3>2 DEF RefreshStep
  <2>5. ~(SystemRewritesAuth \/ Crash \/ Restart \/ RestartRefused)
      BY <2>1 DEF SystemRewritesAuth, Crash, Restart, RestartRefused, history
  <2> QED
      BY <2>2, <2>3, <2>4, <2>5 DEF Next
<1>3. o = retained[c].op
    BY <1>1, <1>2, ExchangeFacts
<1> QED
    BY <1>2, <1>3, ExchangeFacts DEF Usable

\* A refresh token that an exchange has rotated away is never presented again,
\* by whatever candidate, operation or process: a record that still holds it is
\* claimed by the operation that spent it, and refreshOnce does not begin on a
\* claimed record (RefreshEligible, restoreRotationUncertain, hydrateCredentialRefresh).
THEOREM NoTokenReplayed == Spec => NoReplay
<1>1. TypeOK /\ Core /\ Lineage /\ [Next]_vars =>
        [\A o \in Ops : sent'[o] > sent[o] => presented'[o] \notin spent]_vars
    BY StepPresents
<1>2. IndInv => TypeOK /\ Core
    BY DEF IndInv
<1> QED
    BY <1>1, <1>2, LineageHolds, IndInvHolds, PTL DEF Spec, NoReplay

=============================================================================
