---------------------------- MODULE TurnLeaseProofs ----------------------------
(***************************************************************************)
(* TurnLease for every set of turns, accounts and callers, every set of    *)
(* plans and every limit on the events.                                    *)
(*                                                                         *)
(* A caller past BeginRequest keeps the fence (Holds): its turn is the     *)
(* current one, the last commit of its record is its own, and the record   *)
(* keeps a reference, which neither a successor, another request nor the   *)
(* retention sweep gets past.  From there the four properties follow: two  *)
(* callers cannot both keep the fence; the slot of a request only grows,   *)
(* and only past a rejected call (Tried); and a turn state binds a request *)
(* to the accounts it may visit (Bound).  Lent adds what the last record   *)
(* of the lane says while it keeps a reference; with it every step is one  *)
(* that LaneRequest allows.                                                *)
(***************************************************************************)
EXTENDS TurnLease, FiniteSetTheorems, WellFoundedInduction, TLAPS

\* The current turn is the last one of the lane.
LaneHead == lane.current # None => lane.last = lane.current

\* A record with a request has a plan and an attempt at one of its slots; its
\* turn state is one of the account the turn is bound to.
Kept(t) ==
    LET r == rec[t] IN
    /\ r.id <= count.requests
    /\ r.id = 0 => r.attempt = "none"
    /\ r.id # 0 => r.plan \in Plans /\ r.slot \in 1..Len(r.plan.slots)
    /\ r.turnState # None => r.everAdmitted /\ r.turnState.by = r.account

\* A caller that is not idle has a turn and a request of its own.
Asks(c) ==
    ~At(c, "idle") =>
        /\ Turn(c) \in Turns /\ caller[c].id \in 1..count.requests
        /\ \A d \in Callers : ~At(d, "idle") /\ caller[d].id = caller[c].id => d = c

\* Nothing was sent for a request that has not begun.
Unbegun(c) ==
    caller[c].at \in {"queued", "planning", "reserved"} =>
        \A k \in calls : k.id # caller[c].id

\* A caller past BeginRequest holds the fence, and its place is the attempt's.
Holds(c) ==
    caller[c].at \in Live =>
        /\ Fenced(c)
        /\ Rec(c).id = caller[c].id /\ Rec(c).refs # {} /\ Rec(c).state # "none"
        /\ At(c, "prepared") => Rec(c).attempt = "prepared"
        /\ caller[c].at \in {"marked", "sent"} => Rec(c).attempt = "dispatched"
        /\ At(c, "lost") => Rec(c).attempt \in {"prepared", "dispatched"}
        /\ At(c, "streaming") => Rec(c).attempt = "streaming"
        /\ At(c, "drain") =>
             Rec(c).attempt \in {"provider_completed", "provider_failed", "indeterminate"}

\* The calls of its request are those of the slots tried so far, all of them
\* rejected but perhaps the last.
Tried(c) ==
    caller[c].at \in Live =>
        \A k \in calls : k.id = caller[c].id =>
            /\ k.slot <= Rec(c).slot
            /\ k.slot < Rec(c).slot => k.fate = "rejected"
            /\ caller[c].at \in {"prepared", "marked"} => k.slot < Rec(c).slot

\* The accounts a request with a turn state may visit.  One that gave up the
\* turn state of the record latches the new one.
Bound(c) ==
    caller[c].at \in Live =>
        /\ caller[c].token # None => AccountsOf(Rec(c).plan) \subseteq {caller[c].token.by}
        /\ Rec(c).turnState # None /\ Rec(c).attempt \in {"prepared", "dispatched"} =>
             caller[c].relatch \/ AccountsOf(Rec(c).plan) \subseteq {Rec(c).account}
        /\ At(c, "streaming") => AttemptAccount(Rec(c)) = Rec(c).account

\* One call for each slot of a request, and one that is not rejected.
Sent ==
    /\ \A k \in calls : k.id <= count.requests
    /\ \A k, j \in calls : k.id = j.id /\ k.slot = j.slot => k = j
    /\ \A k, j \in calls : k.id = j.id /\ k.fate # "rejected" /\ j.fate # "rejected" => k = j

IndInv ==
    /\ TypeOK
    /\ LaneHead
    /\ \A t \in Turns : Kept(t)
    /\ \A c \in Callers : Asks(c) /\ Unbegun(c) /\ Holds(c) /\ Tried(c) /\ Bound(c)
    /\ Sent
    /\ SentIsRemembered
    /\ TokenStaysHome

-----------------------------------------------------------------------------
(* The operators of the model.                                             *)

LaneType == [current : Turns \cup {None}, last : Turns \cup {None},
             unavailable : SUBSET Accounts, exhausted : SUBSET Accounts]
RecordType ==
    [state : LeaseStates, account : Accounts \cup {None}, id : Nat,
     plan : Plans \cup {NoPlan}, slot : Nat, attempt : AttemptStates, refs : SUBSET Refs,
     turnState : Tokens, prevTurnState : Tokens, nonMigratable : BOOLEAN,
     everAdmitted : BOOLEAN, pred : Turns \cup {None}]
CallerType ==
    [at : Locations, turn : Turns \cup {None}, id : Nat, token : Tokens,
     cancelled : BOOLEAN, relatch : BOOLEAN, plan : Plans \cup {NoPlan}]
CountType == [requests : Nat, cancels : Nat, restarts : Nat, sweeps : Nat, limit : Limits]
CallsTyped ==
    \A k \in calls :
         k \in [id : Nat \ {0}, turn : Turns, slot : Nat, account : Accounts,
                token : Tokens, fate : {"open", "accepted", "rejected"}]

\* The type invariant, by its parts.
LEMMA Types ==
    TypeOK <=> /\ lane \in LaneType
               /\ rec \in [Turns -> RecordType]
               /\ holder \in [Turns -> Callers \cup {None}]
               /\ gate \in Callers \cup {None}
               /\ caller \in [Callers -> CallerType]
               /\ CallsTyped
               /\ held \in [Turns -> Tokens]
               /\ doubt \in [Turns -> Accounts \cup {None}]
               /\ removed \subseteq Accounts
               /\ count \in CountType
BY DEF TypeOK, LaneType, RecordType, CallerType, CallsTyped, CountType

\* The same after a step.
LEMMA TypesNext ==
    ASSUME lane' \in LaneType, rec' \in [Turns -> RecordType],
           holder' \in [Turns -> Callers \cup {None}], gate' \in Callers \cup {None},
           caller' \in [Callers -> CallerType], CallsTyped', held' \in [Turns -> Tokens],
           doubt' \in [Turns -> Accounts \cup {None}], removed' \subseteq Accounts,
           count' \in CountType
    PROVE  TypeOK'
BY DEF TypeOK, LaneType, RecordType, CallerType, CallsTyped, CountType

\* None is no turn, account or caller, and the slots of a plan are accounts.
LEMMA Constants ==
    /\ None \notin Turns /\ None \notin Accounts /\ None \notin Callers
    /\ None \in Tokens
    /\ \A p \in Plans : /\ Len(p.slots) \in Nat /\ 1 <= Len(p.slots)
                        /\ \A i \in 1..Len(p.slots) : p.slots[i] \in Accounts
                        /\ p.probe \in BOOLEAN
<1>1. ASSUME NEW p \in Plans
      PROVE  /\ Len(p.slots) \in Nat /\ 1 <= Len(p.slots) /\ p.probe \in BOOLEAN
             /\ \A i \in 1..Len(p.slots) : p.slots[i] \in Accounts
  <2>1. p.slots \in Seq(Accounts) /\ p.slots # <<>> /\ p.probe \in BOOLEAN
      BY PlanAssumption
  <2> QED
      BY <2>1
<1> QED
    BY <1>1, PlanAssumption DEF Tokens

\* A nonempty set of naturals has its minimum.
LEMMA MinExists ==
    ASSUME NEW S, S \subseteq Nat, S # {}
    PROVE  Min(S) \in S
<1> DEFINE R == {ss \in Nat \X Nat : ss[1] < ss[2]}
<1>1. IsWellFoundedOn(R, Nat)
    BY NatLessThanWellFounded, Zenon DEF OpToRel
<1>2. PICK x \in S : \A y \in S : ~(<<y, x>> \in R)
  <2> HIDE DEF R
  <2> QED
      BY <1>1, WFMin
<1>3. ASSUME NEW y \in S PROVE x <= y
  <2>1. x \in Nat /\ y \in Nat /\ ~(<<y, x>> \in R)
      BY <1>2
  <2>2. ~(y < x)
      BY <2>1
  <2> QED
      BY <2>1, <2>2
<1> QED
    BY <1>3 DEF Min

\* The slot a request goes to next lies ahead.
LEMMA NextSlot ==
    ASSUME NEW r \in RecordType, r.plan \in Plans, r.slot \in 1..Len(r.plan.slots)
    PROVE  /\ \/ Replacement(r) = 0
              \/ Replacement(r) \in 1..Len(r.plan.slots) /\ r.slot < Replacement(r)
           /\ \/ NextCredential(r) = 0
              \/ NextCredential(r) \in 1..Len(r.plan.slots) /\ r.slot < NextCredential(r)
           /\ AttemptAccount(r) \in Accounts
           /\ AttemptAccount(r) \in AccountsOf(r.plan)
<1> DEFINE next == {j \in (r.slot + 1)..Len(r.plan.slots) :
                      /\ r.plan.slots[j] # AttemptAccount(r)
                      /\ r.everAdmitted /\ r.slot <= r.plan.ordinary => j > r.plan.ordinary}
<1>1. Len(r.plan.slots) \in Nat /\ r.slot \in Nat /\ 1 <= r.slot
    BY Constants
<1>2. next # {} => Replacement(r) \in next
  <2>1. next \subseteq Nat
      BY <1>1
  <2>2. Replacement(r) = IF next = {} THEN 0 ELSE Min(next)
      BY DEF Replacement
  <2> HIDE DEF next
  <2> QED
      BY <2>1, <2>2, MinExists
<1>3. next = {} => Replacement(r) = 0
    BY DEF Replacement
<1>4. \/ NextCredential(r) = 0
      \/ NextCredential(r) \in 1..Len(r.plan.slots) /\ r.slot < NextCredential(r)
    BY <1>1 DEF NextCredential
<1>5. AttemptAccount(r) \in Accounts /\ AttemptAccount(r) \in AccountsOf(r.plan)
  <2>1. r.plan.slots \in Seq(Accounts)
      BY PlanAssumption
  <2>2. r.slot \in DOMAIN r.plan.slots
      BY <2>1
  <2> QED
      BY <2>1, <2>2, Constants DEF AttemptAccount, AccountsOf
<1> QED
    BY <1>1, <1>2, <1>3, <1>4, <1>5

-----------------------------------------------------------------------------
(* A live caller is alone, and so are its commits.                         *)

\* Two callers cannot both hold the fence of the lane.
LEMMA OthersWait ==
    ASSUME IndInv, NEW c \in Callers, caller[c].at \in Live,
           NEW d \in Callers, d # c
    PROVE  caller[d].at \notin Live
BY DEF IndInv, Holds, Fenced

\* What is known of the record of a live caller.
LEMMA LiveRecord ==
    ASSUME IndInv, NEW c \in Callers, caller[c].at \in Live
    PROVE  /\ caller[c] \in CallerType /\ Turn(c) \in Turns /\ Rec(c) \in RecordType
           /\ Rec(c).plan \in Plans /\ Rec(c).slot \in 1..Len(Rec(c).plan.slots)
           /\ Rec(c).id = caller[c].id /\ caller[c].id \in 1..count.requests
           /\ AttemptAccount(Rec(c)) \in Accounts
           /\ AttemptAccount(Rec(c)) \in AccountsOf(Rec(c).plan)
           /\ lane.current = Turn(c) /\ holder[Turn(c)] = c
           /\ lane \in LaneType /\ count \in CountType /\ count.requests \in Nat
<1>1. /\ caller[c] \in CallerType /\ rec \in [Turns -> RecordType]
      /\ lane \in LaneType /\ count \in CountType
    BY Types DEF IndInv
<1>2. Turn(c) \in Turns /\ caller[c].id \in 1..count.requests
    BY DEF IndInv, Asks, At, Live
<1>3. Rec(c) \in RecordType /\ Kept(Turn(c))
    BY <1>1, <1>2 DEF IndInv, Rec
<1>4. /\ Rec(c).id = caller[c].id /\ lane.current = Turn(c) /\ holder[Turn(c)] = c
    BY DEF IndInv, Holds, Fenced
<1>5. count.requests \in Nat
    BY <1>1 DEF CountType
<1>6. Rec(c).plan \in Plans /\ Rec(c).slot \in 1..Len(Rec(c).plan.slots)
    BY <1>2, <1>3, <1>4, <1>5 DEF Kept, Rec
<1> QED
    BY <1>1, <1>2, <1>3, <1>4, <1>5, <1>6, NextSlot

\* A commit of a live caller's record, with what it must show.
LEMMA CommitInd ==
    ASSUME IndInv, NEW c \in Callers, caller[c].at \in Live, NEW new \in RecordType,
           Put(c, new),
           \A d \in Callers : d # c => caller'[d] = caller[d],
           caller' \in [Callers -> CallerType],
           \/ caller'[c].at = "idle"
           \/ /\ caller'[c].turn = Turn(c) /\ caller'[c].id = caller[c].id
              /\ caller'[c].at \notin {"queued", "planning", "reserved"},
           lane' \in LaneType, lane'.last = lane.last,
           lane'.current \in {lane.current, None},
           held' \in [Turns -> Tokens], doubt' \in [Turns -> Accounts \cup {None}],
           UNCHANGED <<gate, calls, removed, count>>,
           new.id = Rec(c).id, new.plan = Rec(c).plan,
           new.slot \in 1..Len(new.plan.slots),
           new.turnState # None => new.everAdmitted /\ new.turnState.by = new.account,
           \A k \in calls : k.id = new.id /\ k.slot = new.slot =>
               new.attempt \notin {"prepared", "abandoned"},
           Holds(c)', Tried(c)', Bound(c)'
    PROVE  IndInv'
<1>1. /\ Turn(c) \in Turns /\ Rec(c) = rec[Turn(c)] /\ rec \in [Turns -> RecordType]
      /\ Rec(c).plan \in Plans /\ holder \in [Turns -> Callers \cup {None}]
      /\ new.id \in 1..count.requests /\ count.requests \in Nat
    BY LiveRecord, Types DEF IndInv, Rec
<1>2. /\ rec' = [rec EXCEPT ![Turn(c)] = new] /\ holder' = [holder EXCEPT ![Turn(c)] = c]
      /\ rec'[Turn(c)] = new /\ \A u \in Turns : u # Turn(c) => rec'[u] = rec[u]
    BY <1>1 DEF Put
<1>3. TypeOK'
  <2>1. rec' \in [Turns -> RecordType] /\ holder' \in [Turns -> Callers \cup {None}]
      BY <1>1, <1>2
  <2>2. /\ gate' \in Callers \cup {None} /\ CallsTyped' /\ removed' \subseteq Accounts
        /\ count' \in CountType
      BY Types DEF IndInv, CallsTyped
  <2> QED
      BY <2>1, <2>2, TypesNext
<1>4. LaneHead'
    BY Constants DEF IndInv, LaneHead
<1>5. ASSUME NEW t \in Turns PROVE Kept(t)'
  <2>1. CASE t = Turn(c)
      BY <1>1, <1>2, <2>1 DEF Kept
  <2>2. CASE t # Turn(c)
      BY <1>2, <2>2 DEF IndInv, Kept
  <2> QED
      BY <2>1, <2>2
<1>6. ASSUME NEW d \in Callers PROVE (Asks(d) /\ Unbegun(d))'
  <2>1. Asks(c) /\ Unbegun(c) /\ Asks(d) /\ Unbegun(d) /\ ~At(c, "idle")
      BY DEF IndInv, At, Live
  <2>2. \A e \in Callers : ~At(e, "idle")' =>
          ~At(e, "idle") /\ caller'[e].id = caller[e].id /\ caller'[e].turn = caller[e].turn
      BY <2>1 DEF At, Turn
  <2>3. Asks(d)'
      BY <2>1, <2>2 DEF Asks, Turn
  <2>4. CASE d = c
      BY <2>1, <2>3, <2>4 DEF Unbegun
  <2>5. CASE d # c
      BY <2>1, <2>3, <2>5 DEF Unbegun
  <2> QED
      BY <2>4, <2>5
<1>7. ASSUME NEW d \in Callers PROVE (Holds(d) /\ Tried(d) /\ Bound(d))'
  <2>1. CASE d = c
      BY <2>1
  <2>2. CASE d # c
    <3>1. caller'[d].at \notin Live
        BY <2>2, OthersWait
    <3> QED
        BY <3>1 DEF Holds, Tried, Bound
  <2> QED
      BY <2>1, <2>2
<1>8. Sent' /\ TokenStaysHome'
    BY DEF IndInv, Sent, TokenStaysHome
<1>9. SentIsRemembered'
  <2>1. SUFFICES ASSUME NEW k \in calls, rec'[k.turn].id = k.id, rec'[k.turn].slot = k.slot
                 PROVE  rec'[k.turn].attempt \notin {"prepared", "abandoned"}
      BY DEF SentIsRemembered
  <2>2. k.turn \in Turns
      BY Types DEF IndInv, CallsTyped
  <2>3. CASE k.turn = Turn(c)
      BY <1>2, <2>1, <2>3
  <2>4. CASE k.turn # Turn(c)
      BY <1>2, <2>1, <2>2, <2>4 DEF IndInv, SentIsRemembered
  <2> QED
      BY <2>3, <2>4
<1> QED
    BY <1>3, <1>4, <1>5, <1>6, <1>7, <1>8, <1>9 DEF IndInv

-----------------------------------------------------------------------------
(* Steps that move a caller and commit no record.                          *)

\* A caller goes on with its request, or leaves.
LEMMA MoveInd ==
    ASSUME IndInv, NEW c \in Callers, ~At(c, "idle"),
           \A d \in Callers : d # c => caller'[d] = caller[d],
           caller' \in [Callers -> CallerType],
           \/ caller'[c].at = "idle"
           \/ /\ caller'[c].turn = Turn(c) /\ caller'[c].id = caller[c].id
              /\ caller'[c].at \in {"queued", "planning", "reserved"} =>
                   caller[c].at \in {"queued", "planning", "reserved"},
           lane' \in LaneType, lane'.last = lane.last, lane'.current = lane.current,
           gate' \in Callers \cup {None}, count' \in CountType,
           count'.requests = count.requests,
           UNCHANGED <<rec, holder, calls, held, doubt, removed>>,
           Holds(c)', Tried(c)', Bound(c)'
    PROVE  IndInv'
<1>1. TypeOK'
  <2>1. /\ rec' \in [Turns -> RecordType] /\ holder' \in [Turns -> Callers \cup {None}]
        /\ CallsTyped' /\ held' \in [Turns -> Tokens]
        /\ doubt' \in [Turns -> Accounts \cup {None}] /\ removed' \subseteq Accounts
      BY Types DEF IndInv, CallsTyped
  <2> QED
      BY <2>1, TypesNext
<1>2. LaneHead' /\ Sent' /\ SentIsRemembered' /\ TokenStaysHome'
    BY DEF IndInv, LaneHead, Sent, SentIsRemembered, TokenStaysHome
<1>3. \A t \in Turns : Kept(t)'
    BY DEF IndInv, Kept
<1>4. ASSUME NEW d \in Callers PROVE (Asks(d) /\ Unbegun(d))'
  <2>1. Asks(c) /\ Unbegun(c) /\ Asks(d) /\ Unbegun(d)
      BY DEF IndInv
  <2>2. \A e \in Callers : ~At(e, "idle")' =>
          ~At(e, "idle") /\ caller'[e].id = caller[e].id /\ caller'[e].turn = caller[e].turn
      BY DEF At, Turn
  <2>3. Asks(d)'
      BY <2>1, <2>2 DEF Asks, Turn
  <2>4. CASE d = c
      BY <2>1, <2>3, <2>4 DEF Unbegun
  <2>5. CASE d # c
      BY <2>1, <2>3, <2>5 DEF Unbegun
  <2> QED
      BY <2>4, <2>5
<1>5. ASSUME NEW d \in Callers PROVE (Holds(d) /\ Tried(d) /\ Bound(d))'
  <2>1. CASE d = c
      BY <2>1
  <2>2. CASE d # c
    <3>1. caller'[d] = caller[d] /\ Holds(d) /\ Tried(d) /\ Bound(d)
        BY <2>2 DEF IndInv
    <3>2. Holds(d)'
        BY <3>1 DEF Holds, Fenced, Rec, Turn, At
    <3>3. Tried(d)' /\ Bound(d)'
        BY <3>1 DEF Tried, Bound, Rec, Turn, At
    <3> QED
        BY <3>2, <3>3
  <2> QED
      BY <2>1, <2>2
<1> QED
    BY <1>1, <1>2, <1>3, <1>4, <1>5 DEF IndInv

\* A caller that goes on keeps all but its place.
LEMMA GoFacts ==
    ASSUME caller \in [Callers -> CallerType], NEW c \in Callers, NEW l \in Locations,
           Go(c, l)
    PROVE  /\ caller' \in [Callers -> CallerType]
           /\ \A d \in Callers : d # c => caller'[d] = caller[d]
           /\ caller'[c].at = l /\ caller'[c].turn = caller[c].turn
           /\ caller'[c].id = caller[c].id /\ caller'[c].token = caller[c].token
           /\ caller'[c].relatch = caller[c].relatch
BY DEF Go, CallerType

\* A caller that leaves is idle.
LEMMA LeaveFacts ==
    ASSUME caller \in [Callers -> CallerType], NEW c \in Callers, Leave(c)
    PROVE  /\ caller' \in [Callers -> CallerType] /\ caller'[c].at = "idle"
           /\ \A d \in Callers : d # c => caller'[d] = caller[d]
<1>1. Idle \in CallerType /\ Idle.at = "idle"
    BY Constants DEF Idle, CallerType, Locations
<1> QED
    BY <1>1 DEF Leave

\* The caller leaves: what it left behind is as it was.
LEMMA LeaveInd ==
    ASSUME IndInv, NEW c \in Callers, ~At(c, "idle"), Leave(c),
           lane' \in LaneType, lane'.last = lane.last, lane'.current = lane.current,
           gate' \in Callers \cup {None},
           UNCHANGED <<rec, holder, calls, held, doubt, removed, count>>
    PROVE  IndInv'
<1>1. caller \in [Callers -> CallerType] /\ count \in CountType
    BY Types DEF IndInv
<1>2. Idle \in CallerType
    BY Constants DEF Idle, CallerType, Locations
<1>3. /\ caller' \in [Callers -> CallerType] /\ caller'[c].at = "idle"
      /\ \A d \in Callers : d # c => caller'[d] = caller[d]
    BY <1>1, <1>2 DEF Leave, Idle
<1>4. Holds(c)' /\ Tried(c)' /\ Bound(c)'
    BY <1>3 DEF Holds, Tried, Bound, Live
<1> QED
    BY <1>1, <1>3, <1>4, MoveInd

\* The attempt is given up for lost.
LEMMA LostInd ==
    ASSUME IndInv, NEW c \in Callers, caller[c].at \in {"prepared", "marked", "sent"},
           Go(c, "lost"),
           UNCHANGED <<lane, rec, holder, gate, calls, held, doubt, removed, count>>
    PROVE  IndInv'
<1>1. /\ caller \in [Callers -> CallerType] /\ count \in CountType /\ lane \in LaneType
      /\ gate \in Callers \cup {None}
    BY Types DEF IndInv
<1>2. /\ caller' \in [Callers -> CallerType]
      /\ \A d \in Callers : d # c => caller'[d] = caller[d]
      /\ caller'[c].at = "lost" /\ caller'[c].turn = caller[c].turn
      /\ caller'[c].id = caller[c].id /\ caller'[c].token = caller[c].token
      /\ caller'[c].relatch = caller[c].relatch
    BY <1>1 DEF Go, CallerType, Locations
<1>3. Holds(c) /\ Tried(c) /\ Bound(c) /\ caller[c].at \in Live
    BY DEF IndInv, Live
<1>4. Holds(c)'
    BY <1>2, <1>3 DEF Holds, Fenced, Rec, Turn, At
<1>5. Tried(c)' /\ Bound(c)'
    BY <1>2, <1>3 DEF Tried, Bound, Rec, Turn, At
<1>6. ~At(c, "idle")
    BY DEF At
<1> QED
    BY <1>1, <1>2, <1>4, <1>5, <1>6, MoveInd DEF Turn

\* The client goes away, or gets the planning gate.
LEMMA QueueInd ==
    ASSUME IndInv, NEW c \in Callers, Cancel(c) \/ AcquirePlanning(c)
    PROVE  IndInv'
<1>1. /\ caller \in [Callers -> CallerType] /\ count \in CountType /\ lane \in LaneType
      /\ gate \in Callers \cup {None}
    BY Types DEF IndInv
<1>2. /\ caller' \in [Callers -> CallerType] /\ ~At(c, "idle")
      /\ \A d \in Callers : d # c => caller'[d] = caller[d]
      /\ \/ caller'[c].at = caller[c].at
         \/ caller'[c].at = "planning" /\ caller[c].at = "queued"
      /\ caller'[c].turn = caller[c].turn
      /\ caller'[c].id = caller[c].id /\ caller'[c].token = caller[c].token
      /\ caller'[c].relatch = caller[c].relatch
  <2>1. CASE Cancel(c)
    <3>1. /\ ~At(c, "idle") /\ caller' = [caller EXCEPT ![c].cancelled = TRUE]
        BY <2>1 DEF Cancel
    <3> QED
        BY <1>1, <3>1 DEF CallerType
  <2>2. CASE AcquirePlanning(c)
    <3>1. caller[c].at = "queued" /\ ~At(c, "idle") /\ Go(c, "planning")
        BY <2>2 DEF AcquirePlanning, At
    <3> QED
        BY <1>1, <3>1, GoFacts DEF Locations
  <2> QED
      BY <2>1, <2>2
<1>3. /\ count' \in CountType /\ count'.requests = count.requests
      /\ gate' \in Callers \cup {None}
      /\ UNCHANGED <<lane, rec, holder, calls, held, doubt, removed>>
    BY <1>1 DEF Cancel, AcquirePlanning, CountType
<1>4. Holds(c) /\ Tried(c) /\ Bound(c)
    BY DEF IndInv
<1>5. Holds(c)'
    BY <1>2, <1>3, <1>4 DEF Holds, Fenced, Rec, Turn, At, Live
<1>6. Tried(c)' /\ Bound(c)'
    BY <1>2, <1>3, <1>4 DEF Tried, Bound, Rec, Turn, At, Live
<1> QED
    BY <1>1, <1>2, <1>3, <1>5, <1>6, MoveInd DEF Turn

\* The steps of a caller that commit no record.
LEMMA PlainInd ==
    ASSUME IndInv, NEW c \in Callers,
           \/ Withdraw(c) \/ PlanFails(c) \/ TransportError(c) \/ UnavailableNotRecorded(c)
           \/ RetryNotRecorded(c) \/ ExhaustedNotRecorded(c) \/ CompleteCycle(c)
           \/ ReplanCycle(c) \/ AdmitNotRecorded(c) \/ DoubtNotRecorded(c)
    PROVE  IndInv'
<1>1. lane \in LaneType /\ gate \in Callers \cup {None}
    BY Types DEF IndInv
<1>2. CASE \/ TransportError(c) \/ UnavailableNotRecorded(c) \/ RetryNotRecorded(c)
           \/ AdmitNotRecorded(c)
    BY <1>2, LostInd DEF TransportError, UnavailableNotRecorded, RetryNotRecorded,
       AdmitNotRecorded, At, Rejected
<1>3. CASE Withdraw(c) \/ PlanFails(c)
  <2>1. /\ ~At(c, "idle") /\ Leave(c) /\ gate' \in Callers \cup {None}
        /\ UNCHANGED <<lane, rec, holder, calls, held, doubt, removed, count>>
      BY <1>1, <1>3 DEF Withdraw, PlanFails, At
  <2> QED
      BY <1>1, <2>1, LeaveInd
<1>4. CASE ExhaustedNotRecorded(c) \/ ReplanCycle(c) \/ DoubtNotRecorded(c)
  <2>1. /\ ~At(c, "idle") /\ Leave(c)
        /\ UNCHANGED <<lane, rec, holder, gate, calls, held, doubt, removed, count>>
      BY <1>4 DEF ExhaustedNotRecorded, ReplanCycle, DoubtNotRecorded, At, Rejected
  <2> QED
      BY <1>1, <2>1, LeaveInd
<1>5. CASE CompleteCycle(c)
  <2>1. /\ ~At(c, "idle") /\ Leave(c)
        /\ UNCHANGED <<rec, holder, gate, calls, held, doubt, removed, count>>
      BY <1>5 DEF CompleteCycle, At
  <2>2. lane' \in LaneType /\ lane'.last = lane.last /\ lane'.current = lane.current
      BY <1>1, <1>5 DEF CompleteCycle, LaneType
  <2> QED
      BY <1>1, <2>1, <2>2, LeaveInd
<1> QED
    BY <1>2, <1>3, <1>4, <1>5

-----------------------------------------------------------------------------
(* Steps of a live caller that commit its record.                          *)

\* The commit ends the attempt, and the caller with it.
LEMMA CommitLeaves ==
    ASSUME IndInv, NEW c \in Callers, caller[c].at \in Live, NEW new \in RecordType,
           Put(c, new), Leave(c) \/ Go(c, "cycle"),
           lane' \in LaneType, lane'.last = lane.last,
           lane'.current \in {lane.current, None},
           doubt' \in [Turns -> Accounts \cup {None}],
           UNCHANGED <<gate, calls, held, removed, count>>,
           new.id = Rec(c).id, new.plan = Rec(c).plan, new.slot = Rec(c).slot,
           new.account = Rec(c).account, new.turnState = Rec(c).turnState,
           new.everAdmitted = Rec(c).everAdmitted,
           \A k \in calls : k.id = new.id /\ k.slot = new.slot =>
               new.attempt \notin {"prepared", "abandoned"}
    PROVE  IndInv'
<1>1. caller \in [Callers -> CallerType] /\ held \in [Turns -> Tokens]
    BY Types DEF IndInv
<1>2. /\ caller' \in [Callers -> CallerType]
      /\ \A d \in Callers : d # c => caller'[d] = caller[d]
      /\ caller'[c].at \in {"idle", "cycle"}
      /\ \/ caller'[c].at = "idle"
         \/ /\ caller'[c].turn = Turn(c) /\ caller'[c].id = caller[c].id
            /\ caller'[c].at \notin {"queued", "planning", "reserved"}
  <2>1. CASE Leave(c)
      BY <1>1, <2>1, LeaveFacts
  <2>2. CASE Go(c, "cycle")
      BY <1>1, <2>2, GoFacts DEF Locations, Turn
  <2> QED
      BY <2>1, <2>2
<1>3. Holds(c)' /\ Tried(c)' /\ Bound(c)'
    BY <1>2 DEF Holds, Tried, Bound, Live
<1>4. /\ new.slot \in 1..Len(new.plan.slots)
      /\ new.turnState # None => new.everAdmitted /\ new.turnState.by = new.account
  <2>1. Kept(Turn(c)) /\ Rec(c).slot \in 1..Len(Rec(c).plan.slots)
      BY LiveRecord DEF IndInv
  <2> QED
      BY <2>1 DEF Kept, Rec
<1>5. held' \in [Turns -> Tokens]
    BY <1>1
<1> QED
    BY <1>2, <1>3, <1>4, <1>5, CommitInd

\* The commit leads to the next place of the attempt, or to the next attempt.
LEMMA CommitStays ==
    ASSUME IndInv, NEW c \in Callers, caller[c].at \in Live, NEW new \in RecordType,
           Put(c, new), NEW l \in Live,
           caller' \in [Callers -> CallerType],
           \A d \in Callers : d # c => caller'[d] = caller[d],
           caller'[c].at = l, caller'[c].turn = caller[c].turn,
           caller'[c].id = caller[c].id, caller'[c].token = caller[c].token,
           lane' \in LaneType, lane'.last = lane.last, lane'.current = lane.current,
           held' \in [Turns -> Tokens], doubt' \in [Turns -> Accounts \cup {None}],
           UNCHANGED <<gate, calls, removed, count>>,
           new.id = Rec(c).id, new.plan = Rec(c).plan,
           new.slot \in 1..Len(new.plan.slots),
           new.refs # {}, new.state # "none",
           l = "prepared" => new.attempt = "prepared",
           l \in {"marked", "sent"} => new.attempt = "dispatched",
           l = "lost" => new.attempt \in {"prepared", "dispatched"},
           l = "streaming" => new.attempt = "streaming",
           l = "drain" =>
               new.attempt \in {"provider_completed", "provider_failed", "indeterminate"},
           \A k \in calls : k.id = new.id =>
               /\ k.slot <= new.slot
               /\ k.slot < new.slot => k.fate = "rejected"
               /\ l \in {"prepared", "marked"} => k.slot < new.slot,
           \A k \in calls : k.id = new.id /\ k.slot = new.slot =>
               new.attempt \notin {"prepared", "abandoned"},
           new.turnState # None => new.everAdmitted /\ new.turnState.by = new.account,
           new.turnState # None /\ new.attempt \in {"prepared", "dispatched"} =>
               caller'[c].relatch \/ AccountsOf(new.plan) \subseteq {new.account},
           l = "streaming" => AttemptAccount(new) = new.account
    PROVE  IndInv'
<1>1. /\ Turn(c) \in Turns /\ rec \in [Turns -> RecordType]
      /\ holder \in [Turns -> Callers \cup {None}]
      /\ Rec(c).id = caller[c].id /\ lane.current = Turn(c)
    BY LiveRecord, Types DEF IndInv
<1>2. /\ Turn(c)' = Turn(c) /\ Rec(c)' = new /\ holder'[Turn(c)] = c
    BY <1>1 DEF Put, Turn, Rec
<1>3. Holds(c)'
    BY <1>1, <1>2 DEF Holds, Fenced, At
<1>4. Tried(c)'
    BY <1>1, <1>2 DEF Tried, At
<1>5. Bound(c)'
  <2>1. caller[c].token # None => AccountsOf(new.plan) \subseteq {caller[c].token.by}
      BY DEF IndInv, Bound
  <2>2. /\ AttemptAccount(Rec(c))' = AttemptAccount(new)
        /\ AccountsOf(Rec(c).plan)' = AccountsOf(new.plan)
      BY <1>2 DEF AttemptAccount, AccountsOf
  <2> QED
      BY <1>2, <2>1, <2>2 DEF Bound, At
<1>6. /\ caller'[c].turn = Turn(c) /\ caller'[c].at \notin {"queued", "planning", "reserved"}
    BY DEF Turn, Live
<1>7. lane'.current \in {lane.current, None}
    OBVIOUS
<1> QED
    BY <1>3, <1>4, <1>5, <1>6, <1>7, CommitInd

\* What is known of the calls of a live caller.
LEMMA LiveCalls ==
    ASSUME IndInv, NEW c \in Callers, caller[c].at \in Live
    PROVE  /\ \A k \in calls : k.id = Rec(c).id =>
                /\ k.slot \in Nat /\ k.slot <= Rec(c).slot
                /\ k.slot < Rec(c).slot => k.fate = "rejected"
                /\ caller[c].at \in {"prepared", "marked"} => k.slot < Rec(c).slot
                /\ Rejected(c) => k.fate = "rejected"
           /\ Rec(c).turnState # None =>
                Rec(c).everAdmitted /\ Rec(c).turnState.by = Rec(c).account
           /\ Rec(c).turnState # None /\ Rec(c).attempt \in {"prepared", "dispatched"} =>
                caller[c].relatch \/ AccountsOf(Rec(c).plan) \subseteq {Rec(c).account}
<1>1. /\ Rec(c).id = caller[c].id /\ Turn(c) \in Turns /\ Rec(c).slot \in Nat
    BY LiveRecord DEF RecordType
<1>2. Tried(c) /\ Bound(c) /\ Kept(Turn(c)) /\ CallsTyped /\ Sent
    BY <1>1, Types DEF IndInv
<1>3. ASSUME NEW k \in calls, k.id = Rec(c).id
      PROVE  /\ k.slot \in Nat /\ k.slot <= Rec(c).slot
             /\ k.slot < Rec(c).slot => k.fate = "rejected"
             /\ caller[c].at \in {"prepared", "marked"} => k.slot < Rec(c).slot
             /\ Rejected(c) => k.fate = "rejected"
  <2>1. /\ k.slot \in Nat /\ k.slot <= Rec(c).slot
        /\ k.slot < Rec(c).slot => k.fate = "rejected"
        /\ caller[c].at \in {"prepared", "marked"} => k.slot < Rec(c).slot
      BY <1>1, <1>2, <1>3 DEF Tried, CallsTyped
  <2>2. ASSUME Rejected(c), k.slot = Rec(c).slot PROVE k.fate = "rejected"
    <3>1. PICK j \in calls : j.id = caller[c].id /\ j.slot = Rec(c).slot /\ j.fate = "rejected"
        BY <2>2 DEF Rejected, Call
    <3> QED
        BY <1>1, <1>2, <1>3, <2>2, <3>1 DEF Sent
  <2> QED
      BY <1>1, <2>1, <2>2
<1>4. Rec(c).turnState # None => Rec(c).everAdmitted /\ Rec(c).turnState.by = Rec(c).account
    BY <1>2 DEF Kept, Rec
<1>5. Rec(c).turnState # None /\ Rec(c).attempt \in {"prepared", "dispatched"} =>
        caller[c].relatch \/ AccountsOf(Rec(c).plan) \subseteq {Rec(c).account}
    BY <1>2 DEF Bound
<1> QED
    BY <1>3, <1>4, <1>5

\* The attempt is about to be sent, or is given up before.
LEMMA MarkInd ==
    ASSUME IndInv, NEW c \in Callers, MarkDispatched(c)
    PROVE  IndInv'
<1> DEFINE new == [Rec(c) EXCEPT !.attempt = "dispatched"]
<1>1. /\ caller[c].at = "prepared" /\ caller[c].at \in Live /\ Put(c, new) /\ Go(c, "marked")
      /\ Rec(c).attempt = "prepared"
      /\ UNCHANGED <<lane, gate, calls, held, doubt, removed, count>>
    BY DEF MarkDispatched, At, Live
<1>2. Rec(c) \in RecordType /\ Rec(c).slot \in 1..Len(Rec(c).plan.slots) /\ lane \in LaneType
    BY <1>1, LiveRecord
<1>3. /\ new \in RecordType /\ new.attempt = "dispatched"
      /\ new.id = Rec(c).id /\ new.plan = Rec(c).plan /\ new.slot = Rec(c).slot
      /\ new.refs = Rec(c).refs /\ new.state = Rec(c).state /\ new.account = Rec(c).account
      /\ new.turnState = Rec(c).turnState /\ new.everAdmitted = Rec(c).everAdmitted
    BY <1>2 DEF RecordType, AttemptStates
<1>4. Rec(c).refs # {} /\ Rec(c).state # "none"
    BY <1>1 DEF IndInv, Holds
<1>5. /\ held' \in [Turns -> Tokens] /\ doubt' \in [Turns -> Accounts \cup {None}]
      /\ lane' \in LaneType /\ lane'.last = lane.last /\ lane'.current = lane.current
    BY <1>1, Types DEF IndInv
<1>6. caller \in [Callers -> CallerType] /\ "marked" \in Live
    BY Types DEF IndInv, Live
<1>7. /\ caller' \in [Callers -> CallerType]
      /\ \A d \in Callers : d # c => caller'[d] = caller[d]
      /\ caller'[c].at = "marked" /\ caller'[c].turn = caller[c].turn
      /\ caller'[c].id = caller[c].id /\ caller'[c].token = caller[c].token
      /\ caller'[c].relatch = caller[c].relatch
    BY <1>1, <1>6, GoFacts DEF Locations
<1> HIDE DEF new
<1>8. \A k \in calls : k.id = new.id =>
        k.slot <= new.slot /\ (k.slot < new.slot => k.fate = "rejected") /\ k.slot < new.slot
    BY <1>1, <1>3, LiveCalls
<1>9. /\ new.turnState # None => new.everAdmitted /\ new.turnState.by = new.account
      /\ new.turnState # None => caller'[c].relatch \/ AccountsOf(new.plan) \subseteq {new.account}
    BY <1>1, <1>3, <1>7, LiveCalls
<1> QED
    BY <1>1, <1>2, <1>3, <1>4, <1>5, <1>6, <1>7, <1>8, <1>9, CommitStays

\* The attempt is given up before it is sent.
LEMMA AbandonInd ==
    ASSUME IndInv, NEW c \in Callers, Abandon(c)
    PROVE  IndInv'
<1> DEFINE new == [Rec(c) EXCEPT
         !.attempt = "abandoned", !.refs = {},
         !.state = IF Rec(c).everAdmitted THEN "orphaned" ELSE "provisional"]
<1>1. /\ caller[c].at = "prepared" /\ caller[c].at \in Live /\ Put(c, new) /\ Leave(c)
      /\ UNCHANGED <<lane, gate, calls, held, doubt, removed, count>>
    BY DEF Abandon, At, Live
<1>2. Rec(c) \in RecordType /\ lane \in LaneType
    BY <1>1, LiveRecord
<1>3. /\ new \in RecordType
      /\ new.id = Rec(c).id /\ new.plan = Rec(c).plan /\ new.slot = Rec(c).slot
      /\ new.account = Rec(c).account
      /\ new.turnState = Rec(c).turnState /\ new.everAdmitted = Rec(c).everAdmitted
    BY <1>2 DEF RecordType, AttemptStates, LeaseStates
<1>4. /\ doubt' \in [Turns -> Accounts \cup {None}]
      /\ lane' \in LaneType /\ lane'.last = lane.last /\ lane'.current = lane.current
    BY <1>1, Types DEF IndInv
<1> HIDE DEF new
<1>5. ASSUME NEW k \in calls, k.id = new.id, k.slot = new.slot PROVE FALSE
  <2>1. k.slot < Rec(c).slot /\ k.slot \in Nat
      BY <1>1, <1>3, <1>5, LiveCalls
  <2>2. ~(k.slot < k.slot)
      BY <2>1
  <2> QED
      BY <1>3, <1>5, <2>1, <2>2
<1> QED
    BY <1>1, <1>3, <1>4, <1>5, CommitLeaves

\* The next slot is prepared, after one that was rejected or never sent.
LEMMA NextAttemptInd ==
    ASSUME IndInv, NEW c \in Callers, At(c, "prepared") \/ Rejected(c),
           NEW slot \in 1..Len(Rec(c).plan.slots), Rec(c).slot < slot,
           NEW new \in RecordType, new.attempt = "prepared", new.slot = slot,
           Rec(c).everAdmitted => new.account = Rec(c).account, new.id = Rec(c).id,
           new.plan = Rec(c).plan, new.refs = Rec(c).refs, new.state = Rec(c).state,
           new.turnState = Rec(c).turnState, new.everAdmitted = Rec(c).everAdmitted,
           Put(c, new),
           Go(c, "prepared"),
           lane' \in LaneType, lane'.last = lane.last, lane'.current = lane.current,
           doubt' \in [Turns -> Accounts \cup {None}],
           UNCHANGED <<gate, calls, held, removed, count>>
    PROVE  IndInv'
<1>1. /\ caller[c].at \in {"prepared", "sent"} /\ caller[c].at \in Live
      /\ caller[c].at = "sent" => Rejected(c)
      /\ Put(c, new)
    BY DEF At, Live, Rejected
<1>2. /\ Rec(c) \in RecordType /\ Rec(c).slot \in 1..Len(Rec(c).plan.slots)
      /\ Len(Rec(c).plan.slots) \in Nat
    BY <1>1, LiveRecord, Constants
<1>3. /\ Rec(c).refs # {} /\ Rec(c).state # "none"
      /\ Rec(c).attempt \in {"prepared", "dispatched"}
    BY <1>1 DEF IndInv, Holds, At
<1>4. held' \in [Turns -> Tokens] /\ caller \in [Callers -> CallerType] /\ "prepared" \in Live
    BY Types DEF IndInv, Live
<1>5. /\ caller' \in [Callers -> CallerType]
      /\ \A d \in Callers : d # c => caller'[d] = caller[d]
      /\ caller'[c].at = "prepared" /\ caller'[c].turn = caller[c].turn
      /\ caller'[c].id = caller[c].id /\ caller'[c].token = caller[c].token
      /\ caller'[c].relatch = caller[c].relatch
    BY <1>4, GoFacts DEF Locations
<1>6. ASSUME NEW k \in calls, k.id = new.id
      PROVE  k.slot <= new.slot /\ k.fate = "rejected" /\ k.slot < new.slot /\ k.slot # new.slot
  <2>1. /\ k.slot \in Nat /\ k.slot <= Rec(c).slot
        /\ k.slot < Rec(c).slot => k.fate = "rejected"
        /\ caller[c].at = "prepared" => k.slot < Rec(c).slot
        /\ Rejected(c) => k.fate = "rejected"
      BY <1>1, <1>6, LiveCalls
  <2>2. k.slot < slot
      BY <1>2, <2>1
  <2>3. k.slot <= slot /\ k.slot # slot
      BY <1>2, <2>1, <2>2
  <2> QED
      BY <1>1, <2>1, <2>2, <2>3
<1>7. /\ new.turnState # None => new.everAdmitted /\ new.turnState.by = new.account
      /\ new.turnState # None => caller'[c].relatch \/ AccountsOf(new.plan) \subseteq {new.account}
    BY <1>1, <1>3, <1>5, LiveCalls
<1> QED
    BY <1>1, <1>2, <1>3, <1>4, <1>5, <1>6, <1>7, CommitStays

\* Another credential of the account is tried.
LEMMA RejectInd ==
    ASSUME IndInv, NEW c \in Callers, RejectAndPrepare(c)
    PROVE  IndInv'
<1> DEFINE slot == NextCredential(Rec(c))
           account == IF Rec(c).everAdmitted THEN Rec(c).account ELSE AttemptAccount(Rec(c))
<1>1. /\ Rejected(c) /\ slot # 0 /\ caller[c].at \in Live
      /\ Put(c, [Rec(c) EXCEPT !.attempt = "prepared", !.slot = slot, !.account = account])
      /\ Go(c, "prepared")
      /\ doubt' = [doubt EXCEPT ![Turn(c)] = None]
      /\ UNCHANGED <<lane, gate, calls, held, removed, count>>
    BY DEF RejectAndPrepare, Rejected, At, Live
<1>2. /\ Rec(c) \in RecordType /\ Rec(c).plan \in Plans
      /\ Rec(c).slot \in 1..Len(Rec(c).plan.slots) /\ AttemptAccount(Rec(c)) \in Accounts
    BY <1>1, LiveRecord
<1>3. slot \in 1..Len(Rec(c).plan.slots) /\ Rec(c).slot < slot
    BY <1>1, <1>2, NextSlot
<1>4. account \in Accounts \cup {None} /\ (Rec(c).everAdmitted => account = Rec(c).account)
    BY <1>2 DEF RecordType
<1>5. /\ lane' \in LaneType /\ lane'.last = lane.last /\ lane'.current = lane.current
      /\ doubt' \in [Turns -> Accounts \cup {None}]
    BY <1>1, Types DEF IndInv
<1> DEFINE new == [Rec(c) EXCEPT !.attempt = "prepared", !.slot = slot, !.account = account]
<1>6. slot \in Nat
    BY <1>2, <1>3, Constants
<1> HIDE DEF slot, account
<1>7. /\ new \in RecordType /\ new.attempt = "prepared" /\ new.slot = slot
      /\ new.account = account /\ new.id = Rec(c).id /\ new.plan = Rec(c).plan
      /\ new.refs = Rec(c).refs /\ new.state = Rec(c).state
      /\ new.turnState = Rec(c).turnState /\ new.everAdmitted = Rec(c).everAdmitted
    BY <1>2, <1>4, <1>6 DEF RecordType, AttemptStates
<1>8. Put(c, new)
    BY <1>1
<1> HIDE DEF new
<1> QED
    BY <1>1, <1>3, <1>4, <1>5, <1>7, <1>8, NextAttemptInd

\* An account is recorded as unavailable.
LEMMA UnavailableInd ==
    ASSUME IndInv, NEW c \in Callers,
           NEW slot \in {0, Replacement(Rec(c))}, NEW quota \in BOOLEAN,
           At(c, "prepared") \/ Rejected(c) \/ (At(c, "streaming") /\ slot = 0),
           RecordUnavailable(c, slot, quota)
    PROVE  IndInv'
<1>1. /\ caller[c].at \in Live /\ Put(c, Unavailable(Rec(c), slot))
      /\ UNCHANGED <<gate, calls, held, removed, count>>
    BY DEF RecordUnavailable, At, Rejected, Live
<1>2. /\ Rec(c) \in RecordType /\ Rec(c).plan \in Plans
      /\ Rec(c).slot \in 1..Len(Rec(c).plan.slots) /\ AttemptAccount(Rec(c)) \in Accounts
      /\ lane \in LaneType /\ doubt \in [Turns -> Accounts \cup {None}]
    BY <1>1, LiveRecord, Types DEF IndInv
<1>3. /\ lane' \in LaneType /\ lane'.last = lane.last
      /\ lane'.current \in {lane.current, None} /\ (slot # 0 => lane'.current = lane.current)
  <2>1. lane' = LaneWithout(Rec(c), slot, quota)
      BY DEF RecordUnavailable
  <2> QED
      BY <1>2, <2>1 DEF LaneWithout, LaneType
<1>4. doubt' \in [Turns -> Accounts \cup {None}]
    BY <1>2 DEF RecordUnavailable
<1>5. CASE slot # 0
  <2>1. slot \in 1..Len(Rec(c).plan.slots) /\ Rec(c).slot < slot
      BY <1>2, <1>5, NextSlot
  <2> DEFINE new == [Rec(c) EXCEPT !.attempt = "prepared", !.slot = slot]
  <2>2. Put(c, new)
      BY <1>1, <1>5 DEF Unavailable
  <2>3. Go(c, "prepared")
      BY <1>5 DEF RecordUnavailable
  <2>4. /\ new \in RecordType /\ new.attempt = "prepared" /\ new.slot = slot
        /\ new.account = Rec(c).account /\ new.id = Rec(c).id /\ new.plan = Rec(c).plan
        /\ new.refs = Rec(c).refs /\ new.state = Rec(c).state
        /\ new.turnState = Rec(c).turnState /\ new.everAdmitted = Rec(c).everAdmitted
    <3>1. slot \in Nat
        BY <1>2, <2>1, Constants
    <3> QED
        BY <1>2, <3>1 DEF RecordType, AttemptStates
  <2>5. lane'.current = lane.current
      BY <1>3, <1>5
  <2> HIDE DEF new
  <2> QED
      BY <1>1, <1>3, <1>4, <2>1, <2>2, <2>3, <2>4, <2>5, NextAttemptInd
<1>6. CASE slot = 0
  <2> DEFINE new == [Rec(c) EXCEPT !.attempt = "unavailable", !.refs = {},
                       !.state = IF Rec(c).everAdmitted THEN "bound_quiescent"
                                                        ELSE "failed_unadmitted"]
  <2>1. Put(c, new)
      BY <1>1, <1>6 DEF Unavailable
  <2>2. Leave(c) \/ Go(c, "cycle")
      BY <1>6 DEF RecordUnavailable
  <2>3. /\ new \in RecordType /\ new.attempt = "unavailable"
        /\ new.id = Rec(c).id /\ new.plan = Rec(c).plan /\ new.slot = Rec(c).slot
        /\ new.account = Rec(c).account
        /\ new.turnState = Rec(c).turnState /\ new.everAdmitted = Rec(c).everAdmitted
      BY <1>2 DEF RecordType, AttemptStates, LeaseStates
  <2> HIDE DEF new
  <2> QED
      BY <1>1, <1>3, <1>4, <2>1, <2>2, <2>3, CommitLeaves
<1> QED
    BY <1>5, <1>6

\* A definite rejection ends the request.
LEMMA FinishInd ==
    ASSUME IndInv, NEW c \in Callers, FinishRejected(c)
    PROVE  IndInv'
<1> DEFINE new == [Rec(c) EXCEPT !.attempt = "provider_failed", !.refs = {},
                     !.state = IF Rec(c).everAdmitted THEN "bound_quiescent"
                                                      ELSE "failed_unadmitted"]
<1>1. /\ caller[c].at \in Live /\ Put(c, new) /\ Leave(c)
      /\ lane' = IF Rec(c).everAdmitted THEN lane ELSE [lane EXCEPT !.current = None]
      /\ doubt' = [doubt EXCEPT ![Turn(c)] = None]
      /\ UNCHANGED <<gate, calls, held, removed, count>>
    BY DEF FinishRejected, Rejected, At, Live
<1>2. /\ Rec(c) \in RecordType /\ lane \in LaneType
      /\ doubt \in [Turns -> Accounts \cup {None}]
    BY <1>1, LiveRecord, Types DEF IndInv
<1>3. /\ new \in RecordType /\ new.attempt = "provider_failed"
      /\ new.id = Rec(c).id /\ new.plan = Rec(c).plan /\ new.slot = Rec(c).slot
      /\ new.account = Rec(c).account
      /\ new.turnState = Rec(c).turnState /\ new.everAdmitted = Rec(c).everAdmitted
    BY <1>2 DEF RecordType, AttemptStates, LeaseStates
<1>4. /\ lane' \in LaneType /\ lane'.last = lane.last /\ lane'.current \in {lane.current, None}
    BY <1>1, <1>2 DEF LaneType
<1>5. doubt' \in [Turns -> Accounts \cup {None}]
    BY <1>1, <1>2
<1> HIDE DEF new
<1> QED
    BY <1>1, <1>3, <1>4, <1>5, CommitLeaves

\* An admitted record, with the turn states given.
Admission(r, a, prev, state) ==
    [r EXCEPT !.state = "bound_active", !.attempt = "streaming", !.account = a,
              !.everAdmitted = TRUE, !.refs = Refs,
              !.prevTurnState = prev, !.turnState = state]

\* The record of an admission, field by field.
LEMMA AdmissionRecord ==
    ASSUME NEW r \in RecordType, NEW a \in Accounts, NEW prev \in Tokens, NEW state \in Tokens
    PROVE  LET new == Admission(r, a, prev, state) IN
           /\ new \in RecordType /\ new.attempt = "streaming" /\ new.state = "bound_active"
           /\ new.refs = Refs /\ new.id = r.id /\ new.plan = r.plan
           /\ new.slot = r.slot /\ new.account = a /\ new.everAdmitted /\ new.turnState = state
<1> DEFINE new == Admission(r, a, prev, state)
<1>1. new \in RecordType
    BY DEF Admission, RecordType, AttemptStates, LeaseStates
<1> QED
    BY <1>1 DEF Admission, RecordType

\* The caller that reads a response.
LEMMA StreamFacts ==
    ASSUME caller \in [Callers -> CallerType], NEW c \in Callers, NEW relatch \in BOOLEAN,
           caller' = [caller EXCEPT ![c].at = "streaming", ![c].relatch = relatch]
    PROVE  /\ caller' \in [Callers -> CallerType]
           /\ \A d \in Callers : d # c => caller'[d] = caller[d]
           /\ caller'[c].at = "streaming" /\ caller'[c].turn = caller[c].turn
           /\ caller'[c].id = caller[c].id /\ caller'[c].token = caller[c].token
<1> DEFINE moved == [caller[c] EXCEPT !.at = "streaming", !.relatch = relatch]
<1>1. caller' = [d \in Callers |-> IF d = c THEN moved ELSE caller[d]]
    BY DEF CallerType
<1>2. caller[c] \in CallerType /\ "streaming" \in Locations
    BY DEF Locations
<1>3. moved \in CallerType
    BY <1>2, Zenon DEF CallerType
<1>4. /\ moved.at = "streaming" /\ moved.turn = caller[c].turn
      /\ moved.id = caller[c].id /\ moved.token = caller[c].token
    BY <1>2 DEF CallerType
<1> HIDE DEF moved
<1> QED
    BY <1>1, <1>3, <1>4

\* What an admission makes of the record: the turn state it keeps is one of the
\* account that answers.
LEMMA AdmittedFacts ==
    ASSUME IndInv, NEW c \in Callers, caller[c].at \in {"sent", "streaming"},
           NEW token \in Tokens, token # None => token.by = AttemptAccount(Rec(c)),
           NEW new, new = Admitted(Rec(c), token, caller[c].relatch)
    PROVE  /\ new \in RecordType /\ new.attempt = "streaming" /\ new.state = "bound_active"
           /\ new.refs = Refs /\ new.id = Rec(c).id /\ new.plan = Rec(c).plan
           /\ new.slot = Rec(c).slot /\ new.account = AttemptAccount(Rec(c))
           /\ new.turnState # None => new.turnState.by = new.account
           /\ new.everAdmitted
<1> DEFINE r == Rec(c)
           a == AttemptAccount(r)
           rebind == r.attempt = "dispatched" /\ a # r.account
           prev == IF rebind /\ r.prevTurnState = None THEN r.turnState ELSE r.prevTurnState
           state == IF token = None THEN (IF rebind THEN None ELSE r.turnState)
                    ELSE IF r.turnState = None \/ caller[c].relatch THEN token ELSE r.turnState
<1>1. caller[c].at \in Live
    BY DEF Live
<1>2. r \in RecordType /\ a \in Accounts /\ a \in AccountsOf(r.plan)
    BY <1>1, LiveRecord
<1>3. /\ r.attempt = "dispatched" \/ (r.attempt = "streaming" /\ a = r.account)
    BY <1>1 DEF IndInv, Holds, Bound, At
<1>4. /\ r.turnState # None => r.turnState.by = r.account
      /\ r.turnState # None /\ r.attempt = "dispatched" =>
           caller[c].relatch \/ AccountsOf(r.plan) \subseteq {r.account}
    BY <1>1, LiveCalls
<1>5. prev \in Tokens /\ state \in Tokens
    BY <1>2, Constants DEF RecordType
<1>6. state # None => state.by = a
  <2>1. CASE token = None
      BY <1>3, <1>4, <2>1
  <2>2. CASE token # None
      BY <1>2, <1>3, <1>4, <2>2
  <2> QED
      BY <2>1, <2>2
<1>7. new = Admission(r, a, prev, state)
    BY DEF Admitted, Admission
<1> HIDE DEF prev, state, rebind, a, r
<1>8. /\ new \in RecordType /\ new.attempt = "streaming" /\ new.state = "bound_active"
      /\ new.refs = Refs /\ new.id = r.id /\ new.plan = r.plan
      /\ new.slot = r.slot /\ new.account = a /\ new.everAdmitted /\ new.turnState = state
    BY <1>2, <1>5, <1>7, AdmissionRecord
<1> QED
    BY <1>6, <1>8 DEF r, a

\* A response is admitted, or its turn state is.
LEMMA AdmissionInd ==
    ASSUME IndInv, NEW c \in Callers, caller[c].at \in {"sent", "streaming"},
           NEW token \in Tokens, token # None => token.by = AttemptAccount(Rec(c)),
           Put(c, Admitted(Rec(c), token, caller[c].relatch)),
           NEW relatch \in BOOLEAN,
           caller' = [caller EXCEPT ![c].at = "streaming", ![c].relatch = relatch],
           Latch(Turn(c), token),
           UNCHANGED <<lane, gate, calls, doubt, removed, count>>
    PROVE  IndInv'
<1> DEFINE new == Admitted(Rec(c), token, caller[c].relatch)
<1>1. /\ new \in RecordType /\ new.attempt = "streaming" /\ new.state = "bound_active"
      /\ new.refs = Refs /\ new.id = Rec(c).id /\ new.plan = Rec(c).plan
      /\ new.slot = Rec(c).slot /\ new.account = AttemptAccount(Rec(c))
      /\ new.turnState # None => new.turnState.by = new.account
      /\ new.everAdmitted
    BY AdmittedFacts
<1>2. Put(c, new) /\ caller[c].at \in Live /\ "streaming" \in Live
    BY DEF Live
<1> HIDE DEF new
<1>3. /\ caller \in [Callers -> CallerType] /\ held \in [Turns -> Tokens]
      /\ doubt \in [Turns -> Accounts \cup {None}] /\ lane \in LaneType
    BY Types DEF IndInv
<1>4. held' \in [Turns -> Tokens]
  <2>1. held' = IF held[Turn(c)] = None THEN [held EXCEPT ![Turn(c)] = token] ELSE held
      BY DEF Latch
  <2> QED
      BY <1>3, <2>1
<1>5. /\ caller' \in [Callers -> CallerType]
      /\ \A d \in Callers : d # c => caller'[d] = caller[d]
      /\ caller'[c].at = "streaming" /\ caller'[c].turn = caller[c].turn
      /\ caller'[c].id = caller[c].id /\ caller'[c].token = caller[c].token
    BY <1>3, StreamFacts
<1>6. Rec(c).slot \in 1..Len(Rec(c).plan.slots)
    BY <1>2, LiveRecord
<1>7. \A k \in calls : k.id = new.id =>
        k.slot <= new.slot /\ (k.slot < new.slot => k.fate = "rejected")
    BY <1>1, <1>2, LiveCalls
<1>8. AttemptAccount(new) = new.account /\ new.refs # {}
    BY <1>1 DEF AttemptAccount, Refs
<1>9. /\ lane' \in LaneType /\ lane'.last = lane.last /\ lane'.current = lane.current
      /\ doubt' \in [Turns -> Accounts \cup {None}]
    BY <1>3
<1> QED
    BY <1>1, <1>2, <1>4, <1>5, <1>6, <1>7, <1>8, <1>9, CommitStays

\* Both ways to admit.
LEMMA AdmitInd ==
    ASSUME IndInv, NEW c \in Callers,
           \/ \E issued \in BOOLEAN : Admit(c, issued)
           \/ StreamedTurnState(c)
    PROVE  IndInv'
<1>1. caller[c].at \in {"sent", "streaming"}
    BY DEF Admit, StreamedTurnState, At
<1> DEFINE issue == [by |-> AttemptAccount(Rec(c)), n |-> caller[c].id]
<1>2. issue \in Tokens /\ issue.by = AttemptAccount(Rec(c)) /\ caller[c] \in CallerType
  <2>1. /\ AttemptAccount(Rec(c)) \in Accounts /\ caller[c].id \in 1..count.requests
        /\ count.requests \in Nat /\ caller[c] \in CallerType
      BY <1>1, LiveRecord DEF Live
  <2>2. caller[c].id \in Nat \ {0}
      BY <2>1
  <2> QED
      BY <2>1, <2>2 DEF Tokens
<1> HIDE DEF issue
<1>3. ASSUME NEW issued \in BOOLEAN, Admit(c, issued) PROVE IndInv'
  <2> DEFINE token == IF issued THEN issue ELSE None
             relatch == caller[c].relatch /\ ~issued
  <2>1. token \in Tokens /\ (token # None => token.by = AttemptAccount(Rec(c)))
      BY <1>2, Constants
  <2>2. /\ Put(c, Admitted(Rec(c), token, caller[c].relatch)) /\ Latch(Turn(c), token)
        /\ UNCHANGED <<lane, gate, calls, doubt, removed, count>>
      BY <1>3 DEF Admit, issue
  <2>3. caller' = [caller EXCEPT ![c].at = "streaming", ![c].relatch = relatch]
      BY <1>3, Types DEF Admit, IndInv, CallerType
  <2>4. relatch \in BOOLEAN
      OBVIOUS
  <2> HIDE DEF token, relatch
  <2> QED
      BY <1>1, <2>1, <2>2, <2>3, <2>4, AdmissionInd
<1>4. ASSUME StreamedTurnState(c) PROVE IndInv'
  <2>1. /\ Put(c, Admitted(Rec(c), issue, caller[c].relatch)) /\ Latch(Turn(c), issue)
        /\ UNCHANGED <<lane, gate, calls, doubt, removed, count>>
      BY <1>4 DEF StreamedTurnState, issue
  <2>2. caller' = [caller EXCEPT ![c].at = "streaming", ![c].relatch = FALSE]
      BY <1>4, Types DEF StreamedTurnState, IndInv, CallerType, At
  <2> QED
      BY <1>1, <1>2, <2>1, <2>2, AdmissionInd
<1> QED
    BY <1>3, <1>4

\* The attempt has an end; what is left is to drain the response.
LEMMA EndInd ==
    ASSUME IndInv, NEW c \in Callers, caller[c].at \in Live, NEW new \in RecordType,
           Put(c, new), Go(c, "drain"),
           lane' \in LaneType, lane'.last = lane.last, lane'.current = lane.current,
           doubt' \in [Turns -> Accounts \cup {None}],
           UNCHANGED <<gate, calls, held, removed, count>>,
           new.id = Rec(c).id, new.plan = Rec(c).plan, new.slot = Rec(c).slot,
           new.account = Rec(c).account, new.turnState = Rec(c).turnState,
           new.everAdmitted = Rec(c).everAdmitted,
           new.attempt \in {"provider_completed", "provider_failed", "indeterminate"},
           new.refs = {"observer"}, new.state # "none"
    PROVE  IndInv'
<1>1. /\ caller \in [Callers -> CallerType] /\ "drain" \in Live /\ held' \in [Turns -> Tokens]
    BY Types DEF IndInv, Live
<1>2. /\ caller' \in [Callers -> CallerType]
      /\ \A d \in Callers : d # c => caller'[d] = caller[d]
      /\ caller'[c].at = "drain" /\ caller'[c].turn = caller[c].turn
      /\ caller'[c].id = caller[c].id /\ caller'[c].token = caller[c].token
      /\ caller'[c].relatch = caller[c].relatch
    BY <1>1, GoFacts DEF Locations
<1>3. new.slot \in 1..Len(new.plan.slots) /\ new.refs # {}
    BY LiveRecord
<1>4. \A k \in calls : k.id = new.id =>
        k.slot <= new.slot /\ (k.slot < new.slot => k.fate = "rejected")
    BY LiveCalls
<1>5. new.turnState # None => new.everAdmitted /\ new.turnState.by = new.account
    BY LiveCalls
<1> QED
    BY <1>1, <1>2, <1>3, <1>4, <1>5, CommitStays

\* The response completes.
LEMMA CompleteInd ==
    ASSUME IndInv, NEW c \in Callers, NEW endTurn \in BOOLEAN, Complete(c, endTurn)
    PROVE  IndInv'
<1> DEFINE new == [Rec(c) EXCEPT !.attempt = "provider_completed", !.refs = {"observer"},
                     !.state = IF endTurn THEN "bound_quiescent" ELSE "continuation_pending"]
<1>1. /\ caller[c].at \in Live /\ Put(c, new) /\ Go(c, "drain")
      /\ lane' = [lane EXCEPT !.unavailable = {},
           !.exhausted = IF Rec(c).plan.probe THEN @ \ {AttemptAccount(Rec(c))} ELSE @]
      /\ doubt' = [doubt EXCEPT ![Turn(c)] = None]
      /\ UNCHANGED <<gate, calls, held, removed, count>>
    BY DEF Complete, At, Live
<1>2. /\ Rec(c) \in RecordType /\ lane \in LaneType
      /\ doubt \in [Turns -> Accounts \cup {None}]
    BY <1>1, LiveRecord, Types DEF IndInv
<1>3. /\ new \in RecordType /\ new.attempt = "provider_completed" /\ new.refs = {"observer"}
      /\ new.state # "none"
      /\ new.id = Rec(c).id /\ new.plan = Rec(c).plan /\ new.slot = Rec(c).slot
      /\ new.account = Rec(c).account
      /\ new.turnState = Rec(c).turnState /\ new.everAdmitted = Rec(c).everAdmitted
    BY <1>2 DEF RecordType, AttemptStates, LeaseStates, Refs
<1>4. /\ lane' \in LaneType /\ lane'.last = lane.last /\ lane'.current = lane.current
    BY <1>1, <1>2 DEF LaneType
<1>5. doubt' \in [Turns -> Accounts \cup {None}]
    BY <1>1, <1>2
<1> HIDE DEF new
<1> QED
    BY <1>1, <1>3, <1>4, <1>5, EndInd

\* The response ends with an error.
LEMMA ProviderFailsInd ==
    ASSUME IndInv, NEW c \in Callers, ProviderFails(c)
    PROVE  IndInv'
<1> DEFINE new == [Rec(c) EXCEPT !.attempt = "provider_failed", !.refs = {"observer"},
                     !.state = "bound_quiescent"]
<1>1. /\ caller[c].at \in Live /\ Put(c, new) /\ Go(c, "drain")
      /\ doubt' = [doubt EXCEPT ![Turn(c)] = None]
      /\ UNCHANGED <<lane, gate, calls, held, removed, count>>
    BY DEF ProviderFails, At, Live
<1>2. /\ Rec(c) \in RecordType /\ lane \in LaneType
      /\ doubt \in [Turns -> Accounts \cup {None}]
    BY <1>1, LiveRecord, Types DEF IndInv
<1>3. /\ new \in RecordType /\ new.attempt = "provider_failed" /\ new.refs = {"observer"}
      /\ new.state # "none"
      /\ new.id = Rec(c).id /\ new.plan = Rec(c).plan /\ new.slot = Rec(c).slot
      /\ new.account = Rec(c).account
      /\ new.turnState = Rec(c).turnState /\ new.everAdmitted = Rec(c).everAdmitted
    BY ZenonT(30), <1>2 DEF RecordType, AttemptStates, LeaseStates, Refs
<1>4. /\ lane' \in LaneType /\ lane'.last = lane.last /\ lane'.current = lane.current
      /\ doubt' \in [Turns -> Accounts \cup {None}]
    BY <1>1, <1>2
<1> HIDE DEF new
<1> QED
    BY <1>1, <1>3, <1>4, EndInd

\* The outcome is recorded as in doubt.
LEMMA IndeterminateInd ==
    ASSUME IndInv, NEW c \in Callers, Indeterminate(c)
    PROVE  IndInv'
<1> DEFINE new == [Rec(c) EXCEPT !.attempt = "indeterminate", !.state = "orphaned",
                     !.refs = {"observer"}, !.nonMigratable = TRUE]
<1>1. /\ caller[c].at \in Live /\ Put(c, new) /\ Go(c, "drain")
      /\ doubt' = [doubt EXCEPT ![Turn(c)] = AttemptAccount(Rec(c))]
      /\ UNCHANGED <<lane, gate, calls, held, removed, count>>
    BY DEF Indeterminate, At, Live
<1>2. /\ Rec(c) \in RecordType /\ lane \in LaneType /\ AttemptAccount(Rec(c)) \in Accounts
      /\ doubt \in [Turns -> Accounts \cup {None}]
    BY <1>1, LiveRecord, Types DEF IndInv
<1>3. /\ new \in RecordType /\ new.attempt = "indeterminate" /\ new.refs = {"observer"}
      /\ new.state # "none"
      /\ new.id = Rec(c).id /\ new.plan = Rec(c).plan /\ new.slot = Rec(c).slot
      /\ new.account = Rec(c).account
      /\ new.turnState = Rec(c).turnState /\ new.everAdmitted = Rec(c).everAdmitted
    BY <1>2 DEF RecordType, AttemptStates, LeaseStates, Refs
<1>4. /\ lane' \in LaneType /\ lane'.last = lane.last /\ lane'.current = lane.current
      /\ doubt' \in [Turns -> Accounts \cup {None}]
    BY <1>1, <1>2
<1> HIDE DEF new
<1> QED
    BY <1>1, <1>3, <1>4, EndInd

\* The last reference is released.
LEMMA DrainInd ==
    ASSUME IndInv, NEW c \in Callers, Drain(c)
    PROVE  IndInv'
<1> DEFINE new == [Rec(c) EXCEPT !.refs = Rec(c).refs \ {"observer"}]
<1>1. /\ caller[c].at \in Live /\ Put(c, new) /\ Leave(c)
      /\ caller[c].at = "drain"
      /\ UNCHANGED <<lane, gate, calls, held, doubt, removed, count>>
    BY DEF Drain, At, Live
<1>2. /\ Rec(c) \in RecordType /\ lane \in LaneType
      /\ doubt \in [Turns -> Accounts \cup {None}]
    BY <1>1, LiveRecord, Types DEF IndInv
<1>3. /\ new \in RecordType /\ new.attempt = Rec(c).attempt
      /\ new.id = Rec(c).id /\ new.plan = Rec(c).plan /\ new.slot = Rec(c).slot
      /\ new.account = Rec(c).account
      /\ new.turnState = Rec(c).turnState /\ new.everAdmitted = Rec(c).everAdmitted
  <2> DEFINE refs == Rec(c).refs \ {"observer"}
  <2>1. refs \in SUBSET Refs
      BY <1>2 DEF RecordType
  <2> HIDE DEF refs
  <2>2. new = [Rec(c) EXCEPT !.refs = refs]
      BY DEF refs
  <2> QED
      BY <1>2, <2>1, <2>2 DEF RecordType
<1>4. /\ lane' \in LaneType /\ lane'.last = lane.last /\ lane'.current = lane.current
      /\ doubt' \in [Turns -> Accounts \cup {None}]
    BY <1>1, <1>2
<1>5. Rec(c).attempt \in {"provider_completed", "provider_failed", "indeterminate"}
    BY <1>1 DEF IndInv, Holds, At
<1> HIDE DEF new
<1> QED
    BY <1>1, <1>3, <1>4, <1>5, CommitLeaves

-----------------------------------------------------------------------------
(* The client, the provider and the accounts.                              *)

\* A client sends a request: its number is new.
LEMMA NewRequestInd ==
    ASSUME IndInv, NEW c \in Callers, NEW t \in Turns, NEW token, NewRequest(c, t, token)
    PROVE  IndInv'
<1> DEFINE id == count.requests + 1
           new == [Idle EXCEPT !.at = "queued", !.turn = t, !.token = token, !.id = id]
<1>1. /\ lane \in LaneType /\ rec \in [Turns -> RecordType]
      /\ caller \in [Callers -> CallerType] /\ held \in [Turns -> Tokens]
      /\ count \in CountType /\ CallsTyped
    BY Types DEF IndInv
<1>2. /\ caller[c].at = "idle" /\ token \in Tokens
      /\ caller' = [caller EXCEPT ![c] = new]
      /\ count' = [count EXCEPT !.requests = @ + 1]
      /\ UNCHANGED <<lane, rec, holder, gate, calls, held, doubt, removed>>
    BY <1>1, Constants DEF NewRequest, At
<1>3. /\ count.requests \in Nat /\ count' \in CountType /\ count'.requests = count.requests + 1
    BY <1>1, <1>2 DEF CountType
<1>4. /\ new \in CallerType /\ new.at = "queued" /\ new.turn = t
      /\ new.id = count.requests + 1
  <2>1. id \in Nat
      BY <1>3
  <2> HIDE DEF id
  <2>2. Idle \in CallerType /\ "queued" \in Locations
      BY Constants DEF Idle, CallerType, Locations
  <2>3. new \in CallerType
      BY <1>2, <2>1, <2>2 DEF CallerType
  <2>4. new.at = "queued" /\ new.turn = t /\ new.id = id
      BY <2>2 DEF CallerType
  <2> QED
      BY <2>3, <2>4 DEF id
<1> HIDE DEF new
<1>5. /\ caller' \in [Callers -> CallerType] /\ caller'[c] = new
      /\ \A d \in Callers : d # c => caller'[d] = caller[d]
    BY <1>1, <1>2, <1>4
<1>6. TypeOK'
  <2>1. /\ lane' \in LaneType /\ rec' \in [Turns -> RecordType]
        /\ holder' \in [Turns -> Callers \cup {None}] /\ gate' \in Callers \cup {None}
        /\ CallsTyped' /\ held' \in [Turns -> Tokens]
        /\ doubt' \in [Turns -> Accounts \cup {None}] /\ removed' \subseteq Accounts
      BY <1>2, Types DEF IndInv, CallsTyped
  <2> QED
      BY <1>3, <1>5, <2>1, TypesNext
<1>7. LaneHead' /\ SentIsRemembered' /\ TokenStaysHome'
    BY <1>2 DEF IndInv, LaneHead, SentIsRemembered, TokenStaysHome
<1>8. ASSUME NEW u \in Turns PROVE Kept(u)'
  <2>1. rec[u] \in RecordType /\ Kept(u)
      BY <1>1 DEF IndInv
  <2>2. rec[u].id \in Nat /\ rec[u].id <= count.requests
      BY <2>1 DEF RecordType, Kept
  <2>3. rec[u].id <= count'.requests
      BY <1>3, <2>2
  <2> QED
      BY <1>2, <2>1, <2>3 DEF Kept
<1>9. \A k \in calls : k.id \in Nat /\ k.id <= count.requests
    BY <1>1 DEF IndInv, Sent, CallsTyped
<1>10. Sent'
  <2>1. \A k \in calls : k.id <= count'.requests
      BY <1>3, <1>9
  <2> QED
      BY <1>2, <2>1 DEF IndInv, Sent
<1>11. ASSUME NEW d \in Callers PROVE (Asks(d) /\ Unbegun(d))'
  <2>1. \A e \in Callers : e # c /\ ~At(e, "idle") =>
          /\ caller[e].id \in Nat /\ caller[e].id <= count.requests
          /\ caller[e].turn \in Turns /\ caller[e].id \in 1..count'.requests
          /\ caller[e].id # new.id
      BY <1>3, <1>4 DEF IndInv, Asks, Turn
  <2>2. new.id \in 1..count'.requests
      BY <1>3, <1>4
  <2>3. CASE d = c
    <3>1. Asks(d)'
        BY <1>4, <1>5, <2>1, <2>2, <2>3 DEF Asks, At, Turn
    <3>2. \A k \in calls : k.id # new.id
        BY <1>3, <1>4, <1>9
    <3>3. Unbegun(d)'
        BY <1>2, <1>5, <2>3, <3>2 DEF Unbegun
    <3> QED
        BY <3>1, <3>3
  <2>4. CASE d # c
    <3>1. Asks(d) /\ Unbegun(d) /\ caller'[d] = caller[d]
        BY <1>5, <2>4 DEF IndInv
    <3>2. Asks(d)'
        BY <1>5, <2>1, <2>4, <3>1 DEF Asks, At, Turn
    <3>3. Unbegun(d)'
        BY <1>2, <3>1 DEF Unbegun
    <3> QED
        BY <3>2, <3>3
  <2> QED
      BY <2>3, <2>4
<1>12. ASSUME NEW d \in Callers PROVE (Holds(d) /\ Tried(d) /\ Bound(d))'
  <2>1. CASE d = c
      BY <1>4, <1>5, <2>1 DEF Holds, Tried, Bound, Live
  <2>2. CASE d # c
    <3>1. caller'[d] = caller[d] /\ Holds(d) /\ Tried(d) /\ Bound(d)
        BY <1>5, <2>2 DEF IndInv
    <3>2. Holds(d)'
        BY <1>2, <3>1 DEF Holds, Fenced, Rec, Turn, At
    <3>3. Tried(d)' /\ Bound(d)'
        BY <1>2, <3>1 DEF Tried, Bound, Rec, Turn, At
    <3> QED
        BY <3>2, <3>3
  <2> QED
      BY <2>1, <2>2
<1> QED
    BY <1>6, <1>7, <1>8, <1>10, <1>11, <1>12 DEF IndInv

\* An account stops to revalidate.
LEMMA RemoveInd ==
    ASSUME IndInv, NEW a \in Accounts, Remove(a)
    PROVE  IndInv'
<1>1. /\ removed' \subseteq Accounts
      /\ UNCHANGED <<lane, rec, holder, gate, caller, calls, held, doubt, count>>
    BY Types DEF Remove, IndInv
<1>2. TypeOK'
  <2>1. /\ lane' \in LaneType /\ rec' \in [Turns -> RecordType]
        /\ holder' \in [Turns -> Callers \cup {None}] /\ gate' \in Callers \cup {None}
        /\ CallsTyped' /\ held' \in [Turns -> Tokens]
        /\ caller' \in [Callers -> CallerType] /\ count' \in CountType
        /\ doubt' \in [Turns -> Accounts \cup {None}]
      BY <1>1, Types DEF IndInv, CallsTyped
  <2> QED
      BY <1>1, <2>1, TypesNext
<1>3. LaneHead' /\ Sent' /\ SentIsRemembered' /\ TokenStaysHome' /\ \A t \in Turns : Kept(t)'
    BY <1>1 DEF IndInv, LaneHead, Sent, SentIsRemembered, TokenStaysHome, Kept
<1>4. ASSUME NEW d \in Callers PROVE (Asks(d) /\ Unbegun(d) /\ Holds(d))'
    BY <1>1 DEF IndInv, Asks, Unbegun, Holds, Fenced, Rec, Turn, At
<1>5. ASSUME NEW d \in Callers PROVE (Tried(d) /\ Bound(d))'
    BY <1>1 DEF IndInv, Tried, Bound, Rec, Turn, At
<1> QED
    BY <1>2, <1>3, <1>4, <1>5 DEF IndInv

\* The request goes out on the wire, once for the slot.
LEMMA SendInd ==
    ASSUME IndInv, NEW c \in Callers, Send(c)
    PROVE  IndInv'
<1> DEFINE new == [id |-> caller[c].id, turn |-> Turn(c), slot |-> Rec(c).slot,
                   account |-> AttemptAccount(Rec(c)), token |-> caller[c].token,
                   fate |-> "open"]
<1>1. /\ caller[c].at = "marked" /\ caller[c].at \in Live /\ Go(c, "sent")
      /\ calls' = calls \cup {new}
      /\ UNCHANGED <<lane, rec, holder, gate, held, doubt, removed, count>>
    BY DEF Send, At, Live
<1>2. /\ caller[c] \in CallerType /\ Turn(c) \in Turns /\ Rec(c) \in RecordType
      /\ Rec(c).id = caller[c].id /\ caller[c].id \in 1..count.requests
      /\ AttemptAccount(Rec(c)) \in Accounts
      /\ AttemptAccount(Rec(c)) \in AccountsOf(Rec(c).plan)
      /\ count.requests \in Nat
    BY <1>1, LiveRecord
<1>3. /\ Rec(c).slot \in Nat /\ caller[c].token \in Tokens /\ caller[c].id \in Nat \ {0}
      /\ caller[c].id <= count.requests
    BY <1>2 DEF RecordType, CallerType
<1>4. /\ new \in [id : Nat \ {0}, turn : Turns, slot : Nat, account : Accounts,
                  token : Tokens, fate : {"open", "accepted", "rejected"}]
      /\ new.id = caller[c].id /\ new.turn = Turn(c) /\ new.slot = Rec(c).slot
      /\ new.account = AttemptAccount(Rec(c)) /\ new.token = caller[c].token
      /\ new.fate = "open"
    BY <1>2, <1>3
<1> HIDE DEF new
<1>5. caller \in [Callers -> CallerType] /\ CallsTyped
    BY Types DEF IndInv
<1>6. /\ caller' \in [Callers -> CallerType]
      /\ \A d \in Callers : d # c => caller'[d] = caller[d]
      /\ caller'[c].at = "sent" /\ caller'[c].turn = caller[c].turn
      /\ caller'[c].id = caller[c].id /\ caller'[c].token = caller[c].token
      /\ caller'[c].relatch = caller[c].relatch
    BY <1>1, <1>5, GoFacts DEF Locations
<1>7. TypeOK'
  <2>1. /\ lane' \in LaneType /\ rec' \in [Turns -> RecordType]
        /\ holder' \in [Turns -> Callers \cup {None}] /\ gate' \in Callers \cup {None}
        /\ held' \in [Turns -> Tokens] /\ count' \in CountType
        /\ doubt' \in [Turns -> Accounts \cup {None}] /\ removed' \subseteq Accounts
      BY <1>1, Types DEF IndInv
  <2>2. CallsTyped'
      BY <1>1, <1>4, <1>5 DEF CallsTyped
  <2> QED
      BY <1>6, <2>1, <2>2, TypesNext
<1>8. LaneHead' /\ \A t \in Turns : Kept(t)'
    BY <1>1 DEF IndInv, LaneHead, Kept
<1>9. /\ Holds(c) /\ Bound(c) /\ Rec(c).attempt = "dispatched"
      /\ caller[c].token # None => AttemptAccount(Rec(c)) = caller[c].token.by
    BY <1>1, <1>2 DEF IndInv, Holds, Bound, At
<1>10. \A k \in calls : k.id = new.id =>
         k.slot \in Nat /\ k.slot < new.slot /\ k.fate = "rejected"
    BY <1>1, <1>2, <1>4, LiveCalls
<1>11. \A k \in calls : k.id = new.id => k.slot # new.slot /\ k.slot <= new.slot
    BY <1>3, <1>4, <1>10
<1>12. Sent'
  <2>1. \A k \in calls' : k.id <= count.requests
      BY <1>1, <1>3, <1>4 DEF IndInv, Sent
  <2>2. ASSUME NEW k \in calls', NEW j \in calls', k.id = j.id, k.slot = j.slot PROVE k = j
      BY <1>1, <1>11, <2>2 DEF IndInv, Sent
  <2>3. ASSUME NEW k \in calls', NEW j \in calls', k.id = j.id,
               k.fate # "rejected", j.fate # "rejected"
        PROVE  k = j
      BY <1>1, <1>10, <2>3 DEF IndInv, Sent
  <2> QED
      BY <1>1, <2>1, <2>2, <2>3 DEF Sent
<1>13. SentIsRemembered'
  <2>1. SUFFICES ASSUME NEW k \in calls', rec[k.turn].id = k.id, rec[k.turn].slot = k.slot
                 PROVE  rec[k.turn].attempt \notin {"prepared", "abandoned"}
      BY <1>1 DEF SentIsRemembered
  <2>2. CASE k = new
      BY <1>4, <1>9, <2>2 DEF Rec
  <2>3. CASE k \in calls
      BY <2>1, <2>3 DEF IndInv, SentIsRemembered
  <2> QED
      BY <1>1, <2>2, <2>3
<1>14. TokenStaysHome'
    BY <1>1, <1>4, <1>9 DEF IndInv, TokenStaysHome
<1>15. ASSUME NEW d \in Callers PROVE (Asks(d) /\ Unbegun(d))'
  <2>1. Asks(d) /\ Unbegun(d) /\ Asks(c) /\ ~At(c, "idle")
      BY <1>1 DEF IndInv, At
  <2>2. \A e \in Callers :
          /\ At(e, "idle")' <=> At(e, "idle")
          /\ caller'[e].id = caller[e].id /\ caller'[e].turn = caller[e].turn
    <3>1. ~At(c, "idle")'
        BY <1>6 DEF At
    <3> QED
        BY <1>6, <2>1, <3>1 DEF At
  <2>3. Asks(d)'
      BY <1>1, <2>1, <2>2 DEF Asks, Turn
  <2>4. CASE d = c
      BY <1>6, <2>3, <2>4 DEF Unbegun
  <2>5. CASE d # c
    <3>1. caller[d].at \in {"queued", "planning", "reserved"} => caller[d].id # new.id
        BY <1>4, <2>1, <2>5 DEF Asks, At
    <3>2. Unbegun(d)'
        BY <1>1, <1>6, <2>1, <2>5, <3>1 DEF Unbegun
    <3> QED
        BY <2>3, <3>2
  <2> QED
      BY <2>4, <2>5
<1>16. ASSUME NEW d \in Callers PROVE (Holds(d) /\ Tried(d) /\ Bound(d))'
  <2>1. CASE d = c
    <3>1. Turn(c)' = Turn(c) /\ Rec(c)' = Rec(c)
        BY <1>1, <1>6 DEF Turn, Rec
    <3>2. Holds(c)'
        BY <1>1, <1>6, <1>9, <3>1 DEF Holds, Fenced, At
    <3>3. Tried(c)'
      <4>1. ASSUME NEW k \in calls', k.id = caller[c].id
            PROVE  k.slot <= Rec(c).slot /\ (k.slot < Rec(c).slot => k.fate = "rejected")
        <5>1. CASE k = new
          <6>1. ~(new.slot < new.slot) /\ new.slot <= new.slot
              BY <1>3, <1>4
          <6> QED
              BY <1>4, <5>1, <6>1
        <5>2. CASE k \in calls
            BY <1>4, <1>10, <1>11, <4>1, <5>2
        <5> QED
            BY <1>1, <5>1, <5>2
      <4> QED
          BY <1>6, <3>1, <4>1 DEF Tried
    <3>4. Bound(c)'
        BY <1>1, <1>6, <1>9, <3>1 DEF Bound, At
    <3> QED
        BY <2>1, <3>2, <3>3, <3>4
  <2>2. CASE d # c
    <3>1. caller'[d].at \notin Live
        BY <1>1, <1>6, <2>2, OthersWait
    <3> QED
        BY <3>1 DEF Holds, Tried, Bound
  <2> QED
      BY <2>1, <2>2
<1> QED
    BY <1>7, <1>8, <1>12, <1>13, <1>14, <1>15, <1>16 DEF IndInv

\* The provider decides about a request.
LEMMA DecideInd ==
    ASSUME IndInv, NEW k \in calls, NEW fate \in {"accepted", "rejected"}, Decide(k, fate)
    PROVE  IndInv'
<1> DEFINE new == [k EXCEPT !.fate = fate]
<1>1. /\ k.fate = "open" /\ calls' = (calls \ {k}) \cup {new}
      /\ UNCHANGED <<lane, rec, holder, gate, caller, held, doubt, removed, count>>
    BY DEF Decide
<1>2. CallsTyped
    BY Types DEF IndInv
<1>3. /\ new \in [id : Nat \ {0}, turn : Turns, slot : Nat, account : Accounts,
                  token : Tokens, fate : {"open", "accepted", "rejected"}]
      /\ new.id = k.id /\ new.turn = k.turn /\ new.slot = k.slot
      /\ new.account = k.account /\ new.token = k.token
    BY <1>2 DEF CallsTyped
<1> HIDE DEF new
<1>4. \A x \in calls' : (x = new \/ (x \in calls /\ x # k))
    BY <1>1
<1>5. TypeOK'
  <2>1. /\ lane' \in LaneType /\ rec' \in [Turns -> RecordType]
        /\ holder' \in [Turns -> Callers \cup {None}] /\ gate' \in Callers \cup {None}
        /\ held' \in [Turns -> Tokens] /\ count' \in CountType
        /\ caller' \in [Callers -> CallerType]
        /\ doubt' \in [Turns -> Accounts \cup {None}] /\ removed' \subseteq Accounts
      BY <1>1, Types DEF IndInv
  <2>2. CallsTyped'
      BY <1>1, <1>2, <1>3 DEF CallsTyped
  <2> QED
      BY <2>1, <2>2, TypesNext
<1>6. LaneHead' /\ \A t \in Turns : Kept(t)'
    BY <1>1 DEF IndInv, LaneHead, Kept
<1>7. Sent'
  <2>1. Sent
      BY DEF IndInv
  <2>2. \A x \in calls' : x.id <= count.requests
      BY <1>3, <1>4, <2>1 DEF Sent
  <2>3. ASSUME NEW x \in calls', NEW y \in calls', x.id = y.id, x.slot = y.slot PROVE x = y
      BY <1>3, <1>4, <2>1, <2>3 DEF Sent
  <2>4. ASSUME NEW x \in calls', NEW y \in calls', x.id = y.id,
               x.fate # "rejected", y.fate # "rejected"
        PROVE  x = y
      BY <1>1, <1>3, <1>4, <2>1, <2>4 DEF Sent
  <2> QED
      BY <1>1, <2>2, <2>3, <2>4 DEF Sent
<1>8. SentIsRemembered' /\ TokenStaysHome'
    BY <1>1, <1>3, <1>4 DEF IndInv, SentIsRemembered, TokenStaysHome
<1>9. ASSUME NEW d \in Callers PROVE (Asks(d) /\ Unbegun(d) /\ Holds(d))'
  <2>1. Asks(d) /\ Unbegun(d) /\ Holds(d)
      BY DEF IndInv
  <2>2. (Asks(d) /\ Holds(d))'
      BY <1>1, <2>1 DEF Asks, Holds, Fenced, Rec, Turn, At
  <2>3. Unbegun(d)'
      BY <1>1, <1>3, <1>4, <2>1 DEF Unbegun
  <2> QED
      BY <2>2, <2>3
<1>10. ASSUME NEW d \in Callers PROVE (Tried(d) /\ Bound(d))'
  <2>1. Tried(d) /\ Bound(d)
      BY DEF IndInv
  <2>2. Bound(d)'
      BY <1>1, <2>1 DEF Bound, Rec, Turn, At
  <2>3. Tried(d)'
      BY <1>1, <1>3, <1>4, <2>1 DEF Tried, Rec, Turn, At
  <2> QED
      BY <2>2, <2>3
<1> QED
    BY <1>5, <1>6, <1>7, <1>8, <1>9, <1>10 DEF IndInv

-----------------------------------------------------------------------------
(* A request begins.                                                       *)

\* A record that may begin a request is not in use.
LEMMA NobodyLive ==
    ASSUME IndInv, NEW t \in Turns, CanBegin(rec[t]) \/ Drained(rec[t]),
           lane.current \in {t, None}, NEW d \in Callers
    PROVE  caller[d].at \notin Live
<1> SUFFICES ASSUME caller[d].at \in Live PROVE FALSE
    OBVIOUS
<1>1. /\ lane.current = Turn(d) /\ Turn(d) \in Turns /\ Rec(d).id = caller[d].id
      /\ caller[d].id \in 1..count.requests /\ count.requests \in Nat
    BY LiveRecord
<1>2. rec[t].refs # {} /\ rec[t].id # 0
    BY <1>1, Constants DEF IndInv, Holds, Rec
<1> QED
    BY <1>2 DEF CanBegin, Drained

\* A record with a new request, its binding given.
Started(r, state, account, pinned, id, p) ==
    [r EXCEPT !.state = state, !.account = account, !.nonMigratable = pinned, !.id = id,
              !.plan = p, !.slot = 1, !.attempt = "prepared", !.refs = {"routing"}]

\* Its fields.
LEMMA StartedRecord ==
    ASSUME NEW r \in RecordType, NEW state \in LeaseStates, NEW account \in Accounts \cup {None},
           NEW pinned \in BOOLEAN, NEW id \in Nat, NEW p \in Plans
    PROVE  LET new == Started(r, state, account, pinned, id, p) IN
           /\ new \in RecordType /\ new.state = state /\ new.account = account
           /\ new.id = id /\ new.plan = p /\ new.slot = 1 /\ new.attempt = "prepared"
           /\ new.refs = {"routing"} /\ new.turnState = r.turnState
           /\ new.everAdmitted = r.everAdmitted
<1> DEFINE new == Started(r, state, account, pinned, id, p)
<1>1. "prepared" \in AttemptStates /\ {"routing"} \in SUBSET Refs /\ p \in Plans \cup {NoPlan}
    BY DEF AttemptStates, Refs
<1>2. new \in RecordType
    BY <1>1 DEF Started, RecordType
<1> QED
    BY <1>2 DEF Started, RecordType

\* The first account of a plan, and the bounds of its slots.
LEMMA PlanSlots ==
    ASSUME NEW p \in Plans
    PROVE  Selected(p) \in Accounts /\ Selected(p) \in AccountsOf(p) /\ 1 \in 1..Len(p.slots)
<1>1. p.slots \in Seq(Accounts) /\ p.slots # <<>>
    BY PlanAssumption
<1>2. 1 \in 1..Len(p.slots) /\ DOMAIN p.slots = 1..Len(p.slots)
    BY <1>1, Constants
<1> QED
    BY <1>1, <1>2 DEF Selected, AccountsOf

\* The record a request begins with.
LEMMA BegunFacts ==
    ASSUME NEW r \in RecordType, NEW id \in Nat, NEW token, NEW p \in Plans,
           NEW new, new = Begun(r, id, token, p)
    PROVE  /\ new \in RecordType /\ new.state # "none"
           /\ new.id = id /\ new.plan = p /\ new.slot = 1 /\ new.attempt = "prepared"
           /\ new.refs = {"routing"} /\ new.turnState = r.turnState
           /\ new.everAdmitted = r.everAdmitted
<1> DEFINE bound == ~PortableContinuation(r, token) /\ (token # None \/ RequiresAccount(r))
           reset == ~bound /\ (UnavailableCanBegin(r) \/ PortableReset(r))
           state == IF r.everAdmitted THEN "bound_active" ELSE "provisional"
           account == IF reset /\ r.everAdmitted THEN r.account ELSE Selected(p)
           pinned == bound \/ (r.nonMigratable /\ ~reset)
<1>1. new = Started(r, state, account, pinned, id, p)
    BY DEF Begun, Started
<1>2. state \in LeaseStates /\ state # "none"
    BY DEF LeaseStates
<1>3. account \in Accounts \cup {None}
    BY PlanSlots DEF RecordType
<1>4. pinned \in BOOLEAN
  <2>1. bound \in BOOLEAN /\ reset \in BOOLEAN /\ r.nonMigratable \in BOOLEAN
      BY DEF RecordType
  <2> HIDE DEF bound, reset
  <2> QED
      BY <2>1
<1> HIDE DEF bound, reset, state, account, pinned
<1> QED
    BY <1>1, <1>2, <1>3, <1>4, StartedRecord

\* What the continuity checks leave of the plan: it stays with the account of
\* the turn state, unless the request gives the turn state up.
LEMMA BegunBound ==
    ASSUME NEW r \in RecordType, NEW token, NEW displaced, NEW p \in Plans, NEW new,
           r.turnState # None => r.everAdmitted /\ r.turnState.by = r.account,
           Continuity(r, token, displaced, p), BindingKept(r, new, p)
    PROVE  /\ token # None => AccountsOf(p) \subseteq {token.by}
           /\ r.turnState # None =>
                /\ new.account = r.account
                /\ PortableContinuation(r, token) \/ AccountsOf(p) \subseteq {new.account}
<1>1. token # None => AccountsOf(p) = {r.account} /\ token = r.turnState
    BY DEF Continuity, PortableContinuation
<1>2. r.turnState # None => new.account = r.account
    BY DEF BindingKept
<1>3. r.turnState # None /\ ~PortableContinuation(r, token) => AccountsOf(p) = {r.account}
    BY DEF Continuity, RequiresAccount
<1> QED
    BY <1>1, <1>2, <1>3

\* The caller of a request that begins, with its token and latch given.
Beginner(a, token, relatch) ==
    [a EXCEPT !.at = "prepared", !.token = token, !.plan = NoPlan, !.relatch = relatch]

\* Its fields.
LEMMA BeginnerFields ==
    ASSUME NEW a \in CallerType, NEW token \in Tokens, NEW relatch \in BOOLEAN
    PROVE  LET new == Beginner(a, token, relatch) IN
           /\ new \in CallerType /\ new.at = "prepared" /\ new.turn = a.turn
           /\ new.id = a.id /\ new.token = token /\ new.relatch = relatch
<1> DEFINE new == Beginner(a, token, relatch)
<1>1. "prepared" \in Locations
    BY DEF Locations
<1>2. new \in CallerType
    BY <1>1 DEF Beginner, CallerType
<1> QED
    BY <1>2 DEF Beginner, CallerType

\* BeginRequest.
LEMMA BeginInd ==
    ASSUME IndInv, NEW c \in Callers, NEW p \in Plans, Begin(c, p)
    PROVE  IndInv'
<1> DEFINE t == Turn(c)
           r == rec[t]
           displaced == At(c, "planning") /\ Displaced(t, caller[c].token)
           token == IF displaced THEN None ELSE caller[c].token
           restarting == lane.current = None /\ lane.last = t /\ RestartableFailedHead(r)
           unavailable == IF restarting THEN {} ELSE lane.unavailable
           new == Begun(r, caller[c].id, token, p)
           relatch == r.turnState # None /\ PortableContinuation(r, token)
<1>1. /\ lane.current = t \/ restarting
      /\ caller[c].at \in {"reserved", "planning"}
      /\ CanBegin(r) /\ Continuity(r, token, displaced, p) /\ BindingKept(r, new, p)
      /\ rec' = [rec EXCEPT ![t] = new] /\ holder' = [holder EXCEPT ![t] = c]
      /\ lane' = [lane EXCEPT !.current = t, !.unavailable = unavailable]
      /\ gate' = None
      /\ caller' = [caller EXCEPT ![c] = Beginner(caller[c], token, relatch)]
      /\ UNCHANGED <<calls, held, doubt, removed, count>>
    BY DEF Begin, Put, At, Beginner
<1>2. /\ lane \in LaneType /\ rec \in [Turns -> RecordType] /\ CallsTyped
      /\ holder \in [Turns -> Callers \cup {None}] /\ caller \in [Callers -> CallerType]
      /\ held \in [Turns -> Tokens] /\ doubt \in [Turns -> Accounts \cup {None}]
      /\ removed \subseteq Accounts /\ count \in CountType
    BY Types DEF IndInv
<1>3. /\ t \in Turns /\ caller[c].id \in 1..count.requests /\ ~At(c, "idle")
    BY <1>1 DEF IndInv, Asks, At
<1>4. /\ r \in RecordType /\ Kept(t) /\ caller[c] \in CallerType /\ count.requests \in Nat
      /\ caller[c].id \in Nat /\ caller[c].id # 0 /\ caller[c].id <= count.requests
    BY <1>2, <1>3 DEF IndInv, CountType
<1>5. token \in Tokens /\ relatch \in BOOLEAN
    BY <1>4, Constants DEF CallerType
<1>6. /\ new \in RecordType /\ new.state # "none"
      /\ new.id = caller[c].id /\ new.plan = p /\ new.slot = 1 /\ new.attempt = "prepared"
      /\ new.refs = {"routing"} /\ new.turnState = r.turnState
      /\ new.everAdmitted = r.everAdmitted
    BY <1>4, BegunFacts
<1>7. r.turnState # None => r.everAdmitted /\ r.turnState.by = r.account
    BY <1>4 DEF Kept
<1>8. /\ token # None => AccountsOf(p) \subseteq {token.by}
      /\ r.turnState # None =>
           new.account = r.account /\ (relatch \/ AccountsOf(p) \subseteq {new.account})
    BY <1>1, <1>4, <1>7, BegunBound
<1>9. /\ lane' \in LaneType /\ lane'.current = t /\ lane'.last = lane.last
      /\ lane.current \in {t, None} /\ lane.last = t
  <2>1. unavailable \in SUBSET Accounts
      BY <1>2 DEF LaneType
  <2>2. lane.current \in {t, None} /\ lane.last = t
      BY <1>1, <1>3, Constants DEF IndInv, LaneHead
  <2> HIDE DEF unavailable
  <2> QED
      BY <1>1, <1>2, <1>3, <2>1, <2>2 DEF LaneType
<1> HIDE DEF t, r, displaced, token, restarting, unavailable, new, relatch
<1>10. \A d \in Callers : caller[d].at \notin Live
    BY <1>1, <1>3, <1>9, NobodyLive DEF r
<1>11. /\ rec' \in [Turns -> RecordType] /\ rec'[t] = new
       /\ \A u \in Turns : u # t => rec'[u] = rec[u]
       /\ holder' \in [Turns -> Callers \cup {None}] /\ holder'[t] = c
    BY <1>1, <1>2, <1>3, <1>6
<1>12. /\ caller' \in [Callers -> CallerType]
       /\ \A d \in Callers : d # c => caller'[d] = caller[d]
       /\ caller'[c].at = "prepared" /\ caller'[c].turn = t
       /\ caller'[c].id = caller[c].id /\ caller'[c].token = token
       /\ caller'[c].relatch = relatch
  <2>1. LET b == Beginner(caller[c], token, relatch) IN
        /\ b \in CallerType /\ b.at = "prepared" /\ b.turn = caller[c].turn
        /\ b.id = caller[c].id /\ b.token = token /\ b.relatch = relatch
      BY <1>4, <1>5, BeginnerFields
  <2> QED
      BY <1>1, <1>2, <2>1 DEF t, Turn
<1>13. TypeOK'
  <2>1. /\ gate' \in Callers \cup {None} /\ CallsTyped' /\ held' \in [Turns -> Tokens]
        /\ doubt' \in [Turns -> Accounts \cup {None}] /\ removed' \subseteq Accounts
        /\ count' \in CountType
      BY <1>1, <1>2 DEF CallsTyped
  <2> QED
      BY <1>9, <1>11, <1>12, <2>1, TypesNext
<1>14. LaneHead'
    BY <1>9 DEF LaneHead
<1>15. ASSUME NEW u \in Turns PROVE Kept(u)'
  <2>1. CASE u = t
    <3>1. 1 \in 1..Len(p.slots)
        BY PlanSlots
    <3> QED
        BY <1>1, <1>4, <1>6, <1>7, <1>8, <1>11, <2>1, <3>1 DEF Kept
  <2>2. CASE u # t
      BY <1>1, <1>11, <2>2 DEF IndInv, Kept
  <2> QED
      BY <2>1, <2>2
<1>16. \A k \in calls : k.id # caller[c].id
    BY <1>1 DEF IndInv, Unbegun
<1>17. Sent' /\ TokenStaysHome'
    BY <1>1 DEF IndInv, Sent, TokenStaysHome
<1>18. SentIsRemembered'
  <2>1. SUFFICES ASSUME NEW k \in calls, rec'[k.turn].id = k.id, rec'[k.turn].slot = k.slot
                 PROVE  rec'[k.turn].attempt \notin {"prepared", "abandoned"}
      BY <1>1 DEF SentIsRemembered
  <2>2. k.turn \in Turns
      BY <1>2 DEF CallsTyped
  <2>3. CASE k.turn = t
      BY <1>6, <1>11, <1>16, <2>1, <2>3
  <2>4. CASE k.turn # t
      BY <1>11, <2>1, <2>2, <2>4 DEF IndInv, SentIsRemembered
  <2> QED
      BY <2>3, <2>4
<1>19. ASSUME NEW d \in Callers PROVE (Asks(d) /\ Unbegun(d))'
  <2>1. Asks(c) /\ Asks(d) /\ Unbegun(d) /\ t = caller[c].turn
      BY DEF IndInv, t, Turn
  <2>2. \A e \in Callers : ~At(e, "idle")' =>
          ~At(e, "idle") /\ caller'[e].id = caller[e].id /\ caller'[e].turn = caller[e].turn
      BY <1>3, <1>12, <2>1 DEF At
  <2>3. Asks(d)'
      BY <1>1, <2>1, <2>2 DEF Asks, Turn
  <2>4. Unbegun(d)'
      BY <1>1, <1>12, <2>1 DEF Unbegun
  <2> QED
      BY <2>3, <2>4
<1>20. ASSUME NEW d \in Callers PROVE (Holds(d) /\ Tried(d) /\ Bound(d))'
  <2>1. CASE d = c
    <3>1. Turn(c)' = t /\ Rec(c)' = new
        BY <1>11, <1>12 DEF Turn, Rec
    <3>2. Holds(c)'
        BY <1>6, <1>9, <1>11, <1>12, <3>1 DEF Holds, Fenced, At
    <3>3. Tried(c)'
        BY <1>1, <1>12, <1>16 DEF Tried
    <3>4. AccountsOf(Rec(c).plan)' = AccountsOf(p)
        BY <1>6, <3>1 DEF AccountsOf
    <3>5. Bound(c)'
        BY <1>6, <1>8, <1>12, <3>1, <3>4 DEF Bound, At
    <3> QED
        BY <2>1, <3>2, <3>3, <3>5
  <2>2. CASE d # c
    <3>1. caller'[d].at \notin Live
        BY <1>10, <1>12, <2>2
    <3> QED
        BY <3>1 DEF Holds, Tried, Bound
  <2> QED
      BY <2>1, <2>2
<1> QED
    BY <1>13, <1>14, <1>15, <1>17, <1>18, <1>19, <1>20 DEF IndInv

-----------------------------------------------------------------------------
(* Steps that change several records: a successor, a restart, a sweep.     *)

\* Two records of the same request: the journal may change their state, their
\* references and their pin, and an attempt that went out stays one.
SameRequest(r, new) ==
    /\ new.id = r.id /\ new.plan = r.plan /\ new.slot = r.slot
    /\ new.account = r.account /\ new.turnState = r.turnState
    /\ new.everAdmitted = r.everAdmitted
    /\ r.attempt = "none" => new.attempt = "none"
    /\ r.attempt \notin {"prepared", "abandoned"} =>
         new.attempt \notin {"prepared", "abandoned"}

\* A record without a request.
Blank(new) == new.id = 0 /\ new.attempt = "none" /\ new.turnState = None

\* Such changes of the records keep what is known of them and of the calls.
LEMMA RecordsInd ==
    ASSUME IndInv,
           \A t \in Turns : SameRequest(rec[t], rec'[t]) \/ Blank(rec'[t]),
           calls' = calls, count'.requests = count.requests
    PROVE  (\A t \in Turns : Kept(t))' /\ Sent' /\ SentIsRemembered' /\ TokenStaysHome'
<1>1. CallsTyped /\ count \in CountType
    BY Types DEF IndInv
<1>2. ASSUME NEW t \in Turns PROVE Kept(t)'
  <2>1. Kept(t) /\ count.requests \in Nat
      BY <1>1 DEF IndInv, CountType
  <2>2. CASE SameRequest(rec[t], rec'[t])
    <3>1. rec[t].id = 0 => rec[t].attempt = "none"
        BY <2>1 DEF Kept
    <3> QED
        BY <2>1, <2>2, <3>1 DEF Kept, SameRequest
  <2>3. CASE Blank(rec'[t])
      BY <2>1, <2>3 DEF Kept, Blank
  <2> QED
      BY <2>2, <2>3
<1>3. Sent' /\ TokenStaysHome'
    BY DEF IndInv, Sent, TokenStaysHome
<1>4. SentIsRemembered'
  <2>1. SUFFICES ASSUME NEW k \in calls, rec'[k.turn].id = k.id, rec'[k.turn].slot = k.slot
                 PROVE  rec'[k.turn].attempt \notin {"prepared", "abandoned"}
      BY DEF SentIsRemembered
  <2>2. k.turn \in Turns /\ k.id # 0
      BY <1>1 DEF CallsTyped
  <2>3. SameRequest(rec[k.turn], rec'[k.turn])
      BY <2>1, <2>2 DEF Blank
  <2> QED
      BY <2>1, <2>3 DEF IndInv, SentIsRemembered, SameRequest
<1> QED
    BY <1>2, <1>3, <1>4

\* Changes of the state only.
LEMMA WithState ==
    ASSUME NEW r \in RecordType, NEW state \in LeaseStates
    PROVE  /\ [r EXCEPT !.state = state] \in RecordType
           /\ SameRequest(r, [r EXCEPT !.state = state])
           /\ SameRequest(r, r)
<1>1. [r EXCEPT !.state = state] \in RecordType
    BY DEF RecordType
<1> QED
    BY <1>1 DEF RecordType, SameRequest

\* A record without a request, as a reservation or deleted.
LEMMA BlankRecord ==
    ASSUME NEW last \in Turns \cup {None}
    PROVE  LET new == [NoRecord EXCEPT !.state = "reserving", !.pred = last] IN
           /\ new \in RecordType /\ Blank(new) /\ NoRecord \in RecordType /\ Blank(NoRecord)
<1> DEFINE new == [NoRecord EXCEPT !.state = "reserving", !.pred = last]
<1>1. NoRecord \in RecordType /\ Blank(NoRecord)
  <2>1. /\ "none" \in LeaseStates /\ None \in Accounts \cup {None} /\ 0 \in Nat
        /\ NoPlan \in Plans \cup {NoPlan} /\ "none" \in AttemptStates /\ {} \in SUBSET Refs
        /\ None \in Tokens /\ None \in Turns \cup {None}
      BY Constants DEF LeaseStates, AttemptStates
  <2> QED
      BY <2>1 DEF NoRecord, RecordType, Blank
<1>2. "reserving" \in LeaseStates
    BY DEF LeaseStates
<1>3. new \in RecordType /\ Blank(new)
    BY <1>1, <1>2 DEF RecordType, Blank
<1> QED
    BY <1>1, <1>3

\* The head of a lane that may reserve a successor is not in use.
LEMMA ReserveAlone ==
    ASSUME IndInv, NEW t \in Turns, Class(t) = "unseen", PlanningAvailable(t),
           NEW d \in Callers
    PROVE  caller[d].at \notin Live
<1> SUFFICES ASSUME caller[d].at \in Live PROVE FALSE
    OBVIOUS
<1>1. lane.current = Turn(d) /\ Turn(d) \in Turns
    BY LiveRecord
<1>2. lane.last = Turn(d) /\ lane.last # None
    BY <1>1, Constants DEF IndInv, LaneHead
<1>3. Drained(rec[lane.last])
    BY <1>2 DEF PlanningAvailable, CanReserveSuccessor
<1> QED
    BY <1>2, <1>3 DEF IndInv, Holds, Rec, Drained

\* A turn becomes the head of the lane.
LEMMA ReserveInd ==
    ASSUME IndInv, NEW c \in Callers, NEW p \in Plans, Reserve(c, p)
    PROVE  IndInv'
<1> DEFINE t == Turn(c)
           superseded == lane.current # None
           blank == [NoRecord EXCEPT !.state = "reserving", !.pred = lane.last]
<1>1. /\ caller[c].at = "planning" /\ Class(t) = "unseen" /\ PlanningAvailable(t)
      /\ rec' = [u \in Turns |->
           IF u = t THEN blank
           ELSE IF superseded /\ u = lane.current
                THEN [rec[u] EXCEPT !.state = "superseded"] ELSE rec[u]]
      /\ holder' = [u \in Turns |->
           IF u = t THEN c
           ELSE IF superseded /\ u = lane.current THEN None ELSE holder[u]]
      /\ lane' = [current |-> t, last |-> t, unavailable |-> {},
                  exhausted |-> lane.exhausted]
      /\ caller' = [caller EXCEPT ![c].at = "reserved", ![c].plan = p]
      /\ UNCHANGED <<gate, calls, held, doubt, removed, count>>
    BY DEF Reserve, At
<1>2. /\ lane \in LaneType /\ rec \in [Turns -> RecordType] /\ CallsTyped
      /\ holder \in [Turns -> Callers \cup {None}] /\ caller \in [Callers -> CallerType]
      /\ held \in [Turns -> Tokens] /\ doubt \in [Turns -> Accounts \cup {None}]
      /\ removed \subseteq Accounts /\ count \in CountType /\ gate \in Callers \cup {None}
    BY Types DEF IndInv
<1>3. t \in Turns /\ ~At(c, "idle")
    BY <1>1 DEF IndInv, Asks, At
<1>4. \A d \in Callers : caller[d].at \notin Live
    BY <1>1, <1>3, ReserveAlone
<1>5. lane' \in LaneType /\ lane'.current = lane'.last /\ lane.last \in Turns \cup {None}
    BY <1>1, <1>2, <1>3 DEF LaneType
<1>6. blank \in RecordType /\ Blank(blank)
    BY <1>5, BlankRecord
<1> HIDE DEF blank, t, superseded
<1>7. /\ rec' \in [Turns -> RecordType]
      /\ \A u \in Turns : SameRequest(rec[u], rec'[u]) \/ Blank(rec'[u])
  <2>1. "superseded" \in LeaseStates
      BY DEF LeaseStates
  <2>2. ASSUME NEW u \in Turns
        PROVE  rec'[u] \in RecordType /\ (SameRequest(rec[u], rec'[u]) \/ Blank(rec'[u]))
    <3>1. CASE u = t
        BY <1>1, <1>6, <3>1
    <3>2. CASE u # t /\ superseded /\ u = lane.current
      <4>1. rec'[u] = [rec[u] EXCEPT !.state = "superseded"] /\ rec[u] \in RecordType
          BY <1>1, <1>2, <3>2
      <4> QED
          BY <2>1, <4>1, WithState
    <3>3. CASE u # t /\ ~(superseded /\ u = lane.current)
      <4>1. rec'[u] = rec[u] /\ rec[u] \in RecordType
          BY <1>1, <1>2, <3>3
      <4> QED
          BY <2>1, <4>1, WithState
    <3> QED
        BY <3>1, <3>2, <3>3
  <2>3. rec' = [u \in Turns |-> rec'[u]]
      BY <1>1
  <2> QED
      BY <2>2, <2>3
<1>8. holder' \in [Turns -> Callers \cup {None}]
    BY <1>1, <1>2
<1>9. /\ caller' \in [Callers -> CallerType]
      /\ \A d \in Callers : d # c => caller'[d] = caller[d]
      /\ caller'[c].at = "reserved" /\ caller'[c].turn = caller[c].turn
      /\ caller'[c].id = caller[c].id
  <2> DEFINE moved == [caller[c] EXCEPT !.at = "reserved", !.plan = p]
  <2>1. caller' = [d \in Callers |-> IF d = c THEN moved ELSE caller[d]]
      BY <1>1, <1>2 DEF CallerType
  <2>2. caller[c] \in CallerType /\ "reserved" \in Locations /\ p \in Plans \cup {NoPlan}
      BY <1>2 DEF Locations
  <2>3. moved \in CallerType
      BY <2>2, Zenon DEF CallerType
  <2>4. moved.at = "reserved" /\ moved.turn = caller[c].turn /\ moved.id = caller[c].id
      BY <2>2 DEF CallerType
  <2> HIDE DEF moved
  <2> QED
      BY <2>1, <2>3, <2>4, <1>2
<1>10. TypeOK'
  <2>1. /\ gate' \in Callers \cup {None} /\ CallsTyped' /\ held' \in [Turns -> Tokens]
        /\ doubt' \in [Turns -> Accounts \cup {None}] /\ removed' \subseteq Accounts
        /\ count' \in CountType
      BY <1>1, <1>2 DEF CallsTyped
  <2> QED
      BY <1>5, <1>7, <1>8, <1>9, <2>1, TypesNext
<1>11. LaneHead'
    BY <1>5 DEF LaneHead
<1>12. (\A u \in Turns : Kept(u))' /\ Sent' /\ SentIsRemembered' /\ TokenStaysHome'
  <2>1. calls' = calls /\ count'.requests = count.requests
      BY <1>1
  <2> QED
      BY <1>7, <2>1, RecordsInd
<1>13. ASSUME NEW d \in Callers PROVE (Asks(d) /\ Unbegun(d))'
  <2>1. Asks(c) /\ Unbegun(c) /\ Asks(d) /\ Unbegun(d)
      BY DEF IndInv
  <2>2. \A e \in Callers : ~At(e, "idle")' =>
          ~At(e, "idle") /\ caller'[e].id = caller[e].id /\ caller'[e].turn = caller[e].turn
      BY <1>3, <1>9 DEF At
  <2>3. Asks(d)'
      BY <1>1, <2>1, <2>2 DEF Asks, Turn
  <2>4. CASE d = c
      BY <1>1, <1>9, <2>1, <2>3, <2>4 DEF Unbegun
  <2>5. CASE d # c
      BY <1>1, <1>9, <2>1, <2>3, <2>5 DEF Unbegun
  <2> QED
      BY <2>4, <2>5
<1>14. ASSUME NEW d \in Callers PROVE (Holds(d) /\ Tried(d) /\ Bound(d))'
  <2>1. caller'[d].at \notin Live
    <3>1. "reserved" \notin Live
        BY DEF Live
    <3> QED
        BY <1>4, <1>9, <3>1
  <2> QED
      BY <2>1 DEF Holds, Tried, Bound
<1> QED
    BY <1>10, <1>11, <1>12, <1>13, <1>14 DEF IndInv

\* What a restart makes of a record.
LEMMA NormalisedRecord ==
    ASSUME NEW r \in RecordType
    PROVE  Normalised(r) \in RecordType /\ SameRequest(r, Normalised(r))
<1> DEFINE uncertain == r.attempt \in {"dispatched", "streaming"}
           state == IF r.state = "reserving" THEN "failed_unadmitted"
                    ELSE IF \/ uncertain
                            \/ r.attempt = "prepared" /\ r.everAdmitted
                            \/ r.state \in {"continuation_pending", "bound_quiescent"}
                    THEN "orphaned" ELSE r.state
           pinned == r.nonMigratable \/ uncertain
           attempt == IF uncertain THEN "indeterminate"
                      ELSE IF r.attempt = "prepared" THEN "abandoned" ELSE r.attempt
           new == [r EXCEPT !.refs = {}, !.state = state, !.nonMigratable = pinned,
                            !.attempt = attempt]
<1>1. Normalised(r) = new
    BY DEF Normalised
<1>2. state \in LeaseStates
    BY DEF RecordType, LeaseStates
<1>3. attempt \in AttemptStates /\ (r.attempt = "none" => attempt = "none")
      /\ (r.attempt \notin {"prepared", "abandoned"} => attempt \notin {"prepared", "abandoned"})
    BY DEF RecordType, AttemptStates
<1>4. pinned \in BOOLEAN
  <2>1. uncertain \in BOOLEAN /\ r.nonMigratable \in BOOLEAN
      BY DEF RecordType
  <2> HIDE DEF uncertain
  <2> QED
      BY <2>1
<1> HIDE DEF uncertain, state, pinned, attempt
<1>5. new \in RecordType /\ new.attempt = attempt /\ new.id = r.id /\ new.plan = r.plan
      /\ new.slot = r.slot /\ new.account = r.account /\ new.turnState = r.turnState
      /\ new.everAdmitted = r.everAdmitted
    BY <1>2, <1>3, <1>4 DEF RecordType
<1> HIDE DEF new
<1> QED
    BY <1>1, <1>3, <1>5 DEF SameRequest

\* The proxy dies and opens the journal again.
LEMMA RestartInd ==
    ASSUME IndInv, Restart
    PROVE  IndInv'
<1>1. /\ lane \in LaneType /\ rec \in [Turns -> RecordType] /\ CallsTyped
      /\ held \in [Turns -> Tokens] /\ doubt \in [Turns -> Accounts \cup {None}]
      /\ removed \subseteq Accounts /\ count \in CountType
    BY Types DEF IndInv
<1>2. /\ rec' = [t \in Turns |-> Normalised(rec[t])]
      /\ lane' = IF lane.current # None /\ rec[lane.current].state = "reserving"
                 THEN [lane EXCEPT !.current = None] ELSE lane
      /\ doubt' = [t \in Turns |->
           IF rec[t].attempt \in {"dispatched", "streaming"}
           THEN AttemptAccount(rec[t]) ELSE doubt[t]]
      /\ holder' = [t \in Turns |-> None]
      /\ gate' = None /\ caller' = [c \in Callers |-> Idle]
      /\ count' = [count EXCEPT !.restarts = @ + 1]
      /\ UNCHANGED <<calls, held, removed>>
    BY DEF Restart
<1>3. rec' \in [Turns -> RecordType] /\ \A t \in Turns : SameRequest(rec[t], rec'[t])
    BY <1>1, <1>2, NormalisedRecord
<1>4. lane' \in LaneType /\ lane'.last = lane.last /\ lane'.current \in {lane.current, None}
    BY <1>1, <1>2 DEF LaneType
<1>5. count' \in CountType /\ count'.requests = count.requests
    BY <1>1, <1>2 DEF CountType
<1>6. Idle \in CallerType /\ Idle.at = "idle"
    BY Constants DEF Idle, CallerType, Locations
<1>7. caller' \in [Callers -> CallerType] /\ \A c \in Callers : caller'[c].at = "idle"
    BY <1>2, <1>6
<1>8. doubt' \in [Turns -> Accounts \cup {None}]
  <2>1. ASSUME NEW t \in Turns, rec[t].attempt \in {"dispatched", "streaming"}
        PROVE  AttemptAccount(rec[t]) \in Accounts
    <3>1. /\ rec[t] \in RecordType /\ rec[t].plan \in Plans
          /\ rec[t].slot \in 1..Len(rec[t].plan.slots)
        BY <1>1, <2>1 DEF IndInv, Kept
    <3> QED
        BY <3>1, NextSlot
  <2> QED
      BY <1>1, <1>2, <2>1
<1>9. TypeOK'
  <2>1. /\ gate' \in Callers \cup {None} /\ CallsTyped' /\ held' \in [Turns -> Tokens]
        /\ removed' \subseteq Accounts /\ holder' \in [Turns -> Callers \cup {None}]
      BY <1>1, <1>2 DEF CallsTyped
  <2> QED
      BY <1>3, <1>4, <1>5, <1>7, <1>8, <2>1, TypesNext
<1>10. LaneHead'
    BY <1>4 DEF IndInv, LaneHead
<1>11. (\A t \in Turns : Kept(t))' /\ Sent' /\ SentIsRemembered' /\ TokenStaysHome'
  <2>1. calls' = calls
      BY <1>2
  <2> QED
      BY <1>3, <1>5, <2>1, RecordsInd
<1>12. ASSUME NEW d \in Callers PROVE (Asks(d) /\ Unbegun(d) /\ Holds(d) /\ Tried(d) /\ Bound(d))'
    BY <1>7 DEF Asks, Unbegun, Holds, Tried, Bound, At, Live
<1> QED
    BY <1>9, <1>10, <1>11, <1>12 DEF IndInv

\* The retention sweep passes by a record that keeps a reference.
LEMMA SweepInd ==
    ASSUME IndInv, NEW old \in SUBSET Turns, Sweep(old)
    PROVE  IndInv'
<1> DEFINE stale == {t \in old : rec[t].state # "none" /\ Extinct(rec[t])}
           dead == {t \in stale : rec[t].state \in {"bound_quiescent", "orphaned",
                                    "superseded", "expired", "failed_unadmitted"}}
           named == {rec[t].pred : t \in {u \in Turns : rec[u].state # "none"} \ dead}
           expired == (stale \ dead) \ named
           survivors == {t \in Turns : rec[t].state # "none"} \ dead
           deleted == IF survivors = {} THEN dead ELSE dead \ {lane.last}
<1>1. /\ lane \in LaneType /\ rec \in [Turns -> RecordType] /\ CallsTyped
      /\ holder \in [Turns -> Callers \cup {None}] /\ caller \in [Callers -> CallerType]
      /\ held \in [Turns -> Tokens] /\ doubt \in [Turns -> Accounts \cup {None}]
      /\ removed \subseteq Accounts /\ count \in CountType /\ gate \in Callers \cup {None}
    BY Types DEF IndInv
<1>2. /\ rec' = [t \in Turns |->
           IF t \in deleted THEN NoRecord
           ELSE IF t \in expired THEN [rec[t] EXCEPT !.state = "expired"] ELSE rec[t]]
      /\ lane' = IF survivors = {} THEN NoLane
                 ELSE IF lane.current \in expired THEN [lane EXCEPT !.current = None] ELSE lane
      /\ holder' = [t \in Turns |-> IF t \in deleted \cup expired THEN None ELSE holder[t]]
      /\ count' = [count EXCEPT !.sweeps = @ + 1]
      /\ UNCHANGED <<gate, caller, calls, held, doubt, removed>>
    BY DEF Sweep
<1>3. ASSUME NEW t \in Turns, rec[t].refs # {}, rec[t].state # "none"
      PROVE  t \notin deleted /\ t \notin expired /\ survivors # {}
    BY <1>3 DEF Extinct
<1> HIDE DEF stale, dead, named, expired, survivors, deleted
<1>4. /\ rec' \in [Turns -> RecordType]
      /\ \A t \in Turns : SameRequest(rec[t], rec'[t]) \/ Blank(rec'[t])
  <2>1. "expired" \in LeaseStates /\ NoRecord \in RecordType /\ Blank(NoRecord)
      BY BlankRecord DEF LeaseStates
  <2>2. ASSUME NEW t \in Turns
        PROVE  rec'[t] \in RecordType /\ (SameRequest(rec[t], rec'[t]) \/ Blank(rec'[t]))
    <3>1. CASE t \in deleted
        BY <1>2, <2>1, <3>1
    <3>2. CASE t \notin deleted /\ t \in expired
      <4>1. rec'[t] = [rec[t] EXCEPT !.state = "expired"] /\ rec[t] \in RecordType
          BY <1>1, <1>2, <3>2
      <4> QED
          BY <2>1, <4>1, WithState
    <3>3. CASE t \notin deleted /\ t \notin expired
      <4>1. rec'[t] = rec[t] /\ rec[t] \in RecordType
          BY <1>1, <1>2, <3>3
      <4> QED
          BY <2>1, <4>1, WithState
    <3> QED
        BY <3>1, <3>2, <3>3
  <2>3. rec' = [t \in Turns |-> rec'[t]]
      BY <1>2
  <2> QED
      BY <2>2, <2>3
<1>5. /\ lane' \in LaneType /\ (lane'.current # None => lane'.last = lane'.current)
  <2>1. NoLane \in LaneType /\ NoLane.current = None
      BY DEF NoLane, LaneType
  <2>2. /\ [lane EXCEPT !.current = None] \in LaneType
        /\ [lane EXCEPT !.current = None].current = None
      BY <1>1 DEF LaneType
  <2>3. lane.current # None => lane.last = lane.current
      BY DEF IndInv, LaneHead
  <2> QED
      BY <1>1, <1>2, <2>1, <2>2, <2>3
<1>6. count' \in CountType /\ count'.requests = count.requests
    BY <1>1, <1>2 DEF CountType
<1>7. TypeOK'
  <2>1. /\ gate' \in Callers \cup {None} /\ CallsTyped' /\ held' \in [Turns -> Tokens]
        /\ doubt' \in [Turns -> Accounts \cup {None}] /\ removed' \subseteq Accounts
        /\ caller' \in [Callers -> CallerType] /\ holder' \in [Turns -> Callers \cup {None}]
      BY <1>1, <1>2 DEF CallsTyped
  <2> QED
      BY <1>4, <1>5, <1>6, <2>1, TypesNext
<1>8. LaneHead'
    BY <1>5 DEF LaneHead
<1>9. (\A t \in Turns : Kept(t))' /\ Sent' /\ SentIsRemembered' /\ TokenStaysHome'
  <2>1. calls' = calls
      BY <1>2
  <2> QED
      BY <1>4, <1>6, <2>1, RecordsInd
<1>10. ASSUME NEW d \in Callers PROVE (Asks(d) /\ Unbegun(d))'
    BY <1>2, <1>6 DEF IndInv, Asks, Unbegun, At, Turn
<1>11. ASSUME NEW d \in Callers PROVE (Holds(d) /\ Tried(d) /\ Bound(d))'
  <2>1. CASE caller[d].at \notin Live
      BY <1>2, <2>1 DEF Holds, Tried, Bound
  <2>2. CASE caller[d].at \in Live
    <3>1. Holds(d) /\ Tried(d) /\ Bound(d) /\ Turn(d) \in Turns /\ lane.current = Turn(d)
        BY <2>2, LiveRecord DEF IndInv
    <3>2. Rec(d).refs # {} /\ Rec(d).state # "none" /\ Rec(d) = rec[Turn(d)]
        BY <2>2, <3>1 DEF Holds, Rec
    <3>3. /\ rec'[Turn(d)] = rec[Turn(d)] /\ holder'[Turn(d)] = holder[Turn(d)]
          /\ lane' = lane
        BY <1>2, <1>3, <3>1, <3>2
    <3>4. Turn(d)' = Turn(d) /\ Rec(d)' = Rec(d) /\ Fenced(d)' = Fenced(d)
        BY <1>2, <3>3 DEF Turn, Rec, Fenced
    <3>5. Holds(d)'
        BY <1>2, <3>1, <3>4 DEF Holds, At
    <3>6. (Tried(d) /\ Bound(d))'
        BY <1>2, <3>1, <3>4 DEF Tried, Bound, At
    <3> QED
        BY <3>5, <3>6
  <2> QED
      BY <2>1, <2>2
<1> QED
    BY <1>7, <1>8, <1>9, <1>10, <1>11 DEF IndInv

-----------------------------------------------------------------------------
(* Every step, and the theorems.                                           *)

\* What a caller does keeps the invariant.
LEMMA CallerInd ==
    ASSUME IndInv, NEW c \in Callers, AcquirePlanning(c) \/ Plan(c) \/ Attempt(c) \/ Observe(c)
    PROVE  IndInv'
<1>1. CASE AcquirePlanning(c)
    BY <1>1, QueueInd
<1>2. CASE Plan(c)
  <2>1. count.limit.plans \subseteq Plans
      BY Types, PlanAssumption DEF IndInv, CountType
  <2>2. ASSUME NEW p \in Plans, Reserve(c, p) \/ Begin(c, p) PROVE IndInv'
      BY <2>2, ReserveInd, BeginInd
  <2> QED
      BY <1>2, <2>1, <2>2, PlainInd DEF Plan
<1>3. CASE Attempt(c)
  <2>1. ASSUME NEW quota \in BOOLEAN, FailOver(c, quota) \/ Exhausted(c, quota) PROVE IndInv'
      BY <2>1, UnavailableInd DEF FailOver, Exhausted
  <2>2. CASE UnavailableBeforeDispatch(c)
      BY <2>2, UnavailableInd DEF UnavailableBeforeDispatch
  <2>3. CASE \/ TransportError(c) \/ UnavailableNotRecorded(c) \/ RetryNotRecorded(c)
             \/ ExhaustedNotRecorded(c) \/ CompleteCycle(c) \/ ReplanCycle(c)
      BY <2>3, PlainInd
  <2>4. CASE \/ MarkDispatched(c) \/ Send(c) \/ Abandon(c) \/ RejectAndPrepare(c)
             \/ FinishRejected(c)
      BY <2>4, MarkInd, SendInd, AbandonInd, RejectInd, FinishInd
  <2> QED
      BY <1>3, <2>1, <2>2, <2>3, <2>4 DEF Attempt
<1>4. CASE Observe(c)
  <2>1. CASE (\E issued \in BOOLEAN : Admit(c, issued)) \/ StreamedTurnState(c)
      BY <2>1, AdmitInd
  <2>2. CASE AdmitNotRecorded(c) \/ DoubtNotRecorded(c)
      BY <2>2, PlainInd
  <2>5. CASE \E quota \in BOOLEAN : StreamUnavailable(c, quota)
      BY <2>5, UnavailableInd DEF StreamUnavailable
  <2>3. CASE \E endTurn \in BOOLEAN : Complete(c, endTurn)
      BY <2>3, CompleteInd
  <2>4. CASE ProviderFails(c) \/ Indeterminate(c) \/ Drain(c)
      BY <2>4, ProviderFailsInd, IndeterminateInd, DrainInd
  <2> QED
      BY <1>4, <2>1, <2>2, <2>3, <2>4, <2>5 DEF Observe
<1> QED
    BY <1>1, <1>2, <1>3, <1>4

\* Every step keeps the invariant.
LEMMA NextInd ==
    ASSUME IndInv, [Next]_vars
    PROVE  IndInv'
<1>1. ASSUME NEW c \in Callers, AcquirePlanning(c) \/ Plan(c) \/ Attempt(c) \/ Observe(c)
      PROVE  IndInv'
    BY <1>1, CallerInd
<1>2. CASE Environment
  <2>1. ASSUME NEW c \in Callers, NEW t \in Turns, NEW token, NewRequest(c, t, token)
        PROVE  IndInv'
      BY <2>1, NewRequestInd
  <2>2. ASSUME NEW c \in Callers, Cancel(c) PROVE IndInv'
      BY <2>2, QueueInd
  <2>3. ASSUME NEW k \in calls, NEW fate \in {"accepted", "rejected"}, Decide(k, fate)
        PROVE  IndInv'
      BY <2>3, DecideInd
  <2>4. ASSUME NEW a \in Accounts, Remove(a) PROVE IndInv'
      BY <2>4, RemoveInd
  <2>5. ASSUME NEW old \in SUBSET Turns, Sweep(old) PROVE IndInv'
      BY <2>5, SweepInd
  <2> QED
      BY <1>2, <2>1, <2>2, <2>3, <2>4, <2>5, RestartInd DEF Environment
<1>3. CASE UNCHANGED vars
  <2>1. UNCHANGED <<lane, rec, holder, gate, caller, calls, held, doubt, removed, count>>
      BY <1>3 DEF vars
  <2>2. TypeOK' /\ LaneHead' /\ Sent' /\ SentIsRemembered' /\ TokenStaysHome'
      BY <2>1 DEF IndInv, TypeOK, LaneHead, Sent, SentIsRemembered, TokenStaysHome
  <2>3. \A t \in Turns : Kept(t)'
      BY <2>1 DEF IndInv, Kept
  <2>4. ASSUME NEW c \in Callers PROVE (Asks(c) /\ Unbegun(c) /\ Holds(c))'
      BY <2>1 DEF IndInv, Asks, Unbegun, Holds, Fenced, Rec, Turn, At
  <2>5. ASSUME NEW c \in Callers PROVE (Tried(c) /\ Bound(c))'
      BY <2>1 DEF IndInv, Tried, Bound, Rec, Turn, At
  <2> QED
      BY <2>2, <2>3, <2>4, <2>5 DEF IndInv
<1> QED
    BY <1>1, <1>2, <1>3 DEF Next

\* The invariant holds at the start.
LEMMA InitInd ==
    ASSUME Init
    PROVE  IndInv
<1>1. /\ lane = NoLane /\ rec = [t \in Turns |-> NoRecord]
      /\ holder = [t \in Turns |-> None] /\ gate = None /\ caller = [c \in Callers |-> Idle]
      /\ calls = {} /\ held = [t \in Turns |-> None] /\ doubt = [t \in Turns |-> None]
      /\ removed = {} /\ count \in CountType
    BY DEF Init, CountType
<1>2. /\ NoRecord \in RecordType /\ Blank(NoRecord)
      /\ Idle \in CallerType /\ Idle.at = "idle" /\ NoLane \in LaneType /\ NoLane.current = None
  <2>1. NoRecord \in RecordType /\ Blank(NoRecord)
      BY BlankRecord
  <2>2. Idle \in CallerType /\ Idle.at = "idle"
      BY Constants DEF Idle, CallerType, Locations
  <2>3. NoLane \in LaneType /\ NoLane.current = None
      BY DEF NoLane, LaneType
  <2> QED
      BY <2>1, <2>2, <2>3
<1>3. TypeOK
    BY <1>1, <1>2, Constants, Types DEF CallsTyped
<1>4. LaneHead /\ Sent /\ SentIsRemembered /\ TokenStaysHome
    BY <1>1, <1>2 DEF LaneHead, Sent, SentIsRemembered, TokenStaysHome
<1>5. ASSUME NEW t \in Turns PROVE Kept(t)
  <2>1. rec[t] = NoRecord /\ count.requests \in Nat
      BY <1>1 DEF CountType
  <2> QED
      BY <1>2, <2>1 DEF Kept, Blank
<1>6. ASSUME NEW c \in Callers PROVE Asks(c) /\ Unbegun(c) /\ Holds(c) /\ Tried(c) /\ Bound(c)
  <2>1. caller[c].at = "idle"
      BY <1>1, <1>2
  <2> QED
      BY <2>1 DEF Asks, Unbegun, Holds, Tried, Bound, At, Live
<1> QED
    BY <1>3, <1>4, <1>5, <1>6 DEF IndInv

\* IndInv is an invariant of the lease: it holds at the start, and every commit,
\* answer, restart and sweep keeps it.
THEOREM LeaseInvariant == Spec => []IndInv
<1>1. Init => IndInv
    BY InitInd
<1>2. IndInv /\ [Next]_vars => IndInv'
    BY NextInd
<1> QED
    BY <1>1, <1>2, PTL DEF Spec

\* The lane, its records, the callers and the calls stay within their types.
THEOREM LeaseTypeCorrect == Spec => []TypeOK
<1>1. IndInv => TypeOK
    BY DEF IndInv
<1> QED
    BY <1>1, LeaseInvariant, PTL

\* Two requests of a lane never overlap: a second one is not begun before the
\* first has finished its attempt and drained its response.
THEOREM OneRequestLives == Spec => []OneLiveRequest
<1>1. ASSUME IndInv PROVE OneLiveRequest
  <2> DEFINE S == {c \in Callers : caller[c].at \in Live}
  <2>1. \A c, d \in S : c = d
      BY <1>1, OthersWait
  <2>2. CASE S = {}
      BY <2>2, FS_EmptySet DEF OneLiveRequest
  <2>3. CASE S # {}
    <3>1. PICK c \in S : TRUE
        BY <2>3
    <3>2. S = {c}
        BY <2>1, <3>1
    <3>3. Cardinality({c}) = 1
        BY FS_Singleton
    <3> QED
        BY <3>2, <3>3 DEF OneLiveRequest
  <2> QED
      BY <2>2, <2>3
<1> QED
    BY <1>1, LeaseInvariant, PTL

\* Of all the attempts of a request at most one is accepted or may still be:
\* the next is prepared only after a definite rejection.
THEOREM AcceptedAtMostOnce == Spec => []AcceptedOnce
<1>1. ASSUME IndInv PROVE AcceptedOnce
  <2> SUFFICES ASSUME NEW id \in 1..count.requests
               PROVE  Cardinality({k \in calls : k.id = id /\ k.fate # "rejected"}) <= 1
      BY DEF AcceptedOnce
  <2> DEFINE S == {k \in calls : k.id = id /\ k.fate # "rejected"}
  <2>1. \A k, j \in S : k = j
      BY <1>1 DEF IndInv, Sent
  <2>2. CASE S = {}
      BY <2>2, FS_EmptySet
  <2>3. CASE S # {}
    <3>1. PICK k \in S : TRUE
        BY <2>3
    <3>2. S = {k}
        BY <2>1, <3>1
    <3>3. Cardinality({k}) = 1
        BY FS_Singleton
    <3> QED
        BY <3>2, <3>3
  <2> QED
      BY <2>2, <2>3
<1> QED
    BY <1>1, LeaseInvariant, PTL

\* An attempt that went out is never on record as one that did not, through
\* failovers, restarts and the retention of old records.
THEOREM SentStaysRemembered == Spec => []SentIsRemembered
<1>1. IndInv => SentIsRemembered
    BY DEF IndInv
<1> QED
    BY <1>1, LeaseInvariant, PTL

\* A turn state is sent to no other account than the one that issued it.
THEOREM TokensStayHome == Spec => []TokenStaysHome
<1>1. IndInv => TokenStaysHome
    BY DEF IndInv
<1> QED
    BY <1>1, LeaseInvariant, PTL

-----------------------------------------------------------------------------
(* The lane of LaneRequest: its state, and its steps.                      *)

\* The lease as LaneRequest sees it, with Fate for the call.
LaneUser == IF LastRecord.refs = {} THEN None ELSE lane.last
Judged == Verdict(LastRecord.attempt)

LaneStep == [Lane!Next]_(Lane!vars)

\* A record that keeps a reference is the last turn's, and of a request with an
\* attempt; an attempt that is under way keeps one.  An attempt that is prepared
\* was not sent, and one whose response is read has been accepted.
Pending == {"prepared", "dispatched", "streaming"}
Lends(t) ==
    /\ rec[t].refs # {} =>
         /\ t = lane.last /\ rec[t].id # 0
         /\ rec[t].state # "none" /\ rec[t].attempt # "none"
    /\ rec[t].attempt \in Pending => rec[t].refs # {}
Lent ==
    /\ \A t \in Turns : Lends(t)
    /\ LastRecord.attempt = "prepared" => Fate = "none"
    /\ \A c \in Callers : At(c, "streaming") => Fate = "answered"

LEMMA SameLane ==
    ASSUME LaneUser' = LaneUser, Fate' = Fate, Judged' = Judged
    PROVE  LaneStep
BY DEF LaneStep, Lane!vars, LaneUser, Judged

LEMMA BeginLane ==
    ASSUME LaneUser = None, NEW t \in Turns, LaneUser' = t, Fate' = "none", Judged' = "none"
    PROVE  LaneStep
<1>1. Lane!Begin(t)
    BY DEF Lane!Begin, LaneUser, Judged
<1> QED
    BY <1>1 DEF LaneStep, Lane!Next

LEMMA SendLane ==
    ASSUME LaneUser # None, Judged = "none", Fate = "none",
           LaneUser' = LaneUser, Judged' = Judged, Fate' = "open"
    PROVE  LaneStep
<1>1. Lane!Send
    BY DEF Lane!Send, LaneUser, Judged
<1> QED
    BY <1>1 DEF LaneStep, Lane!Next

LEMMA DecideLane ==
    ASSUME Fate = "open", Fate' \in {"refused", "answered"},
           LaneUser' = LaneUser, Judged' = Judged
    PROVE  LaneStep
<1>1. Lane!Decide
    BY DEF Lane!Decide, LaneUser, Judged
<1> QED
    BY <1>1 DEF LaneStep, Lane!Next

LEMMA RetryLane ==
    ASSUME LaneUser # None, Judged = "none", Fate \in {"none", "refused"},
           LaneUser' = LaneUser, Judged' = Judged, Fate' = "none"
    PROVE  LaneStep
<1>1. CASE Fate = "none"
    BY <1>1, SameLane
<1>2. CASE Fate = "refused"
  <2>1. Lane!Retry
      BY <1>2 DEF Lane!Retry, LaneUser, Judged
  <2> QED
      BY <2>1 DEF LaneStep, Lane!Next
<1> QED
    BY <1>1, <1>2

LEMMA ConcludeLane ==
    ASSUME LaneUser # None, Judged = "none", Fate' = Fate, LaneUser' \in {LaneUser, None},
           Judged' \in {"doubt", "settled"}, Judged' = "settled" => Fate # "open"
    PROVE  LaneStep
<1>1. Judged' \in (IF Fate' = "open" THEN {"doubt"} ELSE {"doubt", "settled"})
    OBVIOUS
<1>2. Lane!Conclude
    BY <1>1 DEF Lane!Conclude, LaneUser, Judged
<1> QED
    BY <1>2 DEF LaneStep, Lane!Next

LEMMA ReleaseLane ==
    ASSUME LaneUser # None, Judged # "none", LaneUser' = None, Fate' = Fate, Judged' = Judged
    PROVE  LaneStep
<1>1. Lane!Release
    BY DEF Lane!Release, LaneUser, Judged
<1> QED
    BY <1>1 DEF LaneStep, Lane!Next

LEMMA ForgetLane ==
    ASSUME LaneUser = None, LaneUser' = None, Fate' = "none", Judged' = "none"
    PROVE  LaneStep
<1>1. Lane!Forget
    BY DEF Lane!Forget, LaneUser, Judged
<1> QED
    BY <1>1 DEF LaneStep, Lane!Next

\* How attempts appear.
LEMMA Verdicts ==
    /\ Verdict("indeterminate") = "doubt" /\ Verdict("none") = "none"
    /\ \A a \in Pending : Verdict(a) = "none"
    /\ \A a : TerminalForRequest(a) /\ a # "indeterminate" => Verdict(a) = "settled"
    /\ \A a : TerminalForRequest(a) => Verdict(a) # "none"
    /\ \A a \in AttemptStates : a \in Pending \/ a = "none" \/ TerminalForRequest(a)
BY DEF Verdict, TerminalForRequest, Pending, AttemptStates

-----------------------------------------------------------------------------
(* The call of the last record.                                            *)

\* There is one call at most, and it is what LaneRequest sees.
LEMMA FateOf ==
    ASSUME IndInv, NEW k \in LastCalls
    PROVE  /\ LastCalls = {k} /\ k \in calls /\ k.fate \in {"open", "accepted", "rejected"}
           /\ Fate = IF k.fate = "open" THEN "open"
                     ELSE IF k.fate = "accepted" THEN "answered" ELSE "refused"
<1>1. k \in calls /\ k.fate \in {"open", "accepted", "rejected"}
    BY Types DEF IndInv, CallsTyped, LastCalls
<1>2. LastCalls = {k}
    BY DEF IndInv, Sent, LastCalls
<1>3. /\ LastCalls # {}
      /\ (\E j \in LastCalls : j.fate = "rejected") <=> k.fate = "rejected"
      /\ (\E j \in LastCalls : j.fate = "accepted") <=> k.fate = "accepted"
    BY <1>2
<1> QED
    BY <1>1, <1>2, <1>3 DEF Fate

\* The call is the same while request and slot are.
LEMMA FateSame ==
    ASSUME calls' = calls, LastRecord'.id = LastRecord.id, LastRecord'.slot = LastRecord.slot
    PROVE  Fate' = Fate
<1>1. LastCalls' = LastCalls
    BY DEF LastCalls
<1> QED
    BY <1>1 DEF Fate

\* No request, no call.
LEMMA NoRequestNoCall ==
    ASSUME CallsTyped, LastRecord.id = 0
    PROVE  Fate = "none"
<1>1. LastCalls = {}
    BY DEF LastCalls, CallsTyped
<1> QED
    BY <1>1 DEF Fate

\* The record without a lane.
LEMMA NoRecordFields ==
    /\ NoRecord.refs = {} /\ NoRecord.attempt = "none" /\ NoRecord.id = 0
    /\ NoRecord.slot = 0 /\ NoRecord.state = "none" /\ NoLane.last = None
BY DEF NoRecord, NoLane

\* The last record of a lane that has one.
LEMMA LastIs ==
    ASSUME IndInv
    PROVE  /\ lane.last \in Turns \cup {None} /\ None \notin Turns
           /\ lane.last \in Turns => LastRecord = rec[lane.last]
           /\ lane.last = None => LastRecord = NoRecord
           /\ lane.last # None => lane.last \in Turns
BY Types, Constants DEF IndInv, LaneType, LastRecord

-----------------------------------------------------------------------------
(* The lane of a live caller.                                              *)

\* It is the caller's turn that has the lane.
LEMMA LiveLane ==
    ASSUME IndInv, NEW c \in Callers, caller[c].at \in Live
    PROVE  /\ lane.last = Turn(c) /\ Turn(c) \in Turns /\ LastRecord = Rec(c)
           /\ LaneUser = Turn(c) /\ LaneUser # None
           /\ Rec(c).refs # {} /\ Rec(c).state # "none" /\ Rec(c).id = caller[c].id
           /\ Rec(c).id # 0
<1>1. /\ lane.current = Turn(c) /\ Turn(c) \in Turns /\ Rec(c).id = caller[c].id
      /\ caller[c].id \in 1..count.requests /\ count.requests \in Nat
    BY LiveRecord
<1>2. lane.last = Turn(c) /\ Turn(c) # None
    BY <1>1, Constants DEF IndInv, LaneHead
<1>3. Rec(c).refs # {} /\ Rec(c).state # "none"
    BY DEF IndInv, Holds
<1>4. LastRecord = Rec(c)
    BY <1>1, <1>2 DEF LastRecord, Rec
<1> QED
    BY <1>1, <1>2, <1>3, <1>4 DEF LaneUser

\* Its calls: none before the attempt is sent, and the one it waits for.
LEMMA LiveFate ==
    ASSUME IndInv, NEW c \in Callers, caller[c].at \in Live
    PROVE  /\ caller[c].at \in {"prepared", "marked"} => Fate = "none"
           /\ Rejected(c) => Fate = "refused"
           /\ Call(c, "accepted") # {} => Fate = "answered"
<1>1. LastRecord = Rec(c) /\ Rec(c).id = caller[c].id
    BY LiveLane
<1>2. Rec(c).slot \in Nat
    BY LiveRecord DEF RecordType
<1>3. ASSUME caller[c].at \in {"prepared", "marked"} PROVE Fate = "none"
  <2>1. \A k \in calls : k.id = Rec(c).id => k.slot \in Nat /\ k.slot < Rec(c).slot
      BY <1>3, LiveCalls
  <2>2. LastCalls = {}
      BY <1>1, <1>2, <2>1 DEF LastCalls
  <2> QED
      BY <2>2 DEF Fate
<1>4. ASSUME NEW fate \in {"accepted", "rejected"}, Call(c, fate) # {}
      PROVE  Fate = IF fate = "accepted" THEN "answered" ELSE "refused"
  <2>1. PICK k \in calls : k.id = caller[c].id /\ k.slot = Rec(c).slot /\ k.fate = fate
      BY <1>4 DEF Call
  <2>2. k \in LastCalls
      BY <1>1, <2>1 DEF LastCalls
  <2> QED
      BY <2>1, <2>2, FateOf
<1> QED
    BY <1>3, <1>4 DEF Rejected

-----------------------------------------------------------------------------
(* The lane in a step of one caller.                                       *)

\* The records and calls stay, and nobody comes to read a response.
LEMMA StillLane ==
    ASSUME IndInv, Lent, rec' = rec, calls' = calls, lane'.last = lane.last,
           \A d \in Callers : caller'[d].at = "streaming" => caller[d].at = "streaming"
    PROVE  LaneStep /\ Lent'
<1>1. LastRecord' = LastRecord
    BY DEF LastRecord
<1>2. LaneUser' = LaneUser /\ Judged' = Judged
    BY <1>1 DEF LaneUser, Judged
<1>3. Fate' = Fate
    BY <1>1, FateSame
<1>4. ASSUME NEW t \in Turns PROVE Lends(t)'
    BY DEF Lent, Lends
<1>5. Lent'
    BY <1>1, <1>3, <1>4 DEF Lent, At
<1> QED
    BY <1>2, <1>3, <1>5, SameLane

\* A commit of a live caller's record, as the lane shows it.
LEMMA CommitLane ==
    ASSUME IndInv, NEW c \in Callers, caller[c].at \in Live, NEW new, Put(c, new),
           lane'.last = lane.last
    PROVE  /\ LastRecord' = new /\ rec'[Turn(c)] = new
           /\ \A t \in Turns : t # Turn(c) => rec'[t] = rec[t]
           /\ LaneUser' = IF new.refs = {} THEN None ELSE LaneUser
           /\ Judged = Verdict(Rec(c).attempt) /\ Judged' = Verdict(new.attempt)
           /\ calls' = calls /\ new.id = Rec(c).id /\ new.slot = Rec(c).slot => Fate' = Fate
<1>1. rec \in [Turns -> RecordType]
    BY Types DEF IndInv
<1>2. /\ lane.last = Turn(c) /\ Turn(c) \in Turns /\ Turn(c) # None
      /\ LastRecord = Rec(c) /\ LaneUser = Turn(c)
    BY LiveLane, LastIs
<1>3. rec'[Turn(c)] = new /\ \A t \in Turns : t # Turn(c) => rec'[t] = rec[t]
    BY <1>1, <1>2 DEF Put
<1>4. LastRecord' = new
    BY <1>2, <1>3 DEF LastRecord
<1>5. LaneUser' = IF new.refs = {} THEN None ELSE LaneUser
    BY <1>2, <1>4 DEF LaneUser
<1>6. calls' = calls /\ new.id = Rec(c).id /\ new.slot = Rec(c).slot => Fate' = Fate
    BY <1>2, <1>4, FateSame
<1> QED
    BY <1>2, <1>3, <1>4, <1>5, <1>6 DEF Judged

\* What is lent after it.
LEMMA CommitLent ==
    ASSUME IndInv, Lent, NEW c \in Callers, caller[c].at \in Live, NEW new, Put(c, new),
           lane'.last = lane.last, new.id = Rec(c).id,
           new.refs # {} => new.state # "none" /\ new.attempt # "none",
           new.attempt \in Pending => new.refs # {},
           new.attempt = "prepared" => Fate' = "none",
           \A d \in Callers : d # c => caller'[d] = caller[d],
           caller'[c].at = "streaming" => Fate' = "answered"
    PROVE  Lent'
<1>1. lane.last = Turn(c) /\ Rec(c).id # 0
    BY LiveLane
<1>2. /\ LastRecord' = new /\ rec'[Turn(c)] = new
      /\ \A t \in Turns : t # Turn(c) => rec'[t] = rec[t]
    BY CommitLane
<1>3. ASSUME NEW t \in Turns PROVE Lends(t)'
  <2>1. CASE t = Turn(c)
      BY <1>1, <1>2, <2>1 DEF Lends
  <2>2. CASE t # Turn(c)
    <3>1. Lends(t) /\ rec'[t] = rec[t]
        BY <1>2, <2>2 DEF Lent
    <3> QED
        BY <3>1 DEF Lends
  <2> QED
      BY <2>1, <2>2
<1>4. ASSUME NEW d \in Callers, caller'[d].at = "streaming" PROVE Fate' = "answered"
  <2>1. CASE d = c
      BY <1>4, <2>1
  <2>2. CASE d # c
      BY <1>4, <2>2, OthersWait DEF Live
  <2> QED
      BY <2>1, <2>2
<1> QED
    BY <1>2, <1>3, <1>4 DEF Lent, At

\* The attempt moves on and the request stays: it is marked, or admitted.
LEMMA MoveOnLane ==
    ASSUME IndInv, Lent, NEW c \in Callers, caller[c].at \in Live, NEW new, Put(c, new),
           lane'.last = lane.last, calls' = calls,
           new.id = Rec(c).id, new.slot = Rec(c).slot, new.refs # {}, new.state # "none",
           Rec(c).attempt \in Pending, new.attempt \in {"dispatched", "streaming"},
           \A d \in Callers : d # c => caller'[d] = caller[d],
           caller'[c].at = "streaming" => Fate = "answered"
    PROVE  LaneStep /\ Lent'
<1>1. Fate' = Fate /\ LaneUser' = LaneUser /\ Judged' = Judged
    BY CommitLane, Verdicts DEF Pending
<1>2. Lent'
    BY <1>1, CommitLent DEF Pending
<1> QED
    BY <1>1, <1>2, SameLane

\* The next slot.
LEMMA NextSlotLane ==
    ASSUME IndInv, Lent, NEW c \in Callers, caller[c].at \in Live, NEW new, Put(c, new),
           lane'.last = lane.last, calls' = calls,
           new.id = Rec(c).id, new.slot \in Nat, Rec(c).slot < new.slot,
           new.refs = Rec(c).refs, new.state # "none",
           Rec(c).attempt \in Pending, new.attempt = "prepared", Fate \in {"none", "refused"},
           \A d \in Callers : d # c => caller'[d] = caller[d], caller'[c].at # "streaming"
    PROVE  LaneStep /\ Lent'
<1>1. LastRecord' = new
    BY CommitLane
<1>2. \A k \in calls : k.id = Rec(c).id => k.slot \in Nat /\ k.slot <= Rec(c).slot
    BY LiveCalls
<1>3. Rec(c).slot \in Nat /\ Rec(c).refs # {} /\ LaneUser # None
    BY LiveRecord, LiveLane DEF RecordType
<1>4. LastCalls' = {}
    BY <1>1, <1>2, <1>3 DEF LastCalls
<1>5. Fate' = "none"
    BY <1>4 DEF Fate
<1>6. LaneUser' = LaneUser /\ Judged = "none" /\ Judged' = "none"
    BY <1>3, CommitLane, Verdicts DEF Pending
<1>7. Lent'
    BY <1>3, <1>5, CommitLent
<1> QED
    BY <1>3, <1>5, <1>6, <1>7, RetryLane

\* The request ends: in doubt, or when it is not open.
LEMMA EndLane ==
    ASSUME IndInv, Lent, NEW c \in Callers, caller[c].at \in Live, NEW new, Put(c, new),
           lane'.last = lane.last, calls' = calls,
           new.id = Rec(c).id, new.slot = Rec(c).slot, new.refs # {} => new.state # "none",
           Rec(c).attempt \in Pending, TerminalForRequest(new.attempt),
           new.attempt # "indeterminate" => Fate # "open",
           \A d \in Callers : d # c => caller'[d] = caller[d], caller'[c].at # "streaming"
    PROVE  LaneStep /\ Lent'
<1>1. Fate' = Fate /\ LaneUser' \in {LaneUser, None} /\ LaneUser # None
    BY CommitLane, LiveLane
<1>2. /\ Judged = "none" /\ Judged' \in {"doubt", "settled"}
      /\ Judged' = "settled" => Fate # "open"
    BY CommitLane, Verdicts DEF Pending
<1>3. new.attempt \notin Pending /\ new.attempt # "none"
    BY DEF TerminalForRequest, Pending
<1>4. Lent'
    BY <1>3, CommitLent DEF Pending
<1> QED
    BY <1>1, <1>2, <1>4, ConcludeLane

-----------------------------------------------------------------------------
(* One lemma for the actions of a kind.                                    *)

\* A caller that goes to another place, or leaves.
LEMMA GoStill ==
    ASSUME IndInv, Lent, NEW c \in Callers, NEW l \in Locations \ {"streaming"},
           Go(c, l) \/ Leave(c), rec' = rec, calls' = calls, lane'.last = lane.last
    PROVE  LaneStep /\ Lent'
<1>1. caller \in [Callers -> CallerType]
    BY Types DEF IndInv
<1>2. /\ \A d \in Callers : d # c => caller'[d] = caller[d]
      /\ caller'[c].at \in {l, "idle"}
    BY <1>1, GoFacts, LeaveFacts
<1>3. \A d \in Callers : caller'[d].at = "streaming" => caller[d].at = "streaming"
    BY <1>2
<1> QED
    BY <1>3, StillLane

\* A caller that waits, gives up, or cannot record what has happened.
LEMMA PlainLane ==
    ASSUME IndInv, Lent, NEW c \in Callers,
           \/ AcquirePlanning(c) \/ Withdraw(c) \/ PlanFails(c) \/ TransportError(c)
           \/ UnavailableNotRecorded(c) \/ RetryNotRecorded(c) \/ ExhaustedNotRecorded(c)
           \/ CompleteCycle(c) \/ ReplanCycle(c) \/ AdmitNotRecorded(c) \/ DoubtNotRecorded(c)
    PROVE  LaneStep /\ Lent'
<1>1. rec' = rec /\ calls' = calls
    BY DEF AcquirePlanning, Withdraw, PlanFails, TransportError, UnavailableNotRecorded,
           RetryNotRecorded, ExhaustedNotRecorded, CompleteCycle, ReplanCycle,
           AdmitNotRecorded, DoubtNotRecorded
<1>2. lane' = lane \/ lane' = [lane EXCEPT !.unavailable = {}]
    BY DEF AcquirePlanning, Withdraw, PlanFails, TransportError, UnavailableNotRecorded,
           RetryNotRecorded, ExhaustedNotRecorded, CompleteCycle, ReplanCycle,
           AdmitNotRecorded, DoubtNotRecorded
<1>3. lane'.last = lane.last
  <2>1. lane \in LaneType
      BY Types DEF IndInv
  <2> QED
      BY <1>2, <2>1 DEF LaneType
<1>4. Leave(c) \/ Go(c, "planning") \/ Go(c, "lost")
    BY DEF AcquirePlanning, Withdraw, PlanFails, TransportError, UnavailableNotRecorded,
           RetryNotRecorded, ExhaustedNotRecorded, CompleteCycle, ReplanCycle,
           AdmitNotRecorded, DoubtNotRecorded
<1>5. {"planning", "lost"} \subseteq Locations \ {"streaming"}
    BY DEF Locations
<1> QED
    BY <1>1, <1>3, <1>4, <1>5, GoStill

\* A new request waits, a client goes away, an account is removed.
LEMMA OutsideLane ==
    ASSUME IndInv, Lent,
           \/ \E c \in Callers : \/ \E t \in Turns : \E token \in {None, held[t]} :
                                     NewRequest(c, t, token)
                                 \/ Cancel(c)
           \/ \E a \in Accounts : Remove(a)
    PROVE  LaneStep /\ Lent'
<1>1. caller \in [Callers -> CallerType]
    BY Types DEF IndInv
<1>2. ASSUME NEW c \in Callers, NEW t \in Turns, NEW token, NewRequest(c, t, token)
      PROVE  LaneStep /\ Lent'
  <2> DEFINE new == [Idle EXCEPT !.at = "queued", !.turn = t, !.token = token,
                                 !.id = count.requests + 1]
  <2>1. caller' = [caller EXCEPT ![c] = new] /\ new.at = "queued"
      BY <1>2 DEF NewRequest, Idle
  <2> HIDE DEF new
  <2>2. \A d \in Callers : caller'[d].at = "streaming" => caller[d].at = "streaming"
      BY <1>1, <2>1
  <2> QED
      BY <1>2, <2>2, StillLane DEF NewRequest
<1>3. ASSUME NEW c \in Callers, Cancel(c) PROVE LaneStep /\ Lent'
  <2>1. \A d \in Callers : caller'[d].at = caller[d].at
      BY <1>1, <1>3 DEF Cancel, CallerType
  <2> QED
      BY <1>3, <2>1, StillLane DEF Cancel
<1>4. ASSUME NEW a \in Accounts, Remove(a) PROVE LaneStep /\ Lent'
    BY <1>4, StillLane DEF Remove
<1> QED
    BY <1>2, <1>3, <1>4

-----------------------------------------------------------------------------
(* The lane in the steps of an attempt.                                    *)

\* The attempt is marked.
LEMMA MarkLane ==
    ASSUME IndInv, Lent, NEW c \in Callers, MarkDispatched(c)
    PROVE  LaneStep /\ Lent'
<1> DEFINE new == [Rec(c) EXCEPT !.attempt = "dispatched"]
<1>1. /\ caller[c].at \in Live /\ Put(c, new) /\ Go(c, "marked")
      /\ Rec(c).attempt = "prepared" /\ lane' = lane /\ calls' = calls
    BY DEF MarkDispatched, At, Live
<1>2. Rec(c) \in RecordType /\ Rec(c).refs # {} /\ Rec(c).state # "none"
    BY <1>1, LiveRecord, LiveLane
<1>3. /\ new.attempt = "dispatched" /\ new.id = Rec(c).id /\ new.slot = Rec(c).slot
      /\ new.refs = Rec(c).refs /\ new.state = Rec(c).state
    BY <1>2 DEF RecordType
<1> HIDE DEF new
<1>4. (\A d \in Callers : d # c => caller'[d] = caller[d]) /\ caller'[c].at = "marked"
    BY <1>1, GoFacts, Types DEF IndInv, Locations
<1> QED
    BY <1>1, <1>2, <1>3, <1>4, MoveOnLane DEF Pending

\* It is sent.
LEMMA SendsLane ==
    ASSUME IndInv, Lent, NEW c \in Callers, Send(c)
    PROVE  LaneStep /\ Lent'
<1> DEFINE new == [id |-> caller[c].id, turn |-> Turn(c), slot |-> Rec(c).slot,
                   account |-> AttemptAccount(Rec(c)), token |-> caller[c].token,
                   fate |-> "open"]
<1>1. /\ caller[c].at = "marked" /\ caller[c].at \in Live /\ Go(c, "sent")
      /\ calls' = calls \cup {new} /\ rec' = rec /\ lane' = lane
    BY DEF Send, At, Live
<1>2. new.id = caller[c].id /\ new.slot = Rec(c).slot /\ new.fate = "open"
    OBVIOUS
<1> HIDE DEF new
<1>3. /\ LastRecord = Rec(c) /\ LaneUser # None /\ Rec(c).id = caller[c].id
      /\ Rec(c).attempt = "dispatched" /\ Fate = "none"
    BY <1>1, LiveLane, LiveFate DEF IndInv, Holds
<1>4. LastRecord' = LastRecord
    BY <1>1 DEF LastRecord
<1>5. LastCalls = {}
    BY <1>3 DEF Fate
<1>6. LastCalls' = {new}
    BY <1>1, <1>2, <1>3, <1>4, <1>5 DEF LastCalls
<1>7. Fate' = "open"
  <2>1. LastCalls' # {} /\ \A j \in LastCalls' : j.fate = "open"
      BY <1>2, <1>6
  <2> QED
      BY <2>1 DEF Fate
<1>8. LaneUser' = LaneUser /\ Judged' = Judged /\ Judged = "none"
    BY <1>1, <1>3, <1>4, Verdicts DEF LaneUser, Judged, Pending
<1>9. (\A d \in Callers : d # c => caller'[d] = caller[d]) /\ caller'[c].at = "sent"
    BY <1>1, GoFacts, Types DEF IndInv, Locations
<1>10. Lent'
  <2>1. ASSUME NEW t \in Turns PROVE Lends(t)'
      BY <1>1 DEF Lent, Lends
  <2>2. ASSUME NEW d \in Callers PROVE caller'[d].at # "streaming"
      BY <1>1, <1>9, OthersWait DEF Live
  <2> QED
      BY <1>3, <1>4, <2>1, <2>2 DEF Lent, At
<1> QED
    BY <1>3, <1>7, <1>8, <1>10, SendLane

\* The provider decides.
LEMMA DecidesLane ==
    ASSUME IndInv, Lent, NEW k \in calls, NEW fate \in {"accepted", "rejected"}, Decide(k, fate)
    PROVE  LaneStep /\ Lent'
<1> DEFINE new == [k EXCEPT !.fate = fate]
<1>1. /\ k.fate = "open" /\ calls' = (calls \ {k}) \cup {new}
      /\ rec' = rec /\ lane' = lane /\ caller' = caller
    BY DEF Decide
<1>2. new.id = k.id /\ new.slot = k.slot /\ new.fate = fate
    BY Types DEF IndInv, CallsTyped
<1> HIDE DEF new
<1>3. LastRecord' = LastRecord
    BY <1>1 DEF LastRecord
<1>4. LaneUser' = LaneUser /\ Judged' = Judged
    BY <1>1, <1>3 DEF LaneUser, Judged
<1>5. \A t \in Turns : Lends(t)'
    BY <1>1 DEF Lent, Lends
<1>6. CASE k \in LastCalls
  <2>1. LastCalls = {k} /\ Fate = "open"
      BY <1>1, <1>6, FateOf
  <2>2. LastCalls' = {new}
      BY <1>1, <1>2, <1>3, <2>1 DEF LastCalls
  <2>3. LastCalls' # {} /\ \A j \in LastCalls' : j.fate = fate
      BY <1>2, <2>2
  <2>4. Fate' \in {"refused", "answered"}
      BY <2>3 DEF Fate
  <2>5. Lent'
      BY <1>1, <1>3, <1>5, <2>1 DEF Lent, At
  <2> QED
      BY <1>4, <2>1, <2>4, <2>5, DecideLane
<1>7. CASE k \notin LastCalls
  <2>1. LastCalls' = LastCalls
      BY <1>1, <1>2, <1>3, <1>7 DEF LastCalls
  <2>2. Fate' = Fate
      BY <2>1 DEF Fate
  <2>3. Lent'
      BY <1>1, <1>3, <1>5, <2>2 DEF Lent, At
  <2> QED
      BY <1>4, <2>2, <2>3, SameLane
<1> QED
    BY <1>6, <1>7

\* It is given up before it is sent.
LEMMA AbandonLane ==
    ASSUME IndInv, Lent, NEW c \in Callers, Abandon(c)
    PROVE  LaneStep /\ Lent'
<1> DEFINE new == [Rec(c) EXCEPT
         !.attempt = "abandoned", !.refs = {},
         !.state = IF Rec(c).everAdmitted THEN "orphaned" ELSE "provisional"]
<1>1. /\ caller[c].at = "prepared" /\ caller[c].at \in Live /\ Put(c, new) /\ Leave(c)
      /\ Rec(c).attempt = "prepared" /\ lane' = lane /\ calls' = calls
    BY DEF Abandon, At, Live
<1>2. Rec(c) \in RecordType /\ Fate = "none"
    BY <1>1, LiveRecord, LiveFate
<1>3. /\ new.attempt = "abandoned" /\ new.id = Rec(c).id /\ new.slot = Rec(c).slot
      /\ new.refs = {}
    BY <1>2 DEF RecordType
<1> HIDE DEF new
<1>4. (\A d \in Callers : d # c => caller'[d] = caller[d]) /\ caller'[c].at = "idle"
    BY <1>1, LeaveFacts, Types DEF IndInv
<1>5. TerminalForRequest(new.attempt) /\ Rec(c).attempt \in Pending
    BY <1>1, <1>3 DEF TerminalForRequest, Pending
<1> QED
    BY <1>1, <1>2, <1>3, <1>4, <1>5, EndLane

\* The next credential is prepared.
LEMMA RejectLane ==
    ASSUME IndInv, Lent, NEW c \in Callers, RejectAndPrepare(c)
    PROVE  LaneStep /\ Lent'
<1> DEFINE slot == NextCredential(Rec(c))
           account == IF Rec(c).everAdmitted THEN Rec(c).account ELSE AttemptAccount(Rec(c))
           new == [Rec(c) EXCEPT !.attempt = "prepared", !.slot = slot, !.account = account]
<1>1. /\ Rejected(c) /\ slot # 0 /\ caller[c].at \in Live /\ Rec(c).attempt = "dispatched"
      /\ Put(c, new) /\ Go(c, "prepared") /\ lane' = lane /\ calls' = calls
    BY DEF RejectAndPrepare, CanRejectAndPrepare, Rejected, At, Live
<1>2. /\ Rec(c) \in RecordType /\ Rec(c).plan \in Plans /\ Rec(c).state # "none"
      /\ Rec(c).slot \in 1..Len(Rec(c).plan.slots) /\ Fate = "refused"
    BY <1>1, LiveRecord, LiveLane, LiveFate
<1>3. slot \in Nat /\ Rec(c).slot < slot
    BY <1>1, <1>2, NextSlot, Constants
<1> HIDE DEF slot, account
<1>4. /\ new.attempt = "prepared" /\ new.slot = slot /\ new.id = Rec(c).id
      /\ new.refs = Rec(c).refs /\ new.state = Rec(c).state
    BY <1>2 DEF RecordType
<1> HIDE DEF new
<1>5. (\A d \in Callers : d # c => caller'[d] = caller[d]) /\ caller'[c].at = "prepared"
    BY <1>1, GoFacts, Types DEF IndInv, Locations
<1> QED
    BY <1>1, <1>2, <1>3, <1>4, <1>5, NextSlotLane DEF Pending

\* An account is recorded as unavailable.
LEMMA UnavailableLane ==
    ASSUME IndInv, Lent, NEW c \in Callers,
           NEW slot \in {0, Replacement(Rec(c))}, NEW quota \in BOOLEAN,
           At(c, "prepared") \/ Rejected(c) \/ (At(c, "streaming") /\ slot = 0),
           RecordUnavailable(c, slot, quota)
    PROVE  LaneStep /\ Lent'
<1>1. /\ caller[c].at \in Live /\ Put(c, Unavailable(Rec(c), slot)) /\ calls' = calls
    BY DEF RecordUnavailable, At, Rejected, Live
<1>2. /\ Rec(c) \in RecordType /\ Rec(c).plan \in Plans /\ Rec(c).state # "none"
      /\ Rec(c).slot \in 1..Len(Rec(c).plan.slots) /\ lane \in LaneType
    BY <1>1, LiveRecord, LiveLane
<1>3. Fate # "open" /\ (slot # 0 => Fate \in {"none", "refused"})
    BY <1>1, LiveFate DEF At, Lent
<1>4. lane'.last = lane.last
  <2>1. lane' = LaneWithout(Rec(c), slot, quota)
      BY DEF RecordUnavailable
  <2> QED
      BY <1>2, <2>1 DEF LaneWithout, LaneType
<1>5. Rec(c).attempt \in Pending
    BY DEF RecordUnavailable, CanRecordUnavailable, Pending
<1>6. caller \in [Callers -> CallerType] /\ {"prepared", "cycle"} \subseteq Locations
    BY Types DEF IndInv, Locations
<1>7. CASE slot # 0
  <2>1. slot \in Nat /\ Rec(c).slot < slot
      BY <1>2, <1>7, NextSlot, Constants
  <2> DEFINE new == [Rec(c) EXCEPT !.attempt = "prepared", !.slot = slot]
  <2>2. Put(c, new) /\ Go(c, "prepared")
      BY <1>1, <1>7 DEF Unavailable, RecordUnavailable
  <2>3. /\ new.attempt = "prepared" /\ new.slot = slot /\ new.id = Rec(c).id
        /\ new.refs = Rec(c).refs /\ new.state = Rec(c).state
      BY <1>2 DEF RecordType
  <2> HIDE DEF new
  <2>4. (\A d \in Callers : d # c => caller'[d] = caller[d]) /\ caller'[c].at = "prepared"
      BY <1>6, <2>2, GoFacts
  <2> QED
      BY <1>1, <1>2, <1>3, <1>4, <1>5, <2>1, <2>2, <2>3, <2>4, NextSlotLane
<1>8. CASE slot = 0
  <2> DEFINE new == [Rec(c) EXCEPT !.attempt = "unavailable", !.refs = {},
                       !.state = IF Rec(c).everAdmitted THEN "bound_quiescent"
                                                        ELSE "failed_unadmitted"]
  <2>1. Put(c, new) /\ (Leave(c) \/ Go(c, "cycle"))
      BY <1>1, <1>8 DEF Unavailable, RecordUnavailable
  <2>2. /\ new.attempt = "unavailable" /\ new.id = Rec(c).id /\ new.slot = Rec(c).slot
        /\ new.refs = {}
      BY <1>2 DEF RecordType
  <2> HIDE DEF new
  <2>3. (\A d \in Callers : d # c => caller'[d] = caller[d]) /\ caller'[c].at # "streaming"
      BY <1>6, <2>1, GoFacts, LeaveFacts
  <2>4. TerminalForRequest(new.attempt)
      BY <2>2 DEF TerminalForRequest
  <2> QED
      BY <1>1, <1>3, <1>4, <1>5, <2>1, <2>2, <2>3, <2>4, EndLane
<1> QED
    BY <1>7, <1>8

\* A definite rejection ends the request.
LEMMA FinishLane ==
    ASSUME IndInv, Lent, NEW c \in Callers, FinishRejected(c)
    PROVE  LaneStep /\ Lent'
<1> DEFINE new == [Rec(c) EXCEPT !.attempt = "provider_failed", !.refs = {},
                     !.state = IF Rec(c).everAdmitted THEN "bound_quiescent"
                                                      ELSE "failed_unadmitted"]
<1>1. /\ Rejected(c) /\ caller[c].at \in Live /\ Put(c, new) /\ Leave(c) /\ calls' = calls
      /\ Rec(c).attempt = "dispatched"
      /\ lane' = IF Rec(c).everAdmitted THEN lane ELSE [lane EXCEPT !.current = None]
    BY DEF FinishRejected, Rejected, At, Live
<1>2. Rec(c) \in RecordType /\ lane \in LaneType /\ Fate = "refused"
    BY <1>1, LiveRecord, LiveFate
<1>3. /\ new.attempt = "provider_failed" /\ new.id = Rec(c).id /\ new.slot = Rec(c).slot
      /\ new.refs = {}
    BY <1>2 DEF RecordType
<1>4. lane'.last = lane.last
    BY <1>1, <1>2 DEF LaneType
<1> HIDE DEF new
<1>5. (\A d \in Callers : d # c => caller'[d] = caller[d]) /\ caller'[c].at = "idle"
    BY <1>1, LeaveFacts, Types DEF IndInv
<1>6. TerminalForRequest(new.attempt) /\ Rec(c).attempt \in Pending
    BY <1>1, <1>3 DEF TerminalForRequest, Pending
<1> QED
    BY <1>1, <1>2, <1>3, <1>4, <1>5, <1>6, EndLane

\* The response is admitted, or its turn state is.
LEMMA AdmissionLane ==
    ASSUME IndInv, Lent, NEW c \in Callers, caller[c].at \in {"sent", "streaming"},
           Fate = "answered",
           NEW token \in Tokens, token # None => token.by = AttemptAccount(Rec(c)),
           Put(c, Admitted(Rec(c), token, caller[c].relatch)),
           NEW relatch \in BOOLEAN,
           caller' = [caller EXCEPT ![c].at = "streaming", ![c].relatch = relatch],
           lane' = lane, calls' = calls
    PROVE  LaneStep /\ Lent'
<1> DEFINE new == Admitted(Rec(c), token, caller[c].relatch)
<1>1. /\ new.attempt = "streaming" /\ new.state = "bound_active" /\ new.refs = Refs
      /\ new.id = Rec(c).id /\ new.slot = Rec(c).slot
    BY AdmittedFacts
<1>2. Put(c, new) /\ caller[c].at \in Live
    BY DEF Live
<1> HIDE DEF new
<1>3. \A d \in Callers : d # c => caller'[d] = caller[d]
    BY StreamFacts, Types DEF IndInv
<1>4. Rec(c).attempt \in Pending
    BY <1>2 DEF IndInv, Holds, At, Pending
<1>5. new.refs # {} /\ new.state # "none"
    BY <1>1 DEF Refs
<1> QED
    BY <1>1, <1>2, <1>3, <1>4, <1>5, MoveOnLane

LEMMA AdmitLane ==
    ASSUME IndInv, Lent, NEW c \in Callers,
           \/ \E issued \in BOOLEAN : Admit(c, issued)
           \/ StreamedTurnState(c)
    PROVE  LaneStep /\ Lent'
<1>1. caller[c].at \in {"sent", "streaming"} /\ caller[c].at \in Live
    BY DEF Admit, StreamedTurnState, At, Live
<1> DEFINE issue == [by |-> AttemptAccount(Rec(c)), n |-> caller[c].id]
<1>2. issue \in Tokens /\ issue.by = AttemptAccount(Rec(c)) /\ caller[c] \in CallerType
  <2>1. /\ AttemptAccount(Rec(c)) \in Accounts /\ caller[c].id \in 1..count.requests
        /\ count.requests \in Nat /\ caller[c] \in CallerType
      BY <1>1, LiveRecord
  <2>2. caller[c].id \in Nat \ {0}
      BY <2>1
  <2> QED
      BY <2>1, <2>2 DEF Tokens
<1> HIDE DEF issue
<1>3. ASSUME NEW issued \in BOOLEAN, Admit(c, issued) PROVE LaneStep /\ Lent'
  <2> DEFINE token == IF issued THEN issue ELSE None
             relatch == caller[c].relatch /\ ~issued
  <2>1. token \in Tokens /\ (token # None => token.by = AttemptAccount(Rec(c)))
      BY <1>2, Constants
  <2>2. /\ Put(c, Admitted(Rec(c), token, caller[c].relatch))
        /\ lane' = lane /\ calls' = calls /\ Call(c, "accepted") # {}
      BY <1>3 DEF Admit, issue
  <2>3. caller' = [caller EXCEPT ![c].at = "streaming", ![c].relatch = relatch]
      BY <1>3, Types DEF Admit, IndInv, CallerType
  <2>4. relatch \in BOOLEAN
      OBVIOUS
  <2>5. Fate = "answered"
      BY <1>1, <2>2, LiveFate
  <2> HIDE DEF token, relatch
  <2> QED
      BY <1>1, <2>1, <2>2, <2>3, <2>4, <2>5, AdmissionLane
<1>4. ASSUME StreamedTurnState(c) PROVE LaneStep /\ Lent'
  <2>1. /\ Put(c, Admitted(Rec(c), issue, caller[c].relatch))
        /\ lane' = lane /\ calls' = calls
      BY <1>4 DEF StreamedTurnState, issue
  <2>2. caller' = [caller EXCEPT ![c].at = "streaming", ![c].relatch = FALSE]
      BY <1>4, Types DEF StreamedTurnState, IndInv, CallerType, At
  <2>3. Fate = "answered"
      BY <1>4 DEF StreamedTurnState, Lent
  <2> QED
      BY <1>1, <1>2, <2>1, <2>2, <2>3, AdmissionLane
<1> QED
    BY <1>3, <1>4

\* The response ends, or its outcome is recorded as in doubt.
LEMMA EndsLane ==
    ASSUME IndInv, Lent, NEW c \in Callers,
           \/ \E endTurn \in BOOLEAN : Complete(c, endTurn)
           \/ ProviderFails(c) \/ Indeterminate(c)
    PROVE  LaneStep /\ Lent'
<1>1. caller[c].at \in Live /\ Go(c, "drain") /\ calls' = calls
    BY DEF Complete, ProviderFails, Indeterminate, At, Live
<1>2. Rec(c) \in RecordType /\ lane \in LaneType
    BY <1>1, LiveRecord
<1>3. (\A d \in Callers : d # c => caller'[d] = caller[d]) /\ caller'[c].at = "drain"
    BY <1>1, GoFacts, Types DEF IndInv, Locations
<1>4. lane'.last = lane.last
    BY <1>2 DEF Complete, ProviderFails, Indeterminate, LaneType
<1>5. Rec(c).attempt \in Pending
    BY DEF Complete, ProviderFails, Indeterminate, CanRecordDoubt, Pending
<1>6. ASSUME NEW endTurn \in BOOLEAN, Complete(c, endTurn) PROVE LaneStep /\ Lent'
  <2> DEFINE new == [Rec(c) EXCEPT !.attempt = "provider_completed", !.refs = {"observer"},
                     !.state = IF endTurn THEN "bound_quiescent" ELSE "continuation_pending"]
  <2>1. Put(c, new) /\ caller[c].at = "streaming"
      BY <1>6 DEF Complete, At
  <2>2. /\ new.attempt = "provider_completed" /\ new.id = Rec(c).id /\ new.slot = Rec(c).slot
        /\ new.state # "none"
      BY <1>2 DEF RecordType
  <2> HIDE DEF new
  <2>3. Fate = "answered" /\ TerminalForRequest(new.attempt)
      BY <2>1, <2>2 DEF Lent, At, TerminalForRequest
  <2> QED
      BY <1>1, <1>3, <1>4, <1>5, <2>1, <2>2, <2>3, EndLane
<1>7. ASSUME ProviderFails(c) PROVE LaneStep /\ Lent'
  <2> DEFINE new == [Rec(c) EXCEPT !.attempt = "provider_failed", !.refs = {"observer"},
                     !.state = "bound_quiescent"]
  <2>1. Put(c, new) /\ caller[c].at = "streaming"
      BY <1>7 DEF ProviderFails, At
  <2>2. /\ new.attempt = "provider_failed" /\ new.id = Rec(c).id /\ new.slot = Rec(c).slot
        /\ new.state # "none"
      BY <1>2 DEF RecordType
  <2> HIDE DEF new
  <2>3. Fate = "answered" /\ TerminalForRequest(new.attempt)
      BY <2>1, <2>2 DEF Lent, At, TerminalForRequest
  <2> QED
      BY <1>1, <1>3, <1>4, <1>5, <2>1, <2>2, <2>3, EndLane
<1>8. ASSUME Indeterminate(c) PROVE LaneStep /\ Lent'
  <2> DEFINE new == [Rec(c) EXCEPT !.attempt = "indeterminate", !.state = "orphaned",
                     !.refs = {"observer"}, !.nonMigratable = TRUE]
  <2>1. Put(c, new)
      BY <1>8 DEF Indeterminate
  <2>2. /\ new.attempt = "indeterminate" /\ new.id = Rec(c).id /\ new.slot = Rec(c).slot
        /\ new.state # "none"
      BY <1>2 DEF RecordType
  <2> HIDE DEF new
  <2>3. TerminalForRequest(new.attempt)
      BY <2>2 DEF TerminalForRequest
  <2> QED
      BY <1>1, <1>3, <1>4, <1>5, <2>1, <2>2, <2>3, EndLane
<1> QED
    BY <1>6, <1>7, <1>8

\* The response is drained.
LEMMA DrainLane ==
    ASSUME IndInv, Lent, NEW c \in Callers, Drain(c)
    PROVE  LaneStep /\ Lent'
<1> DEFINE refs == Rec(c).refs \ {"observer"}
           new == [Rec(c) EXCEPT !.refs = refs]
<1>1. /\ caller[c].at = "drain" /\ caller[c].at \in Live /\ Put(c, new) /\ Leave(c)
      /\ lane' = lane /\ calls' = calls
    BY DEF Drain, At, Live
<1>2. Rec(c) \in RecordType /\ LaneUser # None /\ Rec(c).state # "none"
    BY <1>1, LiveRecord, LiveLane
<1> HIDE DEF refs
<1>3. /\ new.attempt = Rec(c).attempt /\ new.id = Rec(c).id /\ new.slot = Rec(c).slot
      /\ new.refs = refs /\ new.state = Rec(c).state
    BY <1>2 DEF RecordType
<1> HIDE DEF new
<1>4. TerminalForRequest(new.attempt) /\ new.attempt \notin Pending /\ new.attempt # "none"
    BY <1>3 DEF Drain, TerminalForRequest, Pending
<1>5. (\A d \in Callers : d # c => caller'[d] = caller[d]) /\ caller'[c].at = "idle"
    BY <1>1, LeaveFacts, Types DEF IndInv
<1>6. /\ LaneUser' \in {LaneUser, None} /\ Judged' = Judged /\ Judged # "none"
      /\ Fate' = Fate
    BY <1>1, <1>3, <1>4, CommitLane, Verdicts
<1>7. Lent'
    BY <1>1, <1>2, <1>3, <1>4, <1>5, CommitLent DEF Pending
<1> QED
    BY <1>2, <1>6, <1>7, SameLane, ReleaseLane

-----------------------------------------------------------------------------
(* A new turn, a new request, a restart and the sweep.                     *)

\* Records that are not lent, and nobody who reads a response.
LEMMA NothingLent ==
    ASSUME \A t \in Turns : rec'[t].refs = {} /\ rec'[t].attempt \notin Pending,
           \A d \in Callers : caller'[d].at # "streaming",
           LastRecord'.attempt # "prepared"
    PROVE  Lent'
BY DEF Lent, Lends, At

\* When the last record is not in use, no record is.
LEMMA Unlent ==
    ASSUME IndInv, Lent, LastRecord.refs = {}
    PROVE  \A t \in Turns : rec[t].refs = {} /\ rec[t].attempt \notin Pending
<1>1. SUFFICES ASSUME NEW t \in Turns PROVE rec[t].refs = {} /\ rec[t].attempt \notin Pending
    OBVIOUS
<1>2. Lends(t)
    BY DEF Lent
<1>3. rec[t].refs = {}
    BY <1>1, <1>2, LastIs DEF Lends
<1> QED
    BY <1>2, <1>3 DEF Lends

\* A turn becomes the head of the lane.
LEMMA ReserveLane ==
    ASSUME IndInv, Lent, NEW c \in Callers, NEW p \in Plans, Reserve(c, p)
    PROVE  LaneStep /\ Lent'
<1> DEFINE t == Turn(c)
           superseded == lane.current # None
           blank == [NoRecord EXCEPT !.state = "reserving", !.pred = lane.last]
<1>1. /\ caller[c].at = "planning" /\ Class(t) = "unseen" /\ PlanningAvailable(t)
      /\ rec' = [u \in Turns |->
           IF u = t THEN blank
           ELSE IF superseded /\ u = lane.current
                THEN [rec[u] EXCEPT !.state = "superseded"] ELSE rec[u]]
      /\ lane' = [current |-> t, last |-> t, unavailable |-> {},
                  exhausted |-> lane.exhausted]
      /\ caller' = [caller EXCEPT ![c].at = "reserved", ![c].plan = p]
      /\ calls' = calls
    BY DEF Reserve, At
<1>2. /\ rec \in [Turns -> RecordType] /\ caller \in [Callers -> CallerType] /\ CallsTyped
      /\ t \in Turns /\ t # None
    BY <1>1, Types, Constants DEF IndInv, Asks, At
<1>3. blank.refs = {} /\ blank.attempt = "none" /\ blank.id = 0
    BY DEF NoRecord
<1>4. LastRecord.refs = {}
  <2>1. CASE lane.last = None
      BY <2>1, LastIs, NoRecordFields
  <2>2. CASE lane.last # None
      BY <1>1, <2>2, LastIs DEF PlanningAvailable, CanReserveSuccessor, Drained
  <2> QED
      BY <2>1, <2>2
<1>5. ASSUME NEW d \in Callers PROVE caller'[d].at # "streaming"
  <2>1. caller[d].at # "streaming"
      BY <1>1, <1>2, ReserveAlone DEF Live
  <2> QED
      BY <1>1, <1>2, <2>1 DEF CallerType
<1> HIDE DEF t, blank, superseded
<1>6. LastRecord' = blank
    BY <1>1, <1>2 DEF LastRecord
<1>7. ASSUME NEW u \in Turns PROVE rec'[u].refs = {} /\ rec'[u].attempt \notin Pending
  <2>1. /\ rec[u].refs = {} /\ rec[u].attempt \notin Pending /\ rec[u] \in RecordType
        /\ rec'[u] \in {blank, [rec[u] EXCEPT !.state = "superseded"], rec[u]}
      BY <1>1, <1>2, <1>4, Unlent
  <2> QED
      BY <1>3, <2>1 DEF Pending, RecordType
<1>8. Lent'
    BY <1>3, <1>5, <1>6, <1>7, NothingLent
<1>9. Fate' = "none"
  <2>1. CallsTyped' /\ LastRecord'.id = 0
      BY <1>1, <1>2, <1>3, <1>6 DEF CallsTyped
  <2>2. LastCalls' = {}
      BY <2>1 DEF LastCalls, CallsTyped
  <2> QED
      BY <2>2 DEF Fate
<1>10. LaneUser = None /\ LaneUser' = None /\ Judged' = "none"
    BY <1>3, <1>4, <1>6, Verdicts DEF LaneUser, Judged
<1> QED
    BY <1>8, <1>9, <1>10, ForgetLane

\* A request begins.
LEMMA BeginsLane ==
    ASSUME IndInv, Lent, NEW c \in Callers, NEW p \in Plans, Begin(c, p)
    PROVE  LaneStep /\ Lent'
<1> DEFINE t == Turn(c)
           r == rec[t]
           displaced == At(c, "planning") /\ Displaced(t, caller[c].token)
           token == IF displaced THEN None ELSE caller[c].token
           restarting == lane.current = None /\ lane.last = t /\ RestartableFailedHead(r)
           unavailable == IF restarting THEN {} ELSE lane.unavailable
           new == Begun(r, caller[c].id, token, p)
           relatch == r.turnState # None /\ PortableContinuation(r, token)
<1>1. /\ lane.current = t \/ restarting
      /\ caller[c].at \in {"reserved", "planning"} /\ CanBegin(r)
      /\ rec' = [rec EXCEPT ![t] = new]
      /\ lane' = [lane EXCEPT !.current = t, !.unavailable = unavailable]
      /\ caller' = [caller EXCEPT ![c] = Beginner(caller[c], token, relatch)]
      /\ calls' = calls
    BY DEF Begin, Put, At, Beginner
<1>2. /\ lane \in LaneType /\ rec \in [Turns -> RecordType]
      /\ caller \in [Callers -> CallerType] /\ caller[c] \in CallerType
    BY Types DEF IndInv
<1>3. /\ t \in Turns /\ t # None /\ r \in RecordType
      /\ caller[c].id \in Nat /\ caller[c].id # 0
  <2>1. Asks(c) /\ ~At(c, "idle") /\ count.requests \in Nat
      BY <1>1, Types DEF IndInv, At, CountType
  <2>2. t \in Turns /\ caller[c].id \in 1..count.requests
      BY <2>1 DEF Asks
  <2> QED
      BY <1>2, <2>1, <2>2, Constants
<1>4. token \in Tokens /\ relatch \in BOOLEAN
    BY <1>2, Constants DEF CallerType
<1>5. /\ new.state # "none" /\ new.id = caller[c].id
      /\ new.attempt = "prepared" /\ new.refs = {"routing"}
    BY <1>3, BegunFacts
<1>6. lane.current \in {t, None} /\ lane.last = t
    BY <1>1, <1>3 DEF IndInv, LaneHead
<1>7. lane'.last = lane.last
    BY <1>1, <1>2 DEF LaneType
<1> HIDE DEF t, r, displaced, token, restarting, unavailable, new, relatch
<1>8. LastRecord = r /\ LastRecord' = new /\ rec'[t] = new
    BY <1>1, <1>2, <1>3, <1>6, <1>7 DEF LastRecord, r
<1>9. LastRecord.refs = {}
  <2>1. Lends(t)
      BY <1>3 DEF Lent
  <2> QED
      BY <1>1, <1>8, <2>1 DEF Lends, CanBegin, Drained, r
<1>10. LastCalls' = {}
  <2>1. \A k \in calls : k.id # caller[c].id
      BY <1>1 DEF IndInv, Unbegun
  <2> QED
      BY <1>1, <1>5, <1>8, <2>1 DEF LastCalls
<1>11. Fate' = "none"
    BY <1>10 DEF Fate
<1>12. LaneUser = None /\ LaneUser' = t /\ Judged' = "none"
    BY <1>3, <1>5, <1>6, <1>7, <1>8, <1>9, Verdicts DEF LaneUser, Judged, Pending
<1>13. ASSUME NEW d \in Callers PROVE caller'[d].at # "streaming"
  <2>1. caller[d].at # "streaming"
      BY <1>1, <1>3, <1>6, NobodyLive DEF r, Live
  <2>2. Beginner(caller[c], token, relatch).at = "prepared"
      BY <1>2, <1>4, BeginnerFields
  <2> QED
      BY <1>1, <1>2, <2>1, <2>2
<1>14. ASSUME NEW u \in Turns PROVE Lends(u)'
  <2>1. CASE u = t
      BY <1>3, <1>5, <1>6, <1>7, <1>8, <2>1 DEF Lends
  <2>2. CASE u # t
    <3>1. rec'[u].refs = {} /\ rec'[u].attempt \notin Pending
        BY <1>1, <1>2, <1>9, <2>2, Unlent
    <3> QED
        BY <3>1 DEF Lends
  <2> QED
      BY <2>1, <2>2
<1>15. Lent'
    BY <1>11, <1>13, <1>14 DEF Lent, At
<1> QED
    BY <1>3, <1>11, <1>12, <1>15, BeginLane

\* What a restart leaves of an attempt.
LEMMA NormalisedAttempt ==
    ASSUME NEW r \in RecordType
    PROVE  /\ Normalised(r).refs = {}
           /\ r.attempt \in {"dispatched", "streaming"} => Normalised(r).attempt = "indeterminate"
           /\ r.attempt = "prepared" => Normalised(r).attempt = "abandoned"
           /\ r.attempt \notin Pending => Normalised(r).attempt = r.attempt
           /\ Normalised(r).attempt \notin Pending
<1> DEFINE uncertain == r.attempt \in {"dispatched", "streaming"}
           state == IF r.state = "reserving" THEN "failed_unadmitted"
                    ELSE IF \/ uncertain
                            \/ r.attempt = "prepared" /\ r.everAdmitted
                            \/ r.state \in {"continuation_pending", "bound_quiescent"}
                    THEN "orphaned" ELSE r.state
           pinned == r.nonMigratable \/ uncertain
           attempt == IF uncertain THEN "indeterminate"
                      ELSE IF r.attempt = "prepared" THEN "abandoned" ELSE r.attempt
           new == [r EXCEPT !.refs = {}, !.state = state, !.nonMigratable = pinned,
                            !.attempt = attempt]
<1>1. Normalised(r) = new
    BY DEF Normalised
<1> HIDE DEF uncertain, state, pinned, attempt
<1>2. new.refs = {} /\ new.attempt = attempt
    BY DEF RecordType
<1> HIDE DEF new
<1> QED
    BY <1>1, <1>2 DEF attempt, uncertain, Pending

\* The proxy dies: the request ends, in doubt when it may have been sent.
LEMMA RestartLane ==
    ASSUME IndInv, Lent, Restart
    PROVE  LaneStep /\ Lent'
<1>1. /\ rec' = [t \in Turns |-> Normalised(rec[t])] /\ calls' = calls
      /\ lane' = IF lane.current # None /\ rec[lane.current].state = "reserving"
                 THEN [lane EXCEPT !.current = None] ELSE lane
      /\ caller' = [c \in Callers |-> Idle]
    BY DEF Restart
<1>2. rec \in [Turns -> RecordType] /\ lane \in LaneType
    BY Types DEF IndInv
<1>3. lane'.last = lane.last
    BY <1>1, <1>2 DEF LaneType
<1>4. \A c \in Callers : caller'[c].at # "streaming"
    BY <1>1 DEF Idle
<1>5. \A t \in Turns : rec'[t].refs = {} /\ rec'[t].attempt \notin Pending
    BY <1>1, <1>2, NormalisedAttempt
<1>6. /\ lane.last = None => LastRecord' = NoRecord /\ LastRecord = NoRecord
      /\ lane.last # None => /\ LastRecord' = Normalised(LastRecord)
                             /\ LastRecord \in RecordType /\ lane.last \in Turns
    BY <1>1, <1>2, <1>3, LastIs DEF LastRecord
<1>7. /\ LastRecord'.refs = {} /\ LastRecord'.attempt \notin Pending
      /\ LastRecord'.id = LastRecord.id /\ LastRecord'.slot = LastRecord.slot
    BY <1>6, NoRecordFields, NormalisedAttempt, NormalisedRecord DEF SameRequest, Pending
<1>8. Lent'
    BY <1>4, <1>5, <1>7, NothingLent DEF Pending
<1>9. Fate' = Fate /\ LaneUser' = None
    BY <1>1, <1>7, FateSame DEF LaneUser
<1>10. CASE LastRecord.refs = {}
  <2>1. LastRecord.attempt \notin Pending
      BY <1>6, <1>10, Unlent, LastIs, NoRecordFields DEF Pending
  <2>2. LastRecord'.attempt = LastRecord.attempt
      BY <1>6, <2>1, NormalisedAttempt
  <2>3. LaneUser = None /\ Judged' = Judged
      BY <1>10, <2>2 DEF LaneUser, Judged
  <2> QED
      BY <1>8, <1>9, <2>3, SameLane
<1>11. CASE LastRecord.refs # {}
  <2>1. /\ lane.last # None /\ LastRecord' = Normalised(LastRecord)
        /\ LastRecord \in RecordType /\ lane.last \in Turns
      BY <1>6, <1>11, NoRecordFields
  <2>2. LaneUser # None
      BY <1>11, <2>1 DEF LaneUser
  <2>3. CASE LastRecord.attempt = "prepared"
    <3>1. Judged = "none" /\ Judged' = "settled" /\ Fate = "none"
        BY <2>1, <2>3, NormalisedAttempt DEF Judged, Verdict, TerminalForRequest, Lent
    <3> QED
        BY <1>8, <1>9, <2>2, <3>1, ConcludeLane
  <2>4. CASE LastRecord.attempt \in {"dispatched", "streaming"}
    <3>1. Judged = "none" /\ Judged' = "doubt"
        BY <2>1, <2>4, NormalisedAttempt DEF Judged, Verdict, TerminalForRequest
    <3> QED
        BY <1>8, <1>9, <2>2, <3>1, ConcludeLane
  <2>5. CASE LastRecord.attempt \notin Pending
    <3>1. LastRecord.attempt # "none"
        BY <1>11, <2>1, LastIs DEF Lent, Lends
    <3>2. LastRecord'.attempt = LastRecord.attempt /\ LastRecord.attempt \in AttemptStates
        BY <2>1, <2>5, NormalisedAttempt DEF RecordType
    <3>3. Judged' = Judged /\ Judged # "none"
        BY <2>5, <3>1, <3>2, Verdicts DEF Judged
    <3> QED
        BY <1>8, <1>9, <2>2, <3>3, ReleaseLane
  <2> QED
      BY <2>3, <2>4, <2>5 DEF Pending
<1> QED
    BY <1>10, <1>11

\* The sweep takes no record that is lent.
LEMMA SweepLane ==
    ASSUME IndInv, Lent, NEW old \in SUBSET Turns, Sweep(old)
    PROVE  LaneStep /\ Lent'
<1> DEFINE stale == {t \in old : rec[t].state # "none" /\ Extinct(rec[t])}
           dead == {t \in stale : rec[t].state \in {"bound_quiescent", "orphaned",
                                    "superseded", "expired", "failed_unadmitted"}}
           named == {rec[t].pred : t \in {u \in Turns : rec[u].state # "none"} \ dead}
           expired == (stale \ dead) \ named
           survivors == {t \in Turns : rec[t].state # "none"} \ dead
           deleted == IF survivors = {} THEN dead ELSE dead \ {lane.last}
<1>1. /\ rec \in [Turns -> RecordType] /\ lane \in LaneType /\ CallsTyped
    BY Types DEF IndInv
<1>2. /\ rec' = [t \in Turns |->
           IF t \in deleted THEN NoRecord
           ELSE IF t \in expired THEN [rec[t] EXCEPT !.state = "expired"] ELSE rec[t]]
      /\ lane' = IF survivors = {} THEN NoLane
                 ELSE IF lane.current \in expired THEN [lane EXCEPT !.current = None] ELSE lane
      /\ caller' = caller /\ calls' = calls
    BY DEF Sweep
<1>3. ASSUME NEW t \in Turns, rec[t].refs # {}
      PROVE  t \notin deleted /\ t \notin expired /\ survivors # {}
  <2>1. rec[t].state # "none"
      BY <1>3 DEF Lent, Lends
  <2> QED
      BY <1>3, <2>1 DEF Extinct
<1>4. survivors # {} => lane.last \notin deleted
    OBVIOUS
<1> HIDE DEF stale, dead, named, expired, survivors, deleted
<1>5. ASSUME NEW t \in Turns
      PROVE  /\ rec[t].refs # {} => rec'[t] = rec[t]
             /\ t \notin deleted => /\ rec'[t].id = rec[t].id /\ rec'[t].slot = rec[t].slot
                                    /\ rec'[t].refs = rec[t].refs
                                    /\ rec'[t].attempt = rec[t].attempt
             /\ t \in deleted => rec'[t] = NoRecord
    BY <1>1, <1>2, <1>3 DEF RecordType
<1>6. CASE survivors = {}
  <2>1. \A t \in Turns : rec[t].refs = {}
      BY <1>3, <1>6
  <2>2. LastRecord.refs = {}
      BY <2>1, LastIs, NoRecordFields
  <2>3. \A t \in Turns : rec'[t].refs = {} /\ rec'[t].attempt \notin Pending
      BY <1>5, <2>2, Unlent, NoRecordFields DEF Pending
  <2>4. LastRecord' = NoRecord
      BY <1>2, <1>6, NoRecordFields DEF LastRecord
  <2>5. ASSUME NEW d \in Callers PROVE caller'[d].at # "streaming"
      BY <1>2, <2>2, LiveLane DEF Live
  <2>6. Lent'
      BY <2>3, <2>4, <2>5, NothingLent, NoRecordFields
  <2>7. LastCalls' = {}
      BY <1>1, <1>2, <2>4, NoRecordFields DEF LastCalls, CallsTyped
  <2>8. Fate' = "none"
      BY <2>7 DEF Fate
  <2>9. LaneUser = None /\ LaneUser' = None /\ Judged' = "none"
      BY <2>2, <2>4, NoRecordFields, Verdicts DEF LaneUser, Judged
  <2> QED
      BY <2>6, <2>8, <2>9, ForgetLane
<1>7. CASE survivors # {}
  <2>1. lane'.last = lane.last
      BY <1>1, <1>2, <1>7 DEF LaneType
  <2>2. /\ LastRecord'.id = LastRecord.id /\ LastRecord'.slot = LastRecord.slot
        /\ LastRecord'.refs = LastRecord.refs /\ LastRecord'.attempt = LastRecord.attempt
      BY <1>4, <1>5, <1>7, <2>1, LastIs DEF LastRecord
  <2>3. Fate' = Fate
      BY <1>2, <2>2, FateSame
  <2>4. LaneUser' = LaneUser /\ Judged' = Judged
      BY <2>1, <2>2 DEF LaneUser, Judged
  <2>5. ASSUME NEW t \in Turns PROVE Lends(t)'
    <3>1. Lends(t)
        BY DEF Lent
    <3>2. CASE rec[t].refs # {}
        BY <1>5, <2>1, <3>1, <3>2 DEF Lends
    <3>3. CASE rec[t].refs = {}
      <4>1. rec'[t].refs = {} /\ rec'[t].attempt \notin Pending
          BY <1>5, <3>1, <3>3, NoRecordFields DEF Lends, Pending
      <4> QED
          BY <4>1 DEF Lends
    <3> QED
        BY <3>2, <3>3
  <2>6. Lent'
      BY <1>2, <2>2, <2>3, <2>5 DEF Lent, At
  <2> QED
      BY <2>3, <2>4, <2>6, SameLane
<1> QED
    BY <1>6, <1>7

-----------------------------------------------------------------------------
(* Every step, and the refinement.                                         *)

\* What a caller does is a step of the lane.
LEMMA CallerLane ==
    ASSUME IndInv, Lent, NEW c \in Callers,
           AcquirePlanning(c) \/ Plan(c) \/ Attempt(c) \/ Observe(c)
    PROVE  LaneStep /\ Lent'
<1>1. CASE AcquirePlanning(c)
    BY <1>1, PlainLane
<1>2. CASE Plan(c)
  <2>1. count.limit.plans \subseteq Plans
      BY Types, PlanAssumption DEF IndInv, CountType
  <2>2. ASSUME NEW p \in Plans, Reserve(c, p) \/ Begin(c, p) PROVE LaneStep /\ Lent'
      BY <2>2, ReserveLane, BeginsLane
  <2> QED
      BY <1>2, <2>1, <2>2, PlainLane DEF Plan
<1>3. CASE Attempt(c)
  <2>1. ASSUME NEW quota \in BOOLEAN, FailOver(c, quota) \/ Exhausted(c, quota)
        PROVE  LaneStep /\ Lent'
      BY <2>1, UnavailableLane DEF FailOver, Exhausted
  <2>2. CASE UnavailableBeforeDispatch(c)
      BY <2>2, UnavailableLane DEF UnavailableBeforeDispatch
  <2>3. CASE \/ TransportError(c) \/ UnavailableNotRecorded(c) \/ RetryNotRecorded(c)
             \/ ExhaustedNotRecorded(c) \/ CompleteCycle(c) \/ ReplanCycle(c)
      BY <2>3, PlainLane
  <2>4. CASE \/ MarkDispatched(c) \/ Send(c) \/ Abandon(c) \/ RejectAndPrepare(c)
             \/ FinishRejected(c)
      BY <2>4, MarkLane, SendsLane, AbandonLane, RejectLane, FinishLane
  <2> QED
      BY <1>3, <2>1, <2>2, <2>3, <2>4 DEF Attempt
<1>4. CASE Observe(c)
  <2>1. CASE (\E issued \in BOOLEAN : Admit(c, issued)) \/ StreamedTurnState(c)
      BY <2>1, AdmitLane
  <2>2. CASE AdmitNotRecorded(c) \/ DoubtNotRecorded(c)
      BY <2>2, PlainLane
  <2>5. CASE \E quota \in BOOLEAN : StreamUnavailable(c, quota)
      BY <2>5, UnavailableLane DEF StreamUnavailable
  <2>3. CASE \/ \E endTurn \in BOOLEAN : Complete(c, endTurn)
             \/ ProviderFails(c) \/ Indeterminate(c)
      BY <2>3, EndsLane
  <2>4. CASE Drain(c)
      BY <2>4, DrainLane
  <2> QED
      BY <1>4, <2>1, <2>2, <2>3, <2>4, <2>5 DEF Observe
<1> QED
    BY <1>1, <1>2, <1>3, <1>4

\* Every step of the lease is a step of LaneRequest or leaves it alone.
LEMMA NextLane ==
    ASSUME IndInv, Lent, [Next]_vars
    PROVE  LaneStep /\ Lent'
<1>1. ASSUME NEW c \in Callers, AcquirePlanning(c) \/ Plan(c) \/ Attempt(c) \/ Observe(c)
      PROVE  LaneStep /\ Lent'
    BY <1>1, CallerLane
<1>2. CASE Environment
  <2>1. ASSUME NEW k \in calls, NEW fate \in {"accepted", "rejected"}, Decide(k, fate)
        PROVE  LaneStep /\ Lent'
      BY <2>1, DecidesLane
  <2>2. ASSUME NEW old \in SUBSET Turns, Sweep(old) PROVE LaneStep /\ Lent'
      BY <2>2, SweepLane
  <2> QED
      BY <1>2, <2>1, <2>2, OutsideLane, RestartLane DEF Environment
<1>3. CASE UNCHANGED vars
    BY <1>3, StillLane DEF vars
<1> QED
    BY <1>1, <1>2, <1>3 DEF Next

\* At the start the lane is free and nothing is lent.
LEMMA InitLane ==
    ASSUME Init
    PROVE  Lane!Init /\ Lent
<1>1. /\ lane = NoLane /\ rec = [t \in Turns |-> NoRecord]
      /\ caller = [c \in Callers |-> Idle] /\ calls = {}
    BY DEF Init
<1>2. LastRecord = NoRecord /\ LastCalls = {}
    BY <1>1, NoRecordFields DEF LastRecord, LastCalls
<1>3. Fate = "none"
    BY <1>2 DEF Fate
<1>4. Lane!Init
    BY <1>2, <1>3, NoRecordFields, Verdicts DEF Lane!Init
<1>5. Lent
    BY <1>1, <1>2, NoRecordFields DEF Lent, Lends, Pending, At, Idle
<1> QED
    BY <1>4, <1>5

\* Lent is an invariant: a record is lent to the request of the lane's last turn
\* and to no other, an attempt on record as prepared was never sent, and a
\* response is read only when the provider has accepted the request.
THEOREM LaneIsLent == Spec => []Lent
<1>1. Init => Lent
    BY InitLane
<1>2. IndInv /\ Lent /\ [Next]_vars => Lent'
    BY NextLane
<1> QED
    BY <1>1, <1>2, LeaseInvariant, PTL DEF Spec

\* The lease implements LaneRequest: whatever its callers, the provider and the
\* restarts do, its last request is sent again only after a refusal, ends with a
\* verdict that is doubt unless it is answered or was not sent, and the lane
\* takes up the next one after that.
THEOREM LeaseImplementsLane == Spec => ImplementsLaneRequest
<1>1. Init => Lane!Init
    BY InitLane
<1>2. IndInv /\ Lent /\ [Next]_vars => [Lane!Next]_(Lane!vars)
    BY NextLane DEF LaneStep
<1> QED
    BY <1>1, <1>2, LeaseInvariant, LaneIsLent, PTL DEF Spec, ImplementsLaneRequest, Lane!Spec
=============================================================================
