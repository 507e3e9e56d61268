----------------------- MODULE ResetAutomationProofs -----------------------
(***************************************************************************)
(* ResetAutomation for every set of credits, schedulers and users, every   *)
(* bound of the schedule and every environment.                            *)
(*                                                                         *)
(* The claim of an entry has to survive until its request is answered.  It *)
(* does because whoever writes the schedule either holds the executor lock *)
(* (Locks), or is the editor, who writes only over the revision it read    *)
(* (Edits), and no command changes an entry that is claimed.               *)
(*                                                                         *)
(* That the attempt of a claimed or doubtful credit survives as well takes *)
(* a second invariant, Clear, which a service that answers                 *)
(* nothing_to_reset breaks: an entry with an outcome is then not the last  *)
(* word on its credit, and a cleanup takes the attempt of its next entry.  *)
(***************************************************************************)
EXTENDS ResetAutomation, FiniteSetTheorems, SequenceTheorems, TLAPS

\* Nobody is at work on the journal or past the claim without the lock.
Locks(p) == proc[p].at \in Locked => executor = p

\* The entries of a copy, and the one that was picked from it, are in the schedule
\* still: nothing ever removes an entry.  A copy of the stored revision is the schedule.
Reading == {"loaded", "locking", "cleaning", "planning", "picking"}
Copies(p) ==
    /\ DOMAIN proc[p].snap.entries \subseteq DOMAIN stored.entries
    /\ p \in fresh /\ proc[p].at \in Reading => proc[p].snap = stored
    /\ p \in Schedulers /\ proc[p].at \in {"rebuilding", "rewriting", "preflight", "claiming"} =>
         proc[p].entry \in DOMAIN stored.entries

\* Whoever works on an entry or a use has chosen a credit.
WithCredit == {"confirming", "rebuilding", "rewriting", "preflight", "claiming",
               "using", "writing", "posting", "sent", "saving", "removing"}
Chosen(p) == proc[p].at \in WithCredit => proc[p].credit \in Credits

\* What a scheduler claimed stays running until it has recorded the outcome.
Claims(p) ==
    p \in Schedulers /\ proc[p].at \in {"using", "writing", "posting", "sent", "saving"} =>
        /\ proc[p].entry \in DOMAIN stored.entries
        /\ stored.entries[proc[p].entry].state = "running"

\* What an edit or a plan makes of an entry: it keeps the credit and the outcome, and
\* the state too unless that is editable; an editable entry may be cancelled.
Revisable(e) == Editable(e) \/ e.state = "cancelled"
Revises(d, e) ==
    /\ e.credit = d.credit /\ e.outcome = d.outcome
    /\ IF Editable(d) THEN Revisable(e) ELSE e.state = d.state

\* t has the entries of s, revised, and others that are neither claimed nor settled.
Extends(s, t) ==
    /\ DOMAIN s.entries \subseteq DOMAIN t.entries
    /\ \A i \in DOMAIN s.entries : Revises(s.entries[i], t.entries[i])
    /\ \A i \in DOMAIN t.entries \ DOMAIN s.entries :
         Revisable(t.entries[i]) /\ ~t.entries[i].outcome

\* An edit that would be saved extends what it replaces.
Edits == Editor \in fresh /\ edit # None => Extends(stored, edit)

IndInv ==
    /\ TypeOK
    /\ \A p \in Procs : Locks(p) /\ Copies(p) /\ Chosen(p) /\ Claims(p)
    /\ Edits

-----------------------------------------------------------------------------
(* Schedules.                                                              *)

\* A schedule that may be longer than the bound.
LongSchedule == [saved : BOOLEAN, enabled : BOOLEAN, adaptive : BOOLEAN,
                 entries : UNION {[1..n -> Entry] : n \in Nat},
                 planValid : BOOLEAN, replanDue : BOOLEAN]

\* The entries of a schedule are a list.
LEMMA Lists ==
    ASSUME NEW s \in LongSchedule
    PROVE  \E n \in Nat : s.entries \in [1..n -> Entry] /\ Len(s.entries) = n
BY DEF LongSchedule

\* A schedule within the bound.
LEMMA Bounded ==
    \A s : s \in Schedule <=>
             s \in LongSchedule /\ \E n \in 0..MaxEntries : s.entries \in [1..n -> Entry]
<1>1. MaxEntries \in Nat
    BY ResetAssumption
<1> QED
    BY <1>1 DEF Schedule, LongSchedule

\* A schedule with entries of a given length.
LEMMA BoundedBy ==
    ASSUME NEW s \in LongSchedule, NEW m \in 0..MaxEntries, Len(s.entries) <= m
    PROVE  s \in Schedule
<1>1. PICK n \in Nat : s.entries \in [1..n -> Entry] /\ Len(s.entries) = n
    BY Lists
<1>2. n \in 0..MaxEntries
    BY <1>1, ResetAssumption
<1> QED
    BY <1>1, <1>2, Bounded

\* t has the entries of s in their places, with the same claims.
Keeps(s, t) ==
    /\ \A n \in Nat : s.entries \in [1..n -> Entry] => t.entries \in [1..n -> Entry]
    /\ Extends(s, t)

LEMMA KeepsBound ==
    ASSUME NEW s \in Schedule, NEW t \in LongSchedule, Keeps(s, t)
    PROVE  t \in Schedule
<1>1. MaxEntries \in Nat
    BY ResetAssumption
<1> QED
    BY Bounded, <1>1 DEF Keeps

LEMMA RevisesOrder ==
    /\ \A d : Revises(d, d)
    /\ \A d, e, f : Revises(d, e) /\ Revises(e, f) => Revises(d, f)
    /\ \A d, e : Revisable(d) /\ Revises(d, e) => Revisable(e)
BY DEF Revises, Revisable, Editable

LEMMA ExtendsTrans ==
    ASSUME NEW s, NEW t, NEW u, Extends(s, t), Extends(t, u)
    PROVE  Extends(s, u)
<1>1. \A i \in DOMAIN s.entries : Revises(s.entries[i], u.entries[i])
    BY RevisesOrder DEF Extends
<1>2. ASSUME NEW i \in DOMAIN u.entries \ DOMAIN s.entries
      PROVE  Revisable(u.entries[i]) /\ ~u.entries[i].outcome
  <2>1. CASE i \in DOMAIN t.entries
    <3>1. Revises(t.entries[i], u.entries[i]) /\ Revisable(t.entries[i]) /\ ~t.entries[i].outcome
        BY <2>1 DEF Extends
    <3>2. Revisable(u.entries[i])
        BY <3>1, RevisesOrder
    <3>3. u.entries[i].outcome = t.entries[i].outcome
        BY <3>1 DEF Revises
    <3> QED
        BY <3>1, <3>2, <3>3
  <2>2. CASE i \notin DOMAIN t.entries
      BY <2>2 DEF Extends
  <2> QED
      BY <2>1, <2>2
<1> QED
    BY <1>1, <1>2 DEF Extends

\* A schedule whose entries are those of s, each mapped.
LEMMA Mapped ==
    ASSUME NEW s \in LongSchedule, NEW t,
           t \in [saved : BOOLEAN, enabled : BOOLEAN, adaptive : BOOLEAN,
                  entries : {t.entries}, planValid : BOOLEAN, replanDue : BOOLEAN],
           t.entries = [i \in DOMAIN s.entries |-> t.entries[i]],
           \A i \in DOMAIN s.entries :
              /\ t.entries[i] \in Entry
              /\ Revises(s.entries[i], t.entries[i])
    PROVE  t \in LongSchedule /\ Keeps(s, t)
<1>1. ASSUME NEW n \in Nat, s.entries \in [1..n -> Entry]
      PROVE  t.entries \in [1..n -> Entry]
    BY <1>1
<1>2. PICK n \in Nat : s.entries \in [1..n -> Entry]
    BY Lists
<1>3. t.entries \in [1..n -> Entry]
    BY <1>1, <1>2
<1>4. t \in LongSchedule
    BY <1>3 DEF LongSchedule
<1>5. Extends(s, t)
    BY DEF Extends
<1> QED
    BY <1>1, <1>4, <1>5 DEF Keeps
-----------------------------------------------------------------------------
(* What each change of a schedule keeps.                                   *)

LEMMA KeepsRefl ==
    ASSUME NEW s \in LongSchedule
    PROVE  Keeps(s, s)
BY DEF Keeps, Extends, Revises, Revisable

LEMMA KeepsTrans ==
    ASSUME NEW s, NEW t, NEW u, Keeps(s, t), Keeps(t, u)
    PROVE  Keeps(s, u)
BY ExtendsTrans DEF Keeps

\* A change of the flags alone.
LEMMA FlagsKeep ==
    ASSUME NEW s \in LongSchedule, NEW a \in BOOLEAN, NEW b \in BOOLEAN, NEW c \in BOOLEAN,
           NEW d \in BOOLEAN, NEW e \in BOOLEAN,
           NEW t, t = [s EXCEPT !.saved = a, !.enabled = b, !.adaptive = c,
                                !.planValid = d, !.replanDue = e]
    PROVE  t \in LongSchedule /\ Keeps(s, t)
<1>1. t \in LongSchedule /\ t.entries = s.entries
    BY ZenonT(30) DEF LongSchedule
<1> QED
    BY <1>1 DEF Keeps, Extends, Revises, Revisable

\* A change of one entry by a revision of it.
LEMMA EntryKeeps ==
    ASSUME NEW s \in LongSchedule, NEW i, NEW e,
           i \in DOMAIN s.entries =>
              e \in Entry /\ Revises(s.entries[i], e),
           NEW t, t = [s EXCEPT !.entries = [@ EXCEPT ![i] = e]]
    PROVE  t \in LongSchedule /\ Keeps(s, t)
<1>1. PICK n \in Nat : s.entries \in [1..n -> Entry]
    BY Lists
<1> DEFINE es == [s.entries EXCEPT ![i] = e]
<1>2. es = [j \in DOMAIN s.entries |-> es[j]]
    BY <1>1
<1>3. \A j \in DOMAIN s.entries :
         /\ es[j] \in Entry
         /\ Revises(s.entries[j], es[j])
    BY <1>1, RevisesOrder
<1>4. t.entries = es
    BY DEF LongSchedule
<1>5. t \in [saved : BOOLEAN, enabled : BOOLEAN, adaptive : BOOLEAN, entries : {t.entries},
             planValid : BOOLEAN, replanDue : BOOLEAN]
    BY DEF LongSchedule
<1> HIDE DEF es
<1> QED
    BY <1>2, <1>3, <1>4, <1>5, Mapped

\* The times that are compared are natural numbers.
LEMMA Numbers ==
    /\ MaxNow \in Nat /\ MaxEntries \in Nat /\ Never \in Nat
    /\ Never \in Times \cup {Never} /\ Times \subseteq Nat
    /\ None \notin Credits /\ None \notin Procs /\ Editor \notin Procs
BY ResetAssumption DEF Never, Times

LEMMA NewEntryTyped ==
    ASSUME NEW c \in Credits, NEW at \in Times \cup {Never}, NEW pinned \in BOOLEAN
    PROVE  NewEntry(c, at, pinned) \in Entry
BY DEF NewEntry, Entry, EntryStates

\* replanAutomationState changes the times and states of following entries only.
LEMMA ReplansKeep ==
    ASSUME NEW s \in LongSchedule, NEW t \in Replans(s)
    PROVE  t \in LongSchedule /\ Keeps(s, t)
<1> DEFINE following == {i \in DOMAIN s.entries : Following(s.entries[i])}
           free == {i \in following : Account[s.entries[i].credit] \notin Unresolved(s)}
           Held(S) == [s EXCEPT !.planValid = FALSE, !.replanDue = FALSE,
                              !.entries = [i \in DOMAIN @ |->
                                  IF i \in S THEN [@[i] EXCEPT !.state = "blocked"] ELSE @[i]]]
           Dated(at) == [s EXCEPT !.planValid = TRUE, !.replanDue = FALSE,
                               !.entries = [i \in DOMAIN @ |->
                                   IF i \in free
                                   THEN [@[i] EXCEPT !.state = "pending", !.at = at[i]]
                                   ELSE @[i]]]
<1>1. PICK n \in Nat : s.entries \in [1..n -> Entry]
    BY Lists
<1>2. \A i \in DOMAIN s.entries : s.entries[i] \in Entry
    BY <1>1
<1>3. ASSUME NEW S \in SUBSET following, t = Held(S)
      PROVE  t \in LongSchedule /\ Keeps(s, t)
  <2> DEFINE es == [i \in DOMAIN s.entries |->
                      IF i \in S THEN [s.entries[i] EXCEPT !.state = "blocked"] ELSE s.entries[i]]
  <2>1. t.entries = es
      BY <1>3 DEF LongSchedule
  <2>2. \A i \in DOMAIN s.entries :
           /\ es[i] \in Entry
           /\ Revises(s.entries[i], es[i])
      BY <1>2 DEF Entry, EntryStates, Following, Editable, Revises, Revisable
  <2>3. t \in [saved : BOOLEAN, enabled : BOOLEAN, adaptive : BOOLEAN, entries : {t.entries},
               planValid : BOOLEAN, replanDue : BOOLEAN]
      BY <1>3 DEF LongSchedule
  <2>4. t.entries = [i \in DOMAIN s.entries |-> t.entries[i]]
      BY <2>1
  <2> HIDE DEF es
  <2> QED
      BY <2>1, <2>2, <2>3, <2>4, Mapped
<1>4. ASSUME NEW at \in [free -> Times \cup {Never}], t = Dated(at)
      PROVE  t \in LongSchedule /\ Keeps(s, t)
  <2> DEFINE es == [i \in DOMAIN s.entries |->
                      IF i \in free THEN [s.entries[i] EXCEPT !.state = "pending", !.at = at[i]]
                      ELSE s.entries[i]]
  <2>1. t.entries = es
      BY <1>4 DEF LongSchedule
  <2>2. \A i \in DOMAIN s.entries :
           /\ es[i] \in Entry
           /\ Revises(s.entries[i], es[i])
    <3>1. \A i \in free : Following(s.entries[i]) /\ at[i] \in Times \cup {Never}
        OBVIOUS
    <3> HIDE DEF free
    <3> QED
        BY <1>2, <3>1 DEF Entry, EntryStates, Following, Editable, Revises, Revisable
  <2>3. t \in [saved : BOOLEAN, enabled : BOOLEAN, adaptive : BOOLEAN, entries : {t.entries},
               planValid : BOOLEAN, replanDue : BOOLEAN]
      BY <1>4 DEF LongSchedule
  <2>4. t.entries = [i \in DOMAIN s.entries |-> t.entries[i]]
      BY <2>1
  <2> HIDE DEF es
  <2> QED
      BY <2>1, <2>2, <2>3, <2>4, Mapped
<1>5. \/ \E S \in SUBSET following : t = Held(S)
      \/ \E at \in [free -> Times \cup {Never}] : t = Dated(at)
    BY DEF Replans
<1> HIDE DEF Held, Dated, following, free
<1> QED
    BY <1>3, <1>4, <1>5

-----------------------------------------------------------------------------
(* What the commands of the editor keep.                                   *)

\* MapEntries with a function of entries that keeps those that are claimed.
LEMMA CancelKeeps ==
    ASSUME NEW s \in LongSchedule, NEW t, t = MapEntries(s, Cancelled)
    PROVE  t \in LongSchedule /\ Keeps(s, t)
<1> DEFINE es == [i \in DOMAIN s.entries |-> Cancelled(s.entries[i])]
<1>1. PICK n \in Nat : s.entries \in [1..n -> Entry]
    BY Lists
<1>2. t.entries = es /\ t = [s EXCEPT !.entries = es]
    BY DEF LongSchedule, MapEntries
<1>3. \A i \in DOMAIN s.entries :
         /\ es[i] \in Entry
         /\ Revises(s.entries[i], es[i])
    BY <1>1 DEF Entry, EntryStates, Cancelled, Editable, Terminal, Revises, Revisable
<1>4. t \in [saved : BOOLEAN, enabled : BOOLEAN, adaptive : BOOLEAN, entries : {t.entries},
             planValid : BOOLEAN, replanDue : BOOLEAN]
    BY <1>2 DEF LongSchedule
<1>5. t.entries = [i \in DOMAIN s.entries |-> t.entries[i]]
    BY <1>2
<1> HIDE DEF es
<1> QED
    BY <1>2, <1>3, <1>4, <1>5, Mapped

LEMMA FixKeeps ==
    ASSUME NEW s \in LongSchedule, NEW t, t = MapEntries(s, LAMBDA e : Fix(s, e))
    PROVE  t \in LongSchedule /\ Keeps(s, t)
<1> DEFINE es == [i \in DOMAIN s.entries |-> Fix(s, s.entries[i])]
<1>1. PICK n \in Nat : s.entries \in [1..n -> Entry]
    BY Lists
<1>2. t.entries = es /\ t = [s EXCEPT !.entries = es]
    BY DEF LongSchedule, MapEntries
<1>3. ASSUME NEW e \in Entry
      PROVE  Fix(s, e) \in Entry /\ Revises(e, Fix(s, e))
  <2>1. CASE Following(e)
    <3> DEFINE at == IF s.planValid THEN e.at ELSE Never
               st == IF at = Never THEN "blocked" ELSE "pending"
    <3>1. Fix(s, e) = [e EXCEPT !.at = at, !.state = st]
        BY <2>1 DEF Fix
    <3>2. at \in Times \cup {Never} /\ st \in {"pending", "blocked"}
        BY DEF Entry
    <3>3. Editable(e)
        BY <2>1 DEF Following
    <3> HIDE DEF at, st
    <3> QED
        BY <3>1, <3>2, <3>3 DEF Entry, EntryStates, Revises, Revisable, Editable
  <2>2. CASE ~Following(e)
      BY <2>2 DEF Fix, Revises, Revisable
  <2> QED
      BY <2>1, <2>2
<1>4. \A i \in DOMAIN s.entries :
         /\ es[i] \in Entry
         /\ Revises(s.entries[i], es[i])
    BY <1>1, <1>3
<1>5. t \in [saved : BOOLEAN, enabled : BOOLEAN, adaptive : BOOLEAN, entries : {t.entries},
             planValid : BOOLEAN, replanDue : BOOLEAN]
    BY <1>2 DEF LongSchedule
<1>6. t.entries = [i \in DOMAIN s.entries |-> t.entries[i]]
    BY <1>2
<1> HIDE DEF es
<1> QED
    BY <1>2, <1>4, <1>5, <1>6, Mapped

\* A list after another: the entries of both, in their order.
LEMMA ListsConcat ==
    ASSUME NEW a \in Seq(Entry), NEW b \in Seq(Entry), NEW n, n = Len(a)
    PROVE  /\ n \in Nat /\ a \o b \in Seq(Entry) /\ Len(a \o b) \in Nat
           /\ DOMAIN (a \o b) = 1..Len(a \o b) /\ Len(a \o b) >= n
           /\ \A i \in 1..n : (a \o b)[i] = a[i]
           /\ \A i \in (1..Len(a \o b)) \ (1..n) :
                i - n \in DOMAIN b /\ (a \o b)[i] = b[i - n]
<1>1. Len(a) \in Nat /\ Len(b) \in Nat /\ DOMAIN b = 1..Len(b)
    OBVIOUS
<1>2. a \o b \in Seq(Entry) /\ Len(a \o b) = Len(a) + Len(b)
    BY ConcatProperties
<1>3. \A i \in 1..(Len(a) + Len(b)) :
         (a \o b)[i] = IF i <= Len(a) THEN a[i] ELSE b[i - Len(a)]
    BY ConcatProperties, ZenonT(30)
<1>4. DOMAIN (a \o b) = 1..Len(a \o b)
    BY <1>2
<1>5. \A i \in 1..n : (a \o b)[i] = a[i]
  <2>1. \A i \in 1..n : i \in 1..(Len(a) + Len(b)) /\ i <= Len(a)
      BY <1>1
  <2> QED
      BY <1>3, <2>1, Zenon
<1>6. ASSUME NEW i \in (1..Len(a \o b)) \ (1..n)
      PROVE  i - n \in DOMAIN b /\ (a \o b)[i] = b[i - n]
  <2>1. i \in 1..(Len(a) + Len(b)) /\ ~(i <= Len(a)) /\ i - n \in 1..Len(b)
      BY <1>1, <1>2
  <2> QED
      BY <1>1, <1>3, <2>1, Zenon
<1> QED
    BY <1>1, <1>2, <1>4, <1>5, <1>6

\* Entries that are appended leave the others in their places.
LEMMA AppendKeeps ==
    ASSUME NEW s \in LongSchedule, NEW es \in Seq(Entry), NEW t,
           \A k \in DOMAIN es : Revisable(es[k]) /\ ~es[k].outcome,
           t \in [saved : BOOLEAN, enabled : BOOLEAN, adaptive : BOOLEAN,
                  entries : {s.entries \o es}, planValid : BOOLEAN, replanDue : BOOLEAN]
    PROVE  t \in LongSchedule /\ Extends(s, t)
<1>1. PICK n \in Nat : s.entries \in [1..n -> Entry] /\ Len(s.entries) = n
    BY Lists
<1>2. s.entries \in Seq(Entry)
    BY <1>1
<1>3. /\ t.entries \in Seq(Entry) /\ Len(t.entries) \in Nat
      /\ DOMAIN t.entries = 1..Len(t.entries) /\ Len(t.entries) >= n
      /\ \A i \in 1..n : t.entries[i] = s.entries[i]
      /\ \A i \in (1..Len(t.entries)) \ (1..n) : i - n \in DOMAIN es /\ t.entries[i] = es[i - n]
  <2>1. t.entries = s.entries \o es
      OBVIOUS
  <2> QED
      BY <1>1, <1>2, <2>1, ListsConcat
<1>4. t.entries \in [1..Len(t.entries) -> Entry]
    BY <1>3
<1>5. t \in LongSchedule
    BY <1>3, <1>4 DEF LongSchedule
<1>6. \A i \in DOMAIN s.entries : i \in DOMAIN t.entries /\ t.entries[i] = s.entries[i]
    BY <1>1, <1>3
<1>7. \A i \in DOMAIN t.entries \ DOMAIN s.entries :
         Revisable(t.entries[i]) /\ ~t.entries[i].outcome
    BY <1>1, <1>3
<1> QED
    BY <1>5, <1>6, <1>7 DEF Extends, Revises, Revisable

\* The entries for a set of credits, in some order.
LEMMA EnrolledTyped ==
    ASSUME NEW S \in SUBSET Credits, NEW at \in [S -> Times]
    PROVE  /\ Enrolled(S, at) \in Seq(Entry)
           /\ \A k \in DOMAIN Enrolled(S, at) :
                /\ Revisable(Enrolled(S, at)[k]) /\ ~Enrolled(S, at)[k].outcome
                /\ Enrolled(S, at)[k].credit \in S
           /\ \A k, l \in DOMAIN Enrolled(S, at) :
                Enrolled(S, at)[k].credit = Enrolled(S, at)[l].credit => k = l
<1>1. IsFiniteSet(S) /\ Cardinality(S) \in Nat
    BY ResetAssumption, FS_Subset, FS_CardinalityType
<1>2. ExistsBijection(1..Cardinality(S), S)
    BY <1>1, FS_CardinalityType
<1>3. \E f \in [1..Cardinality(S) -> S] : IsInjective(f)
    BY <1>2 DEF ExistsBijection, Bijection, Injection
<1>4. SetToSeq(S) \in [1..Cardinality(S) -> S] /\ IsInjective(SetToSeq(S))
    BY <1>3 DEF SetToSeq
<1> DEFINE order == SetToSeq(S)
<1>5. \A k \in 1..Cardinality(S) : NewEntry(order[k], at[order[k]], FALSE) \in Entry
    BY <1>4, NewEntryTyped
<1>6. Enrolled(S, at) \in [1..Cardinality(S) -> Entry]
    BY <1>4, <1>5 DEF Enrolled
<1>7. \A k \in 1..Cardinality(S) :
         /\ Enrolled(S, at)[k].credit = order[k] /\ order[k] \in S
         /\ Enrolled(S, at)[k].state = "pending" /\ ~Enrolled(S, at)[k].outcome
    BY <1>4 DEF Enrolled, NewEntry
<1>8. \A k, l \in 1..Cardinality(S) : order[k] = order[l] => k = l
    BY <1>4 DEF IsInjective
<1> HIDE DEF order
<1> QED
    BY <1>1, <1>6, <1>7, <1>8 DEF Revisable, Editable

\* The times a command may name are within the bound.
LEMMA UsableTyped ==
    ASSUME now \in Times, env \in Environment, NEW c
    PROVE  UsableTimes(c) \subseteq Times
<1>1. env.until \in 0..MaxNow
    BY DEF Environment
<1> QED
    BY <1>1, Numbers DEF UsableTimes, Times

LEMMA AcceptsKeep ==
    ASSUME now \in Times, env \in Environment, NEW s \in LongSchedule, NEW t \in Accepts(s)
    PROVE  t \in LongSchedule /\ Extends(s, t)
<1> DEFINE lists == UNION {{Enrolled(S, at) : at \in {f \in [S -> Times] :
                                                  \A c \in S : f[c] \in UsableTimes(c)}} :
                           S \in {T \in SUBSET Enrollable(s) : T # {} /\ ~PendingFails}}
<1>a. PICK adaptive \in BOOLEAN, list \in lists : t = Accepted(s, adaptive, list)
  <2>1. Accepts(s) = {Accepted(s, adaptive, list) : adaptive \in BOOLEAN, list \in lists}
      BY DEF Accepts
  <2> HIDE DEF lists
  <2> QED
      BY <2>1
<1>b. PICK S \in SUBSET Enrollable(s) : \E at \in [S -> Times] : list = Enrolled(S, at)
    BY Zenon
<1>c. PICK at \in [S -> Times] : list = Enrolled(S, at)
    BY <1>b
<1> HIDE DEF lists
<1>1. t = Accepted(s, adaptive, Enrolled(S, at))
    BY <1>a, <1>c
<1> DEFINE u == MapEntries(s, Cancelled)
           es == Enrolled(S, at)
<1>2. u \in LongSchedule /\ Extends(s, u)
    BY CancelKeeps DEF Keeps
<1>3. es \in Seq(Entry) /\ \A k \in DOMAIN es : Revisable(es[k]) /\ ~es[k].outcome
    BY EnrolledTyped DEF Enrollable
<1> HIDE DEF u, es
<1>4. t = [u EXCEPT !.enabled = @ \/ ~s.saved, !.adaptive = adaptive,
                    !.planValid = TRUE, !.replanDue = FALSE, !.entries = @ \o es]
    BY <1>1 DEF u, es, Accepted
<1>5. t \in [saved : BOOLEAN, enabled : BOOLEAN, adaptive : BOOLEAN,
             entries : {u.entries \o es}, planValid : BOOLEAN, replanDue : BOOLEAN]
    BY ZenonT(30), <1>2, <1>4 DEF LongSchedule
<1>6. t \in LongSchedule /\ Extends(u, t)
    BY <1>2, <1>3, <1>5, AppendKeeps
<1> QED
    BY <1>2, <1>6, ExtendsTrans

LEMMA AddsKeep ==
    ASSUME now \in Times, env \in Environment, NEW s \in LongSchedule, NEW t \in Adds(s)
    PROVE  t \in LongSchedule /\ Extends(s, t)
<1> DEFINE new == UNION {{NewEntry(c, at, TRUE) : at \in UsableTimes(c)} :
           c \in {d \in Credits : /\ Eligible(d) /\ Pending(Account[d]) = {} /\ ~PendingFails
                                  /\ \A i \in DOMAIN s.entries :
                                        s.entries[i].credit = d => IsTerminal(s.entries[i])}}
<1>a. PICK entry \in new : t = [s EXCEPT !.entries = Append(@, entry)]
    BY Zenon DEF Adds
<1>b. PICK c \in Credits : \E at \in UsableTimes(c) : entry = NewEntry(c, at, TRUE)
    BY Zenon
<1>c. PICK at \in UsableTimes(c) : entry = NewEntry(c, at, TRUE)
    BY <1>b
<1> HIDE DEF new
<1>0. t = [s EXCEPT !.entries = Append(@, NewEntry(c, at, TRUE))]
    BY <1>a, <1>c
<1> DEFINE e == NewEntry(c, at, TRUE)
<1>2. e \in Entry /\ Revisable(e) /\ ~e.outcome
    BY UsableTyped, NewEntryTyped DEF NewEntry, Revisable, Editable
<1> HIDE DEF e
<1>3. PICK n \in Nat : s.entries \in [1..n -> Entry] /\ Len(s.entries) = n
    BY Lists
<1>4. /\ s.entries \in Seq(Entry) /\ <<e>> \in Seq(Entry)
      /\ \A k \in DOMAIN <<e>> : Revisable(<<e>>[k]) /\ ~<<e>>[k].outcome
    BY <1>2, <1>3
<1>5. Append(s.entries, e) = s.entries \o <<e>>
    BY <1>2, <1>4, AppendIsConcat
<1>6. t = [s EXCEPT !.entries = s.entries \o <<e>>]
    BY <1>0, <1>5 DEF e
<1>7. t \in [saved : BOOLEAN, enabled : BOOLEAN, adaptive : BOOLEAN,
             entries : {s.entries \o <<e>>}, planValid : BOOLEAN, replanDue : BOOLEAN]
    BY <1>6 DEF LongSchedule
<1> QED
    BY <1>4, <1>7, AppendKeeps

LEMMA SetsKeep ==
    ASSUME now \in Times, env \in Environment, NEW s \in LongSchedule, NEW t \in Sets(s)
    PROVE  t \in LongSchedule /\ Keeps(s, t)
<1>1. PICK i \in DOMAIN s.entries : Editable(s.entries[i]) /\ t \in SetsOf(s, i)
    BY DEF Sets
<1>2. s.entries[i] \in Entry
    BY Lists
<1>3. PICK pinned \in BOOLEAN, at \in Times \cup {Never} :
         t = [s EXCEPT !.entries[i] = [@ EXCEPT !.pinned = pinned, !.at = at,
                                              !.state = "pending", !.backoff = FALSE]]
    BY <1>1, <1>2, UsableTyped DEF SetsOf, Entry
<1> DEFINE e == [s.entries[i] EXCEPT !.pinned = pinned, !.at = at,
                                     !.state = "pending", !.backoff = FALSE]
<1>4. e \in Entry
    BY <1>2 DEF Entry, EntryStates
<1>5. Revises(s.entries[i], e)
    BY <1>1, <1>2 DEF Revises, Revisable, Editable, Entry
<1>6. t = [s EXCEPT !.entries = [@ EXCEPT ![i] = e]]
    BY <1>3
<1> HIDE DEF e
<1> QED
    BY <1>4, <1>5, <1>6, EntryKeeps

LEMMA ModesKeep ==
    ASSUME NEW s \in LongSchedule, NEW t \in Modes(s)
    PROVE  t \in LongSchedule /\ Keeps(s, t)
<1>1. ASSUME NEW u \in LongSchedule, NEW b \in BOOLEAN, t = [u EXCEPT !.adaptive = b]
      PROVE  t \in LongSchedule /\ Keeps(u, t)
    BY <1>1 DEF LongSchedule, Keeps, Extends, Revises, Revisable
<1>2. CASE t = [s EXCEPT !.adaptive = TRUE]
    BY <1>1, <1>2
<1> DEFINE u == IF s.adaptive THEN MapEntries(s, LAMBDA e : Fix(s, e)) ELSE s
<1>3. CASE t = [u EXCEPT !.adaptive = FALSE]
  <2>1. u \in LongSchedule /\ Keeps(s, u)
      BY FixKeeps, KeepsRefl
  <2> HIDE DEF u
  <2> QED
      BY <1>1, <1>3, <2>1, KeepsTrans
<1> QED
    BY <1>2, <1>3 DEF Modes

LEMMA RemovesKeep ==
    ASSUME NEW s \in LongSchedule, NEW t \in Removes(s)
    PROVE  t \in LongSchedule /\ Keeps(s, t)
<1>1. PICK i \in DOMAIN s.entries : t = [s EXCEPT !.entries[i] = Cancelled(@)]
    BY DEF Removes
<1>2. s.entries[i] \in Entry
    BY Lists
<1> DEFINE e == Cancelled(s.entries[i])
<1>3. e \in Entry /\ Revises(s.entries[i], e)
    BY <1>2 DEF Cancelled, Editable, Revises, Revisable, Entry, EntryStates, Terminal
<1>4. t = [s EXCEPT !.entries = [@ EXCEPT ![i] = e]]
    BY <1>1
<1> HIDE DEF e
<1> QED
    BY <1>3, <1>4, EntryKeeps

\* No command removes an entry or touches a claim.
LEMMA EditedKeep ==
    ASSUME now \in Times, env \in Environment, NEW s \in LongSchedule,
           NEW command \in Commands, NEW t \in Edited(command, s)
    PROVE  t \in LongSchedule /\ Extends(s, t)
<1>1. CASE command = "accept"
    BY <1>1, AcceptsKeep DEF Edited
<1>2. CASE command = "add"
    BY <1>2, AddsKeep DEF Edited
<1>3. CASE command = "set"
    BY <1>3, SetsKeep DEF Edited, Keeps
<1>4. CASE command = "mode"
    BY <1>4, ModesKeep DEF Edited, Keeps
<1>5. CASE command \in {"enable", "disable"}
  <2>1. PICK b \in BOOLEAN : t = [s EXCEPT !.enabled = b]
      BY <1>5 DEF Edited
  <2> QED
      BY <2>1 DEF LongSchedule, Extends, Revises, Revisable
<1>6. CASE command = "remove"
    BY <1>6, RemovesKeep DEF Edited, Keeps
<1>7. CASE command = "cancel"
  <2> DEFINE u == MapEntries(s, Cancelled)
  <2>1. u \in LongSchedule /\ Extends(s, u)
      BY CancelKeeps DEF Keeps
  <2>2. t = [u EXCEPT !.enabled = FALSE]
      BY <1>7 DEF Edited
  <2> HIDE DEF u
  <2>3. t \in LongSchedule /\ Extends(u, t)
      BY <2>1, <2>2 DEF LongSchedule, Extends, Revises, Revisable
  <2> QED
      BY <2>1, <2>3, ExtendsTrans
<1> QED
    BY <1>1, <1>2, <1>3, <1>4, <1>5, <1>6, <1>7 DEF Commands

LEMMA InvalidatedKeeps ==
    ASSUME NEW s \in LongSchedule
    PROVE  Invalidated(s) \in LongSchedule /\ Keeps(s, Invalidated(s))
BY DEF Invalidated, LongSchedule, Keeps, Extends, Revises, Revisable

\* The new plan of an edited state is no longer than it, and keeps its claims.
LEMMA PreparedKeep ==
    ASSUME NEW command, NEW s \in Schedule, NEW t \in Prepared(command, s)
    PROVE  t \in Schedule /\ Keeps(s, t)
<1>1. s \in LongSchedule
    BY Bounded
<1>2. t \in LongSchedule /\ Keeps(s, t)
  <2>1. CASE t = s
      BY <1>1, <2>1, KeepsRefl
  <2>2. CASE t = Invalidated(s)
      BY <1>1, <2>2, InvalidatedKeeps
  <2>3. CASE t \in Replans(Invalidated(s))
      BY <1>1, <2>3, InvalidatedKeeps, ReplansKeep, KeepsTrans
  <2> QED
      BY <2>1, <2>2, <2>3 DEF Prepared
<1> QED
    BY <1>2, KeepsBound

-----------------------------------------------------------------------------
(* The steps of a process.                                                 *)

\* A schedule with the entries of another, some of them changed.
Alike(s, t) == t \in Schedule /\ DOMAIN t.entries = DOMAIN s.entries

LEMMA AlikeBound ==
    ASSUME NEW s \in Schedule, NEW t \in LongSchedule,
           \A n \in Nat : s.entries \in [1..n -> Entry] => t.entries \in [1..n -> Entry]
    PROVE  Alike(s, t)
<1>1. PICK n \in 0..MaxEntries : s.entries \in [1..n -> Entry]
    BY Bounded
<1>2. n \in Nat /\ t.entries \in [1..n -> Entry]
    BY <1>1, Numbers
<1> QED
    BY <1>1, <1>2, Bounded DEF Alike

LEMMA AlikeTrans ==
    ASSUME NEW s, NEW t, NEW u, Alike(s, t), Alike(t, u)
    PROVE  Alike(s, u)
BY DEF Alike

\* One entry replaced, and the flags that go with it.
LEMMA AlikeEntry ==
    ASSUME NEW s \in Schedule, NEW i, NEW e, i \in DOMAIN s.entries => e \in Entry,
           NEW t, t = [s EXCEPT !.entries = [@ EXCEPT ![i] = e]]
    PROVE  Alike(s, t) /\ (i \in DOMAIN s.entries => t.entries[i] = e)
<1>1. PICK n \in 0..MaxEntries : s.entries \in [1..n -> Entry]
    BY Bounded
<1>2. t.entries = [s.entries EXCEPT ![i] = e]
    BY DEF Schedule
<1>3. t.entries \in [1..n -> Entry] /\ (i \in DOMAIN s.entries => t.entries[i] = e)
    BY ZenonT(30), <1>1, <1>2
<1>4. t \in Schedule
    BY <1>3 DEF Schedule
<1> QED
    BY <1>1, <1>3, <1>4 DEF Alike

LEMMA AlikeFlags ==
    ASSUME NEW s \in Schedule
    PROVE  /\ Alike(s, s)
           /\ Alike(s, [s EXCEPT !.saved = TRUE])
           /\ [s EXCEPT !.saved = TRUE].entries = s.entries
           /\ Alike(s, Invalidated(s))
           /\ Alike(s, [s EXCEPT !.planValid = FALSE, !.replanDue = FALSE])
BY DEF Alike, Schedule, Invalidated

\* The entries of a schedule within the bound.
LEMMA EntryOf ==
    ASSUME NEW s \in Schedule, NEW i \in DOMAIN s.entries
    PROVE  s.entries[i] \in Entry /\ i \in 0..MaxEntries
<1>1. PICK n \in 0..MaxEntries : s.entries \in [1..n -> Entry]
    BY Bounded
<1> QED
    BY <1>1, Numbers

LEMMA IdleTyped == NoSchedule \in Schedule /\ Idle \in Process /\ DOMAIN NoSchedule.entries = {}
<1>1. <<>> \in [1..0 -> Entry] /\ 0 \in 0..MaxEntries /\ DOMAIN <<>> = {}
    BY Numbers
<1> DEFINE lists == UNION {[1..n -> Entry] : n \in 0..MaxEntries}
<1>0. <<>> \in lists
    BY <1>1
<1> HIDE DEF lists
<1>2. NoSchedule \in Schedule
  <2>1. Schedule = [saved : BOOLEAN, enabled : BOOLEAN, adaptive : BOOLEAN, entries : lists,
                    planValid : BOOLEAN, replanDue : BOOLEAN]
      BY DEF Schedule, lists
  <2> QED
      BY <1>0, <2>1 DEF NoSchedule
<1>3. Idle \in Process
    BY <1>1, <1>2 DEF Idle, Process, Places
<1> QED
    BY <1>1, <1>2, <1>3 DEF NoSchedule

\* The types of what a step leaves to time, the service and the journal.
Outer ==
    /\ now \in Times /\ attempts \in [Credits -> {"none", "torn", "whole"}]
    /\ wire \cup redeemed \cup open \subseteq Credits /\ env \in Environment

\* A step of one process: it changes its own place, takes or frees the lock, and
\* writes the schedule only as the holder of the lock.
LEMMA OwnStep ==
    ASSUME IndInv, NEW p \in Procs, NEW r \in Process, proc' = [proc EXCEPT ![p] = r],
           \/ executor' = executor
           \/ executor = p /\ executor' = None
           \/ executor = None /\ executor' = p,
           \/ stored' = stored /\ fresh' \subseteq fresh \cup {p}
           \/ executor = p /\ Alike(stored, stored') /\ fresh' \subseteq {p},
           edit' = edit, Outer', planned' \subseteq planned \cup {p}, p \in planned' => p \in Schedulers,
           r.at \in Locked => executor' = p, r.at \in WithCredit => r.credit \in Credits,
           DOMAIN r.snap.entries \subseteq DOMAIN stored.entries,
           r.at \in Reading /\ p \in fresh' => r.snap = stored',
           p \in Schedulers /\ r.at \in {"rebuilding", "rewriting", "preflight", "claiming"} =>
              r.entry \in DOMAIN stored.entries,
           p \in Schedulers /\ r.at \in {"using", "writing", "posting", "sent", "saving"} =>
              r.entry \in DOMAIN stored'.entries /\ stored'.entries[r.entry].state = "running"
    PROVE  IndInv'
<1>1. /\ proc \in [Procs -> Process] /\ stored \in Schedule /\ (edit = None \/ edit \in Schedule)
      /\ executor \in Procs \cup {None} /\ fresh \subseteq Procs \cup {Editor}
      /\ planned \subseteq Schedulers
    BY DEF IndInv, TypeOK
<1>2. proc' \in [Procs -> Process] /\ proc'[p] = r
      /\ \A q \in Procs \ {p} : proc'[q] = proc[q]
    BY <1>1
<1>3. stored' \in Schedule /\ DOMAIN stored'.entries = DOMAIN stored.entries
    BY <1>1 DEF Alike
<1>4. TypeOK'
  <2>1. executor' \in Procs \cup {None} /\ fresh' \subseteq Procs \cup {Editor}
        /\ planned' \subseteq Schedulers
      BY <1>1
  <2> QED
      BY <1>1, <1>2, <1>3, <2>1 DEF TypeOK, Outer
<1>5. Edits'
    BY <1>1, Numbers DEF IndInv, Edits
<1>6. (Locks(p) /\ Copies(p) /\ Chosen(p) /\ Claims(p))'
    BY <1>2, <1>3 DEF Locks, Copies, Chosen, Claims
<1>7. ASSUME NEW q \in Procs \ {p}
      PROVE  (Locks(q) /\ Copies(q) /\ Chosen(q) /\ Claims(q))'
  <2>1. Locks(q) /\ Copies(q) /\ Chosen(q) /\ Claims(q) /\ proc'[q] = proc[q] /\ q # None
      BY <1>2, Numbers DEF IndInv
  <2>2. proc[q].at \in Locked => executor' = q /\ stored' = stored
      BY <2>1 DEF Locks
  <2>3. Locks(q)'
      BY <2>1, <2>2 DEF Locks
  <2>4. Copies(q)'
      BY <1>3, <2>1 DEF Copies
  <2>5. Claims(q)'
      BY <2>1, <2>2 DEF Claims, Locked
  <2>6. Chosen(q)'
      BY <2>1 DEF Chosen
  <2> QED
      BY <2>3, <2>4, <2>5, <2>6
<1> QED
    BY <1>4, <1>5, <1>6, <1>7 DEF IndInv

\* The lock and its holder, as an action of p at a locked place meets them.
LEMMA AtLocked ==
    ASSUME IndInv, NEW p \in Procs, proc[p].at \in Locked
    PROVE  executor = p
BY DEF IndInv, Locks

\* Every process's types, by its fields.
LEMMA ProcTyped ==
    ASSUME IndInv, NEW p \in Procs
    PROVE  /\ proc \in [Procs -> Process] /\ proc[p] \in Process
           /\ proc[p].snap \in Schedule /\ stored \in Schedule /\ Outer
           /\ planned \subseteq Schedulers /\ fresh \subseteq Procs \cup {Editor}
           /\ DOMAIN proc[p].snap.entries \subseteq DOMAIN stored.entries
<1>1. proc \in [Procs -> Process] /\ Copies(p)
    BY DEF IndInv, TypeOK
<1>2. proc[p] \in Process
    BY <1>1
<1> QED
    BY <1>1, <1>2 DEF IndInv, TypeOK, Outer, Copies, Process

\* Whoever returns is idle and has freed the lock.
LEMMA ReturnStep ==
    ASSUME IndInv, NEW p \in Procs, Return(p),
           \/ stored' = stored /\ fresh' = fresh
           \/ executor = p /\ Alike(stored, stored') /\ fresh' = {},
           edit' = edit, Outer'
    PROVE  IndInv'
<1>1. Idle \in Process /\ Idle.at = "idle" /\ DOMAIN Idle.snap.entries = {}
    BY IdleTyped DEF Idle
<1>2. /\ proc' = [proc EXCEPT ![p] = Idle]
      /\ executor' = IF executor = p THEN None ELSE executor
      /\ planned' = planned \ {p}
    BY DEF Return
<1>3. Idle.at \notin Locked /\ Idle.at \notin WithCredit /\ Idle.at \notin Reading
    BY <1>1 DEF Locked, WithCredit, Reading
<1> QED
    BY <1>1, <1>2, <1>3, OwnStep

\* A process that goes to another place and keeps the rest of what it knows.
LEMMA GotoStep ==
    ASSUME IndInv, NEW p \in Procs, NEW place \in Places, Goto(p, place),
           \/ executor' = executor
           \/ executor = None /\ executor' = p,
           planned' = planned,
           \/ stored' = stored /\ fresh' = fresh
           \/ executor = p /\ Alike(stored, stored') /\ fresh' = {},
           edit' = edit, Outer',
           place \in Locked => executor' = p, place \in WithCredit => proc[p].at \in WithCredit,
           place \in Reading => proc[p].at \in Reading /\ stored' = stored,
           p \in Schedulers /\ place \in {"rebuilding", "rewriting", "preflight", "claiming"} =>
              proc[p].at \in {"rebuilding", "rewriting", "preflight", "claiming"},
           p \in Schedulers /\ place \in {"using", "writing", "posting", "sent", "saving"} =>
              /\ stored' = stored
              /\ proc[p].at \in {"using", "writing", "posting", "sent", "saving"}
    PROVE  IndInv'
<1> DEFINE r == [proc[p] EXCEPT !.at = place]
<1>1. /\ proc \in [Procs -> Process] /\ proc[p] \in Process /\ planned \subseteq Schedulers
      /\ DOMAIN proc[p].snap.entries \subseteq DOMAIN stored.entries
    BY ProcTyped
<1>2. /\ r \in Process /\ r.at = place /\ r.snap = proc[p].snap /\ r.entry = proc[p].entry
      /\ r.credit = proc[p].credit
    BY <1>1 DEF Process
<1>3. proc' = [proc EXCEPT ![p] = r]
    BY <1>1 DEF Goto
<1>4. /\ p \in fresh /\ proc[p].at \in Reading => proc[p].snap = stored
      /\ p \in Schedulers /\ proc[p].at \in {"rebuilding", "rewriting", "preflight", "claiming"} =>
           proc[p].entry \in DOMAIN stored.entries
      /\ p \in Schedulers /\ proc[p].at \in {"using", "writing", "posting", "sent", "saving"} =>
           proc[p].entry \in DOMAIN stored.entries /\ stored.entries[proc[p].entry].state = "running"
      /\ proc[p].at \in WithCredit => proc[p].credit \in Credits
    BY DEF IndInv, Copies, Chosen, Claims
<1> HIDE DEF r
<1>5. fresh' \subseteq fresh
    OBVIOUS
<1> QED
    BY <1>1, <1>2, <1>3, <1>4, <1>5, OwnStep

\* A step that changes neither the schedule nor a process.
LEMMA OuterStep ==
    ASSUME IndInv, UNCHANGED <<stored, proc, executor, edit, fresh, planned>>, Outer'
    PROVE  IndInv'
<1>1. TypeOK'
    BY DEF IndInv, TypeOK, Outer
<1>2. Edits'
    BY DEF IndInv, Edits
<1>3. \A p \in Procs : (Locks(p) /\ Copies(p) /\ Chosen(p) /\ Claims(p))'
    BY DEF IndInv, Locks, Copies, Chosen, Claims
<1> QED
    BY <1>1, <1>2, <1>3 DEF IndInv

-----------------------------------------------------------------------------
(* StepSchedule.                                                           *)

\* A cleanup that goes on has removed one attempt, of a settled entry; one that fails
\* has removed it or not.
LEMMA CleanEntryFacts ==
    ASSUME IndInv, NEW p \in Procs, CleanEntry(p)
    PROVE  \E i \in DOMAIN proc[p].snap.entries :
             /\ Settled(proc[p].snap.entries[i])
             /\ \/ attempts' = attempts
                \/ attempts' = [attempts EXCEPT ![proc[p].snap.entries[i].credit] = "none"]
             /\ \/ Return(p)
                \/ proc' = [proc EXCEPT ![p].entry = i] /\ UNCHANGED <<executor, planned>>
BY DEF CleanEntry, ToClean

\* The rest of Outer where a step leaves it alone.
LEMMA OuterKept ==
    ASSUME Outer, UNCHANGED outside, attempts' \in [Credits -> {"none", "torn", "whole"}]
    PROVE  Outer'
BY DEF Outer, outside

\* A process at another place and entry is a process.
Moved(q, place, i) == [q EXCEPT !.at = place, !.entry = i]
LEMMA MovedTyped ==
    ASSUME NEW q \in Process, NEW place \in Places, NEW i \in 0..MaxEntries
    PROVE  /\ Moved(q, place, i) \in Process
           /\ Moved(q, place, i).at = place /\ Moved(q, place, i).snap = q.snap
<1> DEFINE places == Places
           schedules == Schedule
           numbers == 0..MaxEntries
           answers == Outcomes \cup {"error", None}
           credits == Credits \cup {None}
<1>1. Process = [at : places, snap : schedules, entry : numbers, credit : credits,
                 resume : BOOLEAN, answer : answers]
    BY DEF Process
<1>2. place \in places /\ i \in numbers
    OBVIOUS
<1> HIDE DEF places, schedules, numbers, answers, credits
<1> QED
    BY <1>1, <1>2 DEF Moved

\* A process that goes through a copy, or on with it.
LEMMA CursorStep ==
    ASSUME IndInv, NEW p \in Procs, proc[p].at \in {"loaded", "cleaning"},
           NEW r \in Process, proc' = [proc EXCEPT ![p] = r], r.snap = proc[p].snap,
           r.at \in {"loaded", "locking", "cleaning", "planning"},
           UNCHANGED <<stored, fresh, edit, executor, planned>>,
           r.at \in {"cleaning", "planning"} => executor = p, Outer'
    PROVE  IndInv'
<1>1. /\ planned \subseteq Schedulers
      /\ DOMAIN r.snap.entries \subseteq DOMAIN stored.entries
    BY ProcTyped
<1>2. /\ r.at \notin WithCredit
      /\ r.at \notin {"rebuilding", "rewriting", "preflight", "claiming"}
      /\ r.at \notin {"using", "writing", "posting", "sent", "saving"}
      /\ r.at \in Locked => r.at \in {"cleaning", "planning"}
    BY DEF Locked, WithCredit
<1>3. p \in fresh => r.snap = stored
    BY DEF IndInv, Copies, Reading
<1> QED
    BY <1>1, <1>2, <1>3, OwnStep

\* A cleanup, and the end of it.
LEMMA CleanStep ==
    ASSUME IndInv, NEW p \in Procs, proc[p].at \in {"loaded", "cleaning"},
           NEW place \in {"locking", "planning"}, place = "planning" => executor = p,
           proc[p].at = "cleaning" => executor = p,
           CleanEntry(p) \/ (UNCHANGED attempts /\ (CleanedTo(p, place) \/ Return(p))),
           UNCHANGED <<stored, fresh, edit, outside>>
    PROVE  IndInv'
<1>1. /\ proc \in [Procs -> Process] /\ proc[p] \in Process /\ proc[p].snap \in Schedule
      /\ Outer
    BY ProcTyped
<1>2. CASE CleanEntry(p)
  <2>1. PICK i \in DOMAIN proc[p].snap.entries :
             /\ \/ attempts' = attempts
                \/ attempts' = [attempts EXCEPT ![proc[p].snap.entries[i].credit] = "none"]
             /\ \/ Return(p)
                \/ proc' = [proc EXCEPT ![p].entry = i] /\ UNCHANGED <<executor, planned>>
      BY <1>2, CleanEntryFacts
  <2>2. Outer'
      BY <1>1, <2>1, OuterKept DEF Outer
  <2>3. CASE proc' = [proc EXCEPT ![p].entry = i] /\ UNCHANGED <<executor, planned>>
    <3>1. i \in 0..MaxEntries
        BY <1>1, EntryOf
    <3> DEFINE r == [proc[p] EXCEPT !.entry = i]
    <3>2. proc' = [proc EXCEPT ![p] = r]
        BY <1>1, <2>3
    <3>3. r \in Process /\ r.at = proc[p].at /\ r.snap = proc[p].snap
        BY <1>1, <3>1 DEF Process
    <3> HIDE DEF r
    <3> QED
        BY <2>2, <2>3, <3>2, <3>3, CursorStep
  <2> QED
      BY <2>1, <2>2, <2>3, ReturnStep
<1>3. CASE UNCHANGED attempts /\ (CleanedTo(p, place) \/ Return(p))
  <2>1. Outer'
      BY <1>1, <1>3, OuterKept DEF Outer
  <2>2. CASE CleanedTo(p, place)
    <3>1. 0 \in 0..MaxEntries
        BY Numbers
    <3> DEFINE r == Moved(proc[p], place, 0)
    <3>2. proc' = [proc EXCEPT ![p] = r] /\ UNCHANGED <<stored, fresh, edit, executor, planned>>
        BY <1>1, <2>2 DEF CleanedTo, Moved
    <3>3. place \in Places
        BY DEF Places, Locked
    <3>4. r \in Process /\ r.at = place /\ r.snap = proc[p].snap
        BY <1>1, <3>1, <3>3, MovedTyped
    <3> HIDE DEF r
    <3> QED
        BY <2>1, <3>2, <3>4, CursorStep
  <2> QED
      BY <1>3, <2>1, <2>2, ReturnStep
<1> QED
    BY <1>2, <1>3

LEMMA LoadStep ==
    ASSUME IndInv, NEW p \in Schedulers, Load(p)
    PROVE  IndInv'
<1> DEFINE r == [Idle EXCEPT !.at = "loaded", !.snap = stored]
<1>0. p \in Procs
    BY DEF Procs
<1>1. proc \in [Procs -> Process] /\ stored \in Schedule /\ Outer /\ planned \subseteq Schedulers
    BY <1>0, ProcTyped
<1>2. r \in Process /\ r.at = "loaded" /\ r.snap = stored
    BY <1>1, IdleTyped DEF Process, Places
<1>3. proc' = [proc EXCEPT ![p] = r]
    BY DEF Load
<1>4. Outer'
    BY <1>1, OuterKept DEF Load, Outer
<1>5. r.at \notin Locked /\ r.at \notin WithCredit
    BY <1>2 DEF Locked, WithCredit
<1> HIDE DEF r
<1> QED
    BY <1>0, <1>1, <1>2, <1>3, <1>4, <1>5, OwnStep DEF Load

LEMMA CleanLoadedStep ==
    ASSUME IndInv, NEW p \in Schedulers, CleanLoaded(p)
    PROVE  IndInv'
<1>0. p \in Procs
    BY DEF Procs
<1> QED
    BY <1>0, CleanStep DEF CleanLoaded

LEMMA AcquireExecutorStep ==
    ASSUME IndInv, NEW p \in Schedulers, AcquireExecutor(p)
    PROVE  IndInv'
<1>0. p \in Procs
    BY DEF Procs
<1>1. /\ proc \in [Procs -> Process] /\ proc[p] \in Process /\ stored \in Schedule
      /\ Outer /\ planned \subseteq Schedulers
    BY <1>0, ProcTyped
<1>2. Outer'
    BY <1>1, OuterKept DEF AcquireExecutor, Outer
<1>3. CASE Return(p) /\ UNCHANGED fresh
    BY <1>0, <1>2, <1>3, ReturnStep DEF AcquireExecutor
<1>4. CASE executor = None /\ stored.enabled
  <2> DEFINE r == [proc[p] EXCEPT !.at = "cleaning", !.snap = stored]
  <2>1. r \in Process /\ r.at = "cleaning" /\ r.snap = stored /\ r.at \notin WithCredit
      BY <1>1 DEF Process, Places, Locked, WithCredit
  <2>2. /\ proc' = [proc EXCEPT ![p] = r]
        /\ executor' = p /\ fresh' = fresh \cup {p} /\ planned' = planned
        /\ stored' = stored /\ edit' = edit
      BY <1>1, <1>4 DEF AcquireExecutor
  <2> HIDE DEF r
  <2> QED
      BY <1>0, <1>1, <1>2, <1>4, <2>1, <2>2, OwnStep
<1> QED
    BY <1>3, <1>4 DEF AcquireExecutor

LEMMA CleanLockedStep ==
    ASSUME IndInv, NEW p \in Schedulers, CleanLocked(p)
    PROVE  IndInv'
<1>0. p \in Procs
    BY DEF Procs
<1>1. executor = p
    BY <1>0, AtLocked DEF CleanLocked, Locked
<1> QED
    BY <1>0, <1>1, CleanStep DEF CleanLocked

\* What Put and a failing update make of the schedule.
LEMMA PutFacts ==
    ASSUME NEW s \in Schedule, NEW t, Alike(s, t), Put(t)
    PROVE  Alike(s, stored') /\ stored'.entries = t.entries /\ fresh' = {}
<1>1. t \in Schedule
    BY DEF Alike
<1>2. stored' = [t EXCEPT !.saved = TRUE] /\ fresh' = {}
    BY DEF Put
<1>3. Alike(t, stored') /\ stored'.entries = t.entries
    BY <1>1, <1>2, AlikeFlags
<1> QED
    BY <1>2, <1>3, AlikeTrans

LEMMA UpdateFailsFacts ==
    ASSUME NEW s \in Schedule, NEW t, Alike(s, t), UpdateFails(t)
    PROVE  \/ stored' = stored /\ fresh' = fresh
           \/ Alike(s, stored') /\ fresh' = {}
BY PutFacts DEF UpdateFails

LEMMA ReplanStep ==
    ASSUME IndInv, NEW p \in Schedulers, Replan(p)
    PROVE  IndInv'
<1>0. p \in Procs
    BY DEF Procs
<1>1. /\ proc \in [Procs -> Process] /\ proc[p] \in Process /\ proc[p].snap \in Schedule
      /\ stored \in Schedule /\ Outer /\ planned \subseteq Schedulers
    BY <1>0, ProcTyped
<1>2. Outer'
    BY <1>1, OuterKept DEF Replan, Outer
<1>3. executor = p /\ proc[p].at = "planning"
    BY <1>0, AtLocked DEF Replan, Locked
<1>4. edit' = edit
    BY DEF Replan
<1>5. CASE Goto(p, "picking") /\ UNCHANGED <<stored, fresh, executor, planned>>
    BY <1>0, <1>2, <1>3, <1>4, <1>5, GotoStep DEF Locked, Places, WithCredit, Reading
<1>6. CASE Return(p) /\ UNCHANGED <<stored, fresh>>
    BY <1>0, <1>2, <1>4, <1>6, ReturnStep
<1>7. ASSUME p \in fresh, NEW new \in Replans(proc[p].snap),
             \/ /\ stored' = new /\ fresh' = {p}
                /\ proc' = [proc EXCEPT ![p].at = "picking", ![p].snap = new]
                /\ planned' = planned \cup {p} /\ UNCHANGED executor
             \/ UpdateFails(new) /\ Return(p)
      PROVE  IndInv'
  <2>1. proc[p].snap \in LongSchedule
      BY <1>1, Bounded
  <2>2. new \in LongSchedule /\ Keeps(proc[p].snap, new)
      BY <1>7, <2>1, ReplansKeep
  <2>3. Alike(proc[p].snap, new)
      BY <1>1, <2>2, AlikeBound DEF Keeps
  <2>4. proc[p].snap = stored
      BY <1>0, <1>3, <1>7 DEF IndInv, Copies, Reading
  <2>5. Alike(stored, new)
      BY <2>3, <2>4 DEF Alike
  <2>6. CASE UpdateFails(new) /\ Return(p)
      BY <1>0, <1>1, <1>2, <1>3, <1>4, <2>5, <2>6, UpdateFailsFacts, ReturnStep
  <2>7. CASE /\ stored' = new /\ fresh' = {p}
             /\ proc' = [proc EXCEPT ![p].at = "picking", ![p].snap = new]
             /\ planned' = planned \cup {p} /\ UNCHANGED executor
    <3> DEFINE r == [proc[p] EXCEPT !.at = "picking", !.snap = new]
    <3>1. r \in Process /\ r.at = "picking" /\ r.snap = new /\ r.at \notin WithCredit
        BY <1>1, <2>5 DEF Process, Places, Locked, Alike, WithCredit
    <3>2. proc' = [proc EXCEPT ![p] = r]
        BY <1>1, <2>7
    <3>3. DOMAIN new.entries = DOMAIN stored.entries
        BY <2>5 DEF Alike
    <3> HIDE DEF r
    <3> QED
        BY <1>0, <1>1, <1>2, <1>3, <1>4, <2>5, <2>7, <3>1, <3>2, <3>3, OwnStep
  <2> QED
      BY <1>7, <2>6, <2>7
<1> QED
    BY <1>5, <1>6, <1>7 DEF Replan

\* Updates that end a step: what they write has the entries that were there.
LEMMA SetEntryAlike ==
    ASSUME NEW s \in Schedule, NEW i \in DOMAIN s.entries, NEW state \in EntryStates
    PROVE  Alike(s, SetEntry(s, i, state)) /\ SetEntry(s, i, state).entries[i].state = state
<1> DEFINE e == [s.entries[i] EXCEPT !.state = state]
           t == SetEntry(s, i, state)
<1>1. e \in Entry /\ e.state = state
    BY EntryOf DEF Entry
<1>2. t = [s EXCEPT !.entries = [@ EXCEPT ![i] = e]]
    BY DEF SetEntry
<1> HIDE DEF e, t
<1>3. Alike(s, t) /\ t.entries[i] = e
    BY <1>1, <1>2, AlikeEntry
<1> QED
    BY <1>1, <1>3 DEF t

LEMMA FinishStep ==
    ASSUME IndInv, NEW p \in Procs, executor = p, NEW i \in DOMAIN stored.entries,
           NEW state \in EntryStates, Finish(p, i, state), edit' = edit, Outer'
    PROVE  IndInv'
<1> DEFINE t == Invalidated(SetEntry(stored, i, state))
<1>1. stored \in Schedule
    BY ProcTyped
<1>2. SetEntry(stored, i, state) \in Schedule /\ Alike(stored, SetEntry(stored, i, state))
    BY <1>1, SetEntryAlike DEF Alike
<1>3. Alike(stored, t)
    BY <1>2, AlikeFlags, AlikeTrans
<1>4. /\ (Put(t) \/ UpdateFails(t)) \/ UNCHANGED <<stored, fresh>>
      /\ Return(p)
    BY DEF Finish, FencedUpdate
<1> HIDE DEF t
<1> QED
    BY <1>1, <1>3, <1>4, PutFacts, UpdateFailsFacts, ReturnStep

LEMMA BlockStep ==
    ASSUME IndInv, NEW p \in Procs, executor = p, proc[p].entry \in DOMAIN stored.entries,
           Block(p), edit' = edit, Outer'
    PROVE  IndInv'
<1> DEFINE i == proc[p].entry
           e == Blocked(stored.entries[i])
           t == [stored EXCEPT !.entries[i] = Blocked(@)]
<1>1. stored \in Schedule
    BY ProcTyped
<1>2. e \in Entry
  <2>1. stored.entries[i] \in Entry
      BY <1>1, EntryOf
  <2> QED
      BY <2>1 DEF Blocked, Entry, EntryStates
<1>3. t = [stored EXCEPT !.entries = [@ EXCEPT ![i] = e]]
    OBVIOUS
<1>4. /\ (Put(t) \/ UpdateFails(t)) \/ UNCHANGED <<stored, fresh>>
      /\ Return(p)
    BY DEF Block, FencedUpdate
<1> HIDE DEF i, e, t
<1>5. Alike(stored, t)
    BY <1>1, <1>2, <1>3, AlikeEntry
<1> QED
    BY <1>1, <1>4, <1>5, PutFacts, UpdateFailsFacts, ReturnStep

LEMMA PickStep ==
    ASSUME IndInv, NEW p \in Schedulers, Pick(p)
    PROVE  IndInv'
<1> DEFINE s == proc[p].snap
<1>0. p \in Procs
    BY DEF Procs
<1>1. /\ proc \in [Procs -> Process] /\ proc[p] \in Process /\ s \in Schedule
      /\ stored \in Schedule /\ Outer /\ planned \subseteq Schedulers
      /\ DOMAIN s.entries \subseteq DOMAIN stored.entries
    BY <1>0, ProcTyped
<1>2. Outer' /\ edit' = edit
    BY <1>1, OuterKept DEF Pick, Outer
<1>3. executor = p
    BY <1>0, AtLocked DEF Pick, Locked
<1>4. CASE Return(p) /\ UNCHANGED <<stored, fresh>>
    BY <1>0, <1>2, <1>4, ReturnStep
<1>5. ASSUME NEW i \in DOMAIN s.entries, Finish(p, i, "missed")
      PROVE  IndInv'
    BY <1>0, <1>1, <1>2, <1>3, <1>5, FinishStep DEF EntryStates, Terminal
<1>6. ASSUME NEW i \in DOMAIN s.entries, NEW place \in {"rebuilding", "preflight"},
             proc' = [proc EXCEPT ![p].entry = i, ![p].credit = s.entries[i].credit,
                                  ![p].at = place],
             UNCHANGED <<stored, fresh, executor, planned>>
      PROVE  IndInv'
  <2> DEFINE c == s.entries[i].credit
             r == [proc[p] EXCEPT !.entry = i, !.credit = c, !.at = place]
  <2>1. i \in 0..MaxEntries /\ c \in Credits
      BY <1>1, EntryOf DEF Entry
  <2>a. proc' = [proc EXCEPT ![p].entry = i, ![p].credit = c, ![p].at = place]
      BY <1>6
  <2> HIDE DEF c, s
  <2>2. proc' = [proc EXCEPT ![p] = r]
      BY <1>1, <2>a
  <2>3. r \in Process /\ r.at = place /\ r.entry = i /\ r.snap = proc[p].snap /\ r.credit = c
      BY <1>1, <2>1 DEF Process, Places, Locked
  <2> HIDE DEF r
  <2> QED
    <3>1. /\ DOMAIN r.snap.entries \subseteq DOMAIN stored.entries
          /\ r.entry \in DOMAIN stored.entries
        BY <1>1, <1>6, <2>3 DEF s
    <3>2. /\ r.at \notin Reading
          /\ r.at \notin {"using", "writing", "posting", "sent", "saving"}
        BY <2>3 DEF Reading
    <3>3. r.credit \in Credits
        BY <2>1, <2>3
    <3>4. /\ r \in Process /\ executor' = executor /\ stored' = stored /\ fresh' = fresh
          /\ planned' = planned
        BY <1>6, <2>3
    <3> QED
        BY <1>0, <1>1, <1>2, <1>3, <2>2, <3>1, <3>2, <3>3, <3>4, OwnStep
<1>7. \/ Return(p) /\ UNCHANGED <<stored, fresh>>
      \/ \E i \in DOMAIN s.entries :
           \/ Finish(p, i, "missed")
           \/ /\ proc' = [proc EXCEPT ![p].entry = i, ![p].credit = s.entries[i].credit,
                            ![p].at = IF s.entries[i].state \in Claimed THEN "rebuilding"
                                      ELSE "preflight"]
              /\ UNCHANGED <<stored, fresh, executor, planned>>
    BY DEF Pick
<1> HIDE DEF s
<1> QED
  <2>1. ASSUME NEW i \in DOMAIN s.entries,
               proc' = [proc EXCEPT ![p].entry = i, ![p].credit = s.entries[i].credit,
                            ![p].at = IF s.entries[i].state \in Claimed THEN "rebuilding"
                                      ELSE "preflight"],
               UNCHANGED <<stored, fresh, executor, planned>>
        PROVE  IndInv'
    <3> DEFINE place == IF s.entries[i].state \in Claimed THEN "rebuilding" ELSE "preflight"
    <3>1. place \in {"rebuilding", "preflight"}
        OBVIOUS
    <3> QED
        BY <1>6, <2>1, <3>1
  <2> QED
      BY <1>4, <1>5, <1>7, <2>1

\* The entry that a scheduler works on before its claim.
LEMMA EntryPicked ==
    ASSUME IndInv, NEW p \in Schedulers,
           proc[p].at \in {"rebuilding", "rewriting", "preflight", "claiming"}
    PROVE  /\ p \in Procs /\ executor = p /\ proc[p].entry \in DOMAIN stored.entries
           /\ proc[p].credit \in Credits
<1>0. p \in Procs
    BY DEF Procs
<1> QED
    BY <1>0, AtLocked DEF IndInv, Copies, Chosen, Locked, WithCredit

LEMMA AttemptTyped ==
    ASSUME Outer, NEW c, NEW v \in {"none", "torn", "whole"}, attempts' = [attempts EXCEPT ![c] = v]
    PROVE  attempts' \in [Credits -> {"none", "torn", "whole"}]
BY DEF Outer

LEMMA RebuildStep ==
    ASSUME IndInv, NEW p \in Schedulers, Rebuild(p)
    PROVE  IndInv'
<1>1. p \in Procs /\ executor = p /\ proc[p].entry \in DOMAIN stored.entries
    BY EntryPicked DEF Rebuild
<1>2. Outer /\ proc[p].at = "rebuilding" /\ edit' = edit /\ UNCHANGED outside
    BY <1>1, ProcTyped DEF Rebuild
<1>3. CASE Block(p) /\ UNCHANGED attempts
    BY <1>1, <1>2, <1>3, BlockStep, OuterKept DEF Outer
<1>4. CASE Goto(p, "preflight") /\ UNCHANGED <<stored, fresh, attempts, executor, planned>>
  <2>1. Outer'
      BY <1>2, <1>4, OuterKept DEF Outer
  <2> QED
      BY <1>1, <1>2, <1>4, <2>1, GotoStep DEF Places, Locked, WithCredit, Reading
<1>5. CASE /\ attempts' = [attempts EXCEPT ![proc[p].credit] = "torn"]
           /\ Goto(p, "rewriting") /\ UNCHANGED <<stored, fresh, executor, planned>>
  <2>1. Outer'
      BY <1>2, <1>5, AttemptTyped, OuterKept
  <2> QED
      BY <1>1, <1>2, <1>5, <2>1, GotoStep DEF Places, Locked, WithCredit, Reading
<1> QED
    BY <1>3, <1>4, <1>5 DEF Rebuild

LEMMA RewriteStep ==
    ASSUME IndInv, NEW p \in Schedulers, Rewrite(p)
    PROVE  IndInv'
<1>1. p \in Procs /\ executor = p /\ proc[p].entry \in DOMAIN stored.entries
    BY EntryPicked DEF Rewrite
<1>2. Outer /\ proc[p].at = "rewriting" /\ edit' = edit /\ UNCHANGED outside
    BY <1>1, ProcTyped DEF Rewrite
<1>3. Outer'
    BY <1>2, AttemptTyped, OuterKept DEF Rewrite, Ensured, EnsureFails
<1>4. CASE Goto(p, "preflight") /\ UNCHANGED <<stored, fresh, executor, planned>>
    BY <1>1, <1>2, <1>3, <1>4, GotoStep DEF Places, Locked, WithCredit, Reading
<1>5. CASE Block(p)
    BY <1>1, <1>2, <1>3, <1>5, BlockStep
<1> QED
    BY <1>4, <1>5 DEF Rewrite

\* An entry that is not useful yet loses its time.
LEMMA UndatedAlike ==
    ASSUME NEW s \in Schedule, NEW i \in DOMAIN s.entries,
           NEW t, t = [s EXCEPT !.entries[i].at = Never, !.planValid = FALSE, !.replanDue = FALSE]
    PROVE  Alike(s, t)
<1> DEFINE e == [s.entries[i] EXCEPT !.at = Never]
           u == [s EXCEPT !.entries = [@ EXCEPT ![i] = e]]
<1>1. e \in Entry
    BY EntryOf DEF Entry
<1>2. t = [u EXCEPT !.planValid = FALSE, !.replanDue = FALSE]
    OBVIOUS
<1> HIDE DEF e
<1>3. Alike(s, u)
    BY <1>1, AlikeEntry
<1> HIDE DEF u
<1> QED
    BY <1>2, <1>3, AlikeFlags, AlikeTrans DEF Alike

LEMMA PreflightStep ==
    ASSUME IndInv, NEW p \in Schedulers, Preflight(p)
    PROVE  IndInv'
<1> DEFINE i == proc[p].entry
           t == [stored EXCEPT !.entries[i].at = Never, !.planValid = FALSE, !.replanDue = FALSE]
<1>1. p \in Procs /\ executor = p /\ i \in DOMAIN stored.entries /\ proc[p].credit \in Credits
    BY EntryPicked DEF Preflight
<1>2. /\ proc \in [Procs -> Process] /\ proc[p] \in Process /\ stored \in Schedule
      /\ Outer /\ planned \subseteq Schedulers
      /\ DOMAIN proc[p].snap.entries \subseteq DOMAIN stored.entries
    BY <1>1, ProcTyped
<1>3. Outer' /\ edit' = edit
    BY <1>2, OuterKept DEF Preflight, Outer
<1>4. CASE Block(p)
    BY <1>1, <1>3, <1>4, BlockStep
<1>5. CASE Finish(p, i, "skipped")
    BY <1>1, <1>3, <1>5, FinishStep DEF EntryStates, Terminal
<1>6. CASE FencedUpdate(p, LAMBDA s : [s EXCEPT !.entries[i].at = Never,
                                         !.planValid = FALSE, !.replanDue = FALSE])
  <2>1. /\ (Put(t) \/ UpdateFails(t)) \/ UNCHANGED <<stored, fresh>>
        /\ Return(p)
      BY <1>6 DEF FencedUpdate
  <2>2. Alike(stored, t)
      BY <1>1, <1>2, UndatedAlike
  <2> HIDE DEF t
  <2> QED
      BY <1>1, <1>2, <1>3, <2>1, <2>2, PutFacts, UpdateFailsFacts, ReturnStep
<1>7. ASSUME NEW resume \in BOOLEAN,
             proc' = [proc EXCEPT ![p].at = "claiming", ![p].resume = resume],
             UNCHANGED <<stored, fresh, executor, planned>>
      PROVE  IndInv'
  <2> DEFINE r == [proc[p] EXCEPT !.at = "claiming", !.resume = resume]
  <2>1. r \in Process /\ r.at = "claiming" /\ r.entry = i /\ r.snap = proc[p].snap
        /\ r.credit = proc[p].credit
      BY <1>2 DEF Process, Places, Locked
  <2>2. proc' = [proc EXCEPT ![p] = r]
      BY <1>2, <1>7
  <2>3. /\ r.at \notin Reading
        /\ r.at \notin {"using", "writing", "posting", "sent", "saving"}
        /\ r.entry \in DOMAIN stored.entries /\ DOMAIN r.snap.entries \subseteq DOMAIN stored.entries
      BY <1>1, <1>2, <2>1 DEF Reading
  <2> HIDE DEF r
  <2> QED
      BY <1>1, <1>2, <1>3, <1>7, <2>1, <2>2, <2>3, OwnStep
<1>8. \/ Block(p) \/ Finish(p, i, "skipped")
      \/ FencedUpdate(p, LAMBDA s : [s EXCEPT !.entries[i].at = Never,
                                       !.planValid = FALSE, !.replanDue = FALSE])
      \/ \E resume \in BOOLEAN :
           /\ proc' = [proc EXCEPT ![p].at = "claiming", ![p].resume = resume]
           /\ UNCHANGED <<stored, fresh, executor, planned>>
  <2> DEFINE resume == proc[p].credit \in Pending(Account[proc[p].credit])
  <2>1. resume \in BOOLEAN
      OBVIOUS
  <2>2. \/ Block(p) \/ Finish(p, i, "skipped")
        \/ FencedUpdate(p, LAMBDA s : [s EXCEPT !.entries[i].at = Never,
                                         !.planValid = FALSE, !.replanDue = FALSE])
        \/ /\ proc' = [proc EXCEPT ![p].at = "claiming", ![p].resume = resume]
           /\ UNCHANGED <<stored, fresh, executor, planned>>
      BY DEF Preflight
  <2> HIDE DEF resume
  <2> QED
      BY <2>1, <2>2
<1> QED
    BY <1>4, <1>5, <1>6, <1>7, <1>8

\* The claim makes the entry running in the saved schedule, before anything is sent.
LEMMA ClaimStep ==
    ASSUME IndInv, NEW p \in Schedulers, Claim(p)
    PROVE  IndInv'
<1> DEFINE i == proc[p].entry
           claimed == SetEntry(stored, i, "running")
<1>1. p \in Procs /\ executor = p /\ i \in DOMAIN stored.entries /\ proc[p].credit \in Credits
    BY EntryPicked DEF Claim
<1>2. /\ proc \in [Procs -> Process] /\ proc[p] \in Process /\ stored \in Schedule
      /\ Outer /\ planned \subseteq Schedulers
    BY <1>1, ProcTyped
<1>3. Outer' /\ edit' = edit
    BY <1>2, OuterKept DEF Claim, Outer
<1>4. Alike(stored, claimed) /\ claimed.entries[i].state = "running"
    BY <1>1, <1>2, SetEntryAlike DEF EntryStates, Claimed
<1>5. CASE Return(p) /\ UNCHANGED <<stored, fresh>>
    BY <1>1, <1>3, <1>5, ReturnStep
<1>6. CASE UpdateFails(claimed) /\ Return(p)
  <2> HIDE DEF claimed
  <2> QED
      BY <1>1, <1>2, <1>3, <1>4, <1>6, UpdateFailsFacts, ReturnStep
<1>7. CASE /\ Put(claimed)
           /\ proc' = [proc EXCEPT ![p].at = "using", ![p].snap = NoSchedule]
           /\ UNCHANGED <<executor, planned>>
  <2> DEFINE r == [proc[p] EXCEPT !.at = "using", !.snap = NoSchedule]
  <2>1. r \in Process /\ r.at = "using" /\ r.entry = i /\ DOMAIN r.snap.entries = {}
        /\ r.credit = proc[p].credit
      BY <1>2, IdleTyped DEF Process, Places, Locked
  <2>2. proc' = [proc EXCEPT ![p] = r]
      BY <1>2, <1>7
  <2> HIDE DEF claimed
  <2>3. Alike(stored, stored') /\ stored'.entries = claimed.entries /\ fresh' = {}
      BY <1>2, <1>4, <1>7, PutFacts
  <2>4. i \in DOMAIN stored'.entries /\ stored'.entries[i].state = "running"
      BY <1>1, <1>4, <2>3 DEF Alike
  <2>5. /\ r.at \notin Reading
        /\ r.at \notin {"rebuilding", "rewriting", "preflight", "claiming"}
        /\ DOMAIN r.snap.entries \subseteq DOMAIN stored.entries
      BY <2>1 DEF Reading
  <2> HIDE DEF r, i
  <2> QED
      BY <1>1, <1>2, <1>3, <1>7, <2>1, <2>2, <2>3, <2>4, <2>5, OwnStep
<1> QED
    BY <1>5, <1>6, <1>7 DEF Claim

-----------------------------------------------------------------------------
(* executeUse, and a user's part.                                          *)

\* A step inside executeUse that goes on to the next place of it.
LEMMA UseGoes ==
    ASSUME IndInv, NEW p \in Procs, proc[p].at \in {"using", "writing", "posting", "sent"},
           NEW place \in {"using", "writing", "posting", "sent", "saving"}, Goto(p, place),
           UNCHANGED <<stored, fresh, edit, executor, planned>>, Outer'
    PROVE  IndInv'
<1>1. executor = p
    BY AtLocked DEF Locked
<1>2. place \in Places
    BY DEF Places, Locked
<1>3. proc[p].at \in WithCredit /\ place \notin Reading
    BY DEF WithCredit, Reading
<1> QED
    BY <1>1, <1>2, <1>3, GotoStep

\* An answer or an error brings a scheduler to the record of it.
LEMMA UseAnswered ==
    ASSUME IndInv, NEW p \in Procs, proc[p].at \in {"using", "writing", "posting", "sent"},
           NEW answer \in Outcomes \cup {"error"},
           proc' = [proc EXCEPT ![p].at = "saving", ![p].answer = answer],
           UNCHANGED <<stored, fresh, edit, executor, planned>>, Outer'
    PROVE  IndInv'
<1> DEFINE r == [proc[p] EXCEPT !.at = "saving", !.answer = answer]
<1>1. executor = p
    BY AtLocked DEF Locked
<1>2. /\ proc \in [Procs -> Process] /\ proc[p] \in Process /\ planned \subseteq Schedulers
      /\ DOMAIN proc[p].snap.entries \subseteq DOMAIN stored.entries
    BY ProcTyped
<1>3. r \in Process /\ r.at = "saving" /\ r.entry = proc[p].entry /\ r.snap = proc[p].snap
      /\ r.credit = proc[p].credit
    BY <1>2 DEF Process, Places, Locked
<1>4. proc' = [proc EXCEPT ![p] = r]
    BY <1>2
<1>5. /\ p \in Schedulers =>
           r.entry \in DOMAIN stored.entries /\ stored.entries[r.entry].state = "running"
      /\ r.credit \in Credits
    BY <1>3 DEF IndInv, Claims, Chosen, WithCredit
<1>6. /\ r.at \notin Reading
      /\ r.at \notin {"rebuilding", "rewriting", "preflight", "claiming"}
      /\ DOMAIN r.snap.entries \subseteq DOMAIN stored.entries
    BY <1>2, <1>3 DEF Reading
<1> HIDE DEF r
<1> QED
    BY <1>1, <1>2, <1>3, <1>4, <1>5, <1>6, OwnStep

LEMMA UseFailsStep ==
    ASSUME IndInv, NEW p \in Procs, proc[p].at \in {"using", "writing", "posting", "sent"},
           UseFails(p), UNCHANGED <<stored, fresh, edit>>, Outer'
    PROVE  IndInv'
<1>1. CASE Return(p)
    BY <1>1, ReturnStep
<1>2. CASE /\ proc' = [proc EXCEPT ![p].at = "saving", ![p].answer = "error"]
           /\ UNCHANGED <<executor, planned>>
    BY <1>2, UseAnswered
<1> QED
    BY <1>1, <1>2 DEF UseFails

LEMMA UseStep ==
    ASSUME IndInv, NEW p \in Procs, Use(p)
    PROVE  IndInv'
<1>1. Outer /\ proc[p].at = "using" /\ UNCHANGED <<stored, fresh, edit, outside>>
    BY ProcTyped DEF Use
<1>2. CASE UseFails(p) /\ UNCHANGED attempts
    BY <1>1, <1>2, OuterKept, UseFailsStep DEF Outer
<1>3. CASE Goto(p, "posting") /\ UNCHANGED <<attempts, executor, planned>>
    BY <1>1, <1>3, OuterKept, UseGoes DEF Outer
<1>4. CASE /\ attempts' = [attempts EXCEPT ![proc[p].credit] = "torn"]
           /\ Goto(p, "writing") /\ UNCHANGED <<executor, planned>>
    BY <1>1, <1>4, AttemptTyped, OuterKept, UseGoes
<1> QED
    BY <1>2, <1>3, <1>4 DEF Use

LEMMA WriteStep ==
    ASSUME IndInv, NEW p \in Procs, Write(p)
    PROVE  IndInv'
<1>1. Outer /\ proc[p].at = "writing" /\ UNCHANGED <<stored, fresh, edit, outside>>
    BY ProcTyped DEF Write
<1>2. Outer'
    BY <1>1, AttemptTyped, OuterKept DEF Write, Ensured, EnsureFails
<1>3. CASE Goto(p, "posting") /\ UNCHANGED <<executor, planned>>
    BY <1>1, <1>2, <1>3, UseGoes
<1>4. CASE UseFails(p)
    BY <1>1, <1>2, <1>4, UseFailsStep
<1> QED
    BY <1>3, <1>4 DEF Write

LEMMA PostStep ==
    ASSUME IndInv, NEW p \in Procs, Post(p)
    PROVE  IndInv'
<1>1. Outer /\ proc[p].at = "posting" /\ proc[p].credit \in Credits
    BY ProcTyped DEF Post, IndInv, Chosen, WithCredit
<1>2. Outer' /\ UNCHANGED <<stored, fresh, edit, executor, planned>>
    BY <1>1 DEF Post, Outer, disk
<1>3. Goto(p, "sent")
    BY DEF Post
<1> QED
    BY <1>1, <1>2, <1>3, UseGoes

LEMMA DeliverStep ==
    ASSUME IndInv, NEW c \in Credits, NEW answered \in BOOLEAN, Deliver(c, answered)
    PROVE  IndInv'
<1>1. Outer
    BY DEF IndInv, TypeOK, Outer
<1>2. UNCHANGED <<stored, fresh, edit, executor, planned, attempts, now, env>>
    BY DEF Deliver, disk
<1>3. wire' \subseteq wire /\ redeemed' \subseteq redeemed \cup {c} /\ open' \subseteq open
    BY DEF Deliver
<1>4. Outer'
    BY <1>1, <1>2, <1>3 DEF Outer
<1>5. CASE UNCHANGED proc
    BY <1>2, <1>4, <1>5, OuterStep
<1>6. ASSUME NEW p \in Procs, NEW answer \in Outcomes, proc[p].at = "sent",
             proc' = [proc EXCEPT ![p].at = "saving", ![p].answer = answer]
      PROVE  IndInv'
    BY <1>2, <1>4, <1>6, UseAnswered
<1> QED
    BY <1>5, <1>6 DEF Deliver

LEMMA NoAnswerStep ==
    ASSUME IndInv, NEW p \in Procs, NoAnswer(p)
    PROVE  IndInv'
<1>1. Outer' /\ proc[p].at = "sent" /\ UNCHANGED <<stored, fresh, edit>>
    BY ProcTyped, OuterKept DEF NoAnswer, disk, Outer
<1> QED
    BY <1>1, UseFailsStep DEF NoAnswer

\* What is recorded has the entries of what was there.
LEMMA RecordedAlike ==
    ASSUME stored \in Schedule, NEW p \in Procs
    PROVE  Alike(stored, Recorded(p))
<1>1. ASSUME NEW i, NEW answer
      PROVE  Alike(stored, ApplyResult(stored, i, answer))
  <2> DEFINE state == CASE answer \in {"reset", "already_redeemed"} -> "completed"
                        [] answer = "nothing_to_reset" -> "skipped"
                        [] OTHER -> "missed"
             e == [stored.entries[i] EXCEPT !.backoff = FALSE, !.outcome = TRUE, !.state = state]
             t == [stored EXCEPT !.entries = [@ EXCEPT ![i] = e]]
  <2>1. state \in EntryStates
      BY DEF EntryStates, Terminal
  <2> HIDE DEF state
  <2>2. i \in DOMAIN stored.entries => e \in Entry
      BY <2>1, EntryOf DEF Entry
  <2>3. ApplyResult(stored, i, answer) = Invalidated(t)
      BY DEF ApplyResult, state
  <2> HIDE DEF e
  <2>4. Alike(stored, t)
      BY <2>2, AlikeEntry
  <2> HIDE DEF t
  <2> QED
      BY <2>3, <2>4, AlikeFlags, AlikeTrans DEF Alike
<1>2. ASSUME NEW i
      PROVE  Alike(stored, [stored EXCEPT !.entries[i] =
                              [@ EXCEPT !.state = "retrying", !.backoff = TRUE]])
  <2> DEFINE e == [stored.entries[i] EXCEPT !.state = "retrying", !.backoff = TRUE]
             t == [stored EXCEPT !.entries = [@ EXCEPT ![i] = e]]
  <2>1. i \in DOMAIN stored.entries => e \in Entry
      BY EntryOf DEF Entry, EntryStates, Claimed
  <2>2. t = [stored EXCEPT !.entries[i] = [@ EXCEPT !.state = "retrying", !.backoff = TRUE]]
      OBVIOUS
  <2> HIDE DEF e
  <2>3. Alike(stored, t)
      BY <2>1, AlikeEntry
  <2> QED
      BY <2>2, <2>3 DEF e
<1>3. Alike(stored, stored)
    BY AlikeFlags
<1>4. CASE p \in Schedulers /\ proc[p].answer = "error"
  <2>1. Recorded(p) = [stored EXCEPT !.entries[proc[p].entry] =
                         [@ EXCEPT !.state = "retrying", !.backoff = TRUE]]
      BY <1>4, ResetAssumption DEF Recorded
  <2> QED
      BY <1>2, <2>1
<1>5. CASE p \in Schedulers /\ proc[p].answer # "error"
  <2>1. Recorded(p) = ApplyResult(stored, proc[p].entry, proc[p].answer)
      BY <1>5, ResetAssumption DEF Recorded
  <2> QED
      BY <1>1, <2>1
<1>6. CASE p \notin Schedulers
  <2> DEFINE own == {i \in DOMAIN stored.entries :
                       /\ stored.entries[i].credit = proc[p].credit
                       /\ ~IsTerminal(stored.entries[i])}
             first == CHOOSE i \in own : \A j \in own : i <= j
  <2>1. Recorded(p) = IF p \in Users /\ own # {}
                      THEN ApplyResult(stored, first, proc[p].answer) ELSE stored
      BY <1>6 DEF Recorded
  <2> HIDE DEF own, first
  <2> QED
      BY <1>1, <1>3, <2>1
<1> QED
    BY <1>4, <1>5, <1>6

LEMMA RecordStep ==
    ASSUME IndInv, NEW p \in Procs, Record(p)
    PROVE  IndInv'
<1> DEFINE t == Recorded(p)
<1>1. stored \in Schedule /\ Outer /\ proc[p].at = "saving" /\ executor = p
    BY ProcTyped, AtLocked DEF Record, Locked
<1>2. Outer' /\ edit' = edit
    BY <1>1, OuterKept DEF Record, Outer
<1>3. Alike(stored, t)
    BY <1>1, RecordedAlike
<1>4. \/ /\ UNCHANGED <<stored, fresh>> \/ Put(t)
         /\ Return(p) \/ (Goto(p, "removing") /\ UNCHANGED <<executor, planned>>)
      \/ UpdateFails(t) /\ Return(p)
    BY DEF Record
<1> HIDE DEF t
<1>5. \/ stored' = stored /\ fresh' = fresh
      \/ Alike(stored, stored') /\ fresh' = {}
    BY <1>1, <1>3, <1>4, PutFacts, UpdateFailsFacts
<1>6. CASE Return(p)
    BY <1>1, <1>2, <1>5, <1>6, ReturnStep
<1>7. CASE Goto(p, "removing") /\ UNCHANGED <<executor, planned>>
    BY <1>1, <1>2, <1>5, <1>7, GotoStep DEF Places, Locked, WithCredit, Reading
<1> QED
    BY <1>4, <1>6, <1>7

LEMMA RemoveAttemptStep ==
    ASSUME IndInv, NEW p \in Procs, RemoveAttempt(p)
    PROVE  IndInv'
<1>1. Outer /\ UNCHANGED <<stored, fresh, edit, outside>> /\ executor = p
    BY ProcTyped, AtLocked DEF RemoveAttempt, Locked
<1>2. Outer'
    BY <1>1, AttemptTyped, OuterKept DEF RemoveAttempt, Outer
<1>3. CASE Return(p)
    BY <1>1, <1>2, <1>3, ReturnStep
<1>4. CASE Goto(p, "warning") /\ UNCHANGED <<executor, planned>>
    BY <1>1, <1>2, <1>4, GotoStep DEF Places, Locked, WithCredit, Reading
<1> QED
    BY <1>3, <1>4 DEF RemoveAttempt

\* The warning is saved, or not.
LEMMA WarnStep ==
    ASSUME IndInv, NEW p \in Procs, Warn(p)
    PROVE  IndInv'
<1>1. stored \in Schedule /\ Outer /\ executor = p
    BY ProcTyped, AtLocked DEF Warn, Locked
<1>2. Outer' /\ edit' = edit /\ Return(p)
    BY <1>1, OuterKept DEF Warn, Outer
<1>3. Alike(stored, stored)
    BY <1>1, AlikeFlags
<1>4. \/ stored' = stored /\ fresh' = fresh
      \/ Alike(stored, stored') /\ fresh' = {}
    BY <1>1, <1>3, PutFacts, UpdateFailsFacts DEF Warn
<1> QED
    BY <1>1, <1>2, <1>4, ReturnStep

LEMMA PrepareUseStep ==
    ASSUME IndInv, NEW u \in Users, PrepareUse(u)
    PROVE  IndInv'
<1>0. u \in Procs /\ u \notin Schedulers
    BY ResetAssumption DEF Procs
<1>1. /\ proc \in [Procs -> Process] /\ proc[u] \in Process /\ Outer /\ planned \subseteq Schedulers
      /\ DOMAIN proc[u].snap.entries \subseteq DOMAIN stored.entries
    BY <1>0, ProcTyped
<1>2. PICK c \in Credits : proc' = [proc EXCEPT ![u].at = "confirming", ![u].credit = c]
    BY DEF PrepareUse
<1> DEFINE r == [proc[u] EXCEPT !.at = "confirming", !.credit = c]
<1>3. r \in Process /\ r.at = "confirming" /\ r.credit = c /\ r.snap = proc[u].snap
    BY <1>1 DEF Process, Places
<1>4. proc' = [proc EXCEPT ![u] = r]
    BY <1>1, <1>2
<1>5. Outer'
  <2>1. env.uses \in Nat /\ env.uses > 0 /\ env \in Environment
      BY <1>1 DEF Outer, Environment, PrepareUse
  <2>2. env' \in Environment
      BY <2>1 DEF PrepareUse, Environment
  <2> QED
      BY <1>1, <2>2 DEF PrepareUse, Outer, disk
<1>6. UNCHANGED <<stored, fresh, edit, executor, planned>>
    BY DEF PrepareUse, disk
<1>7. r.at \notin Locked /\ r.at \notin Reading
    BY <1>3 DEF Locked, Reading
<1> HIDE DEF r
<1> QED
    BY <1>0, <1>1, <1>3, <1>4, <1>5, <1>6, <1>7, OwnStep

LEMMA ExecuteUseStep ==
    ASSUME IndInv, NEW u \in Users, ExecuteUse(u)
    PROVE  IndInv'
<1>0. u \in Procs /\ u \notin Schedulers
    BY ResetAssumption DEF Procs
<1>1. Outer' /\ UNCHANGED <<stored, fresh, edit>> /\ proc[u].at = "confirming"
    BY <1>0, ProcTyped, OuterKept DEF ExecuteUse, disk, Outer
<1>2. CASE Return(u)
    BY <1>0, <1>1, <1>2, ReturnStep
<1>3. CASE executor = None /\ executor' = u /\ Goto(u, "using") /\ UNCHANGED planned
    BY <1>0, <1>1, <1>3, GotoStep DEF Places, Locked, WithCredit, Reading
<1> QED
    BY <1>2, <1>3 DEF ExecuteUse

LEMMA CrashStep ==
    ASSUME IndInv, NEW p \in Procs, Crash(p)
    PROVE  IndInv'
<1>1. Outer'
  <2>1. Outer
      BY ProcTyped
  <2>2. env.crashes \in Nat /\ env.crashes > 0 /\ env \in Environment
      BY <2>1 DEF Outer, Environment, Crash
  <2>3. env' \in Environment
      BY <2>2 DEF Crash, Environment
  <2> QED
      BY <2>1, <2>3 DEF Crash, Outer, disk
<1> QED
    BY <1>1, ReturnStep DEF Crash, disk

-----------------------------------------------------------------------------
(* The editor and the clock.                                               *)

LEMMA PrepareScheduleStep ==
    ASSUME IndInv, NEW command \in Commands, PrepareSchedule(command)
    PROVE  IndInv'
<1>1. /\ TypeOK /\ Outer /\ now \in Times /\ env \in Environment /\ stored \in Schedule
    BY DEF IndInv, TypeOK, Outer
<1>2. PICK changed \in Edited(command, stored) :
         Len(changed.entries) <= env.entries /\ edit' \in Prepared(command, changed)
    BY DEF PrepareSchedule
<1>3. stored \in LongSchedule /\ env.entries \in 0..MaxEntries
    BY <1>1, Bounded DEF Environment
<1>4. changed \in LongSchedule /\ Extends(stored, changed)
    BY <1>1, <1>2, <1>3, EditedKeep
<1>5. changed \in Schedule
    BY <1>2, <1>3, <1>4, BoundedBy
<1>6. edit' \in Schedule /\ Extends(changed, edit')
    BY <1>2, <1>5, PreparedKeep DEF Keeps
<1>7. Extends(stored, edit')
    BY <1>4, <1>6, ExtendsTrans
<1>8. /\ UNCHANGED <<now, stored, attempts, executor, proc, wire, redeemed, open, planned>>
      /\ fresh' = fresh \cup {Editor} /\ env' = [env EXCEPT !.changes = @ - 1]
    BY DEF PrepareSchedule
<1>9. env' \in Environment
  <2>1. env.changes \in Nat /\ env.changes > 0
      BY <1>1 DEF Environment, PrepareSchedule
  <2> QED
      BY <1>1, <1>8, <2>1 DEF Environment
<1>10. TypeOK'
    BY <1>1, <1>6, <1>8, <1>9 DEF TypeOK
<1>11. Edits'
    BY <1>7, <1>8 DEF Edits
<1>12. \A p \in Procs : (Locks(p) /\ Copies(p) /\ Chosen(p) /\ Claims(p))'
    BY <1>8, Numbers DEF IndInv, Locks, Copies, Chosen, Claims
<1> QED
    BY <1>10, <1>11, <1>12 DEF IndInv

LEMMA ApplyScheduleStep ==
    ASSUME IndInv, ApplySchedule
    PROVE  IndInv'
<1>1. /\ TypeOK /\ stored \in Schedule /\ edit # None /\ edit \in Schedule
      /\ edit' = None /\ UNCHANGED <<attempts, executor, proc, planned, outside>>
    BY DEF IndInv, TypeOK, ApplySchedule
<1>2. Edits'
    BY <1>1 DEF Edits
<1>3. CASE fresh' = fresh \ {Editor} /\ UNCHANGED stored
  <2>1. TypeOK'
      BY <1>1, <1>3 DEF TypeOK, outside
  <2>2. \A p \in Procs : (Locks(p) /\ Copies(p) /\ Chosen(p) /\ Claims(p))'
      BY <1>1, <1>3 DEF IndInv, Locks, Copies, Chosen, Claims
  <2> QED
      BY <1>2, <2>1, <2>2 DEF IndInv
<1>4. CASE Editor \in fresh /\ Put(edit)
  <2>1. Extends(stored, edit)
      BY <1>1, <1>4 DEF IndInv, Edits
  <2>2. stored' \in Schedule /\ stored'.entries = edit.entries /\ fresh' = {}
      BY <1>1, <1>4, AlikeFlags DEF Put, Alike
  <2>3. TypeOK'
      BY <1>1, <2>2 DEF TypeOK, outside
  <2>4. ASSUME NEW p \in Procs
        PROVE  (Locks(p) /\ Copies(p) /\ Chosen(p) /\ Claims(p))'
    <3>1. Locks(p) /\ Copies(p) /\ Chosen(p) /\ Claims(p)
        BY DEF IndInv
    <3>2. Locks(p)' /\ Chosen(p)'
        BY <1>1, <3>1 DEF Locks, Chosen
    <3>3. Copies(p)'
        BY <1>1, <2>1, <2>2, <3>1 DEF Copies, Extends
    <3>4. Claims(p)'
        BY <1>1, <2>1, <2>2, <3>1 DEF Claims, Extends, Revises, Editable
    <3> QED
        BY <3>2, <3>3, <3>4
  <2> QED
      BY <1>2, <2>3, <2>4 DEF IndInv
<1> QED
    BY <1>3, <1>4 DEF ApplySchedule

LEMMA TickStep ==
    ASSUME IndInv, Tick
    PROVE  IndInv'
<1>1. Outer
    BY DEF IndInv, TypeOK, Outer
<1>2. now' \in Times
  <2>1. now \in 0..MaxNow /\ env.until \in 0..MaxNow /\ now < env.until /\ now' = now + 1
      BY <1>1 DEF Outer, Times, Environment, Tick
  <2> QED
      BY <2>1, Numbers DEF Times
<1>3. Outer'
    BY <1>1, <1>2 DEF Outer, Tick, disk
<1> QED
    BY <1>3, OuterStep DEF Tick, disk

\* The entries of s as far as anything but the clock is concerned.
Same(s, t) ==
    \A i \in DOMAIN s.entries :
        /\ t.entries[i].credit = s.entries[i].credit
        /\ t.entries[i].state = s.entries[i].state
        /\ t.entries[i].outcome = s.entries[i].outcome

\* A moment that passes in every copy: each copy keeps its entries and their states.
LEMMA PastStep ==
    ASSUME IndInv, UNCHANGED <<attempts, fresh, executor, planned, outside>>,
           \A p \in Procs : /\ Alike(proc[p].snap, proc'[p].snap)
                            /\ proc[p].snap = stored => proc'[p].snap = stored',
           proc' = [p \in Procs |-> [proc[p] EXCEPT !.snap = proc'[p].snap]],
           Alike(stored, stored'),
           Same(stored, stored'),
           edit = None => edit' = None,
           edit # None => Alike(edit, edit') /\ Same(edit, edit')
    PROVE  IndInv'
<1>1. /\ TypeOK /\ proc \in [Procs -> Process] /\ stored \in Schedule
      /\ edit = None \/ edit \in Schedule
    BY DEF IndInv, TypeOK
<1>2. stored' \in Schedule /\ DOMAIN stored'.entries = DOMAIN stored.entries
    BY DEF Alike
<1>3. ASSUME NEW p \in Procs
      PROVE  /\ proc'[p] \in Process
             /\ proc'[p].at = proc[p].at /\ proc'[p].entry = proc[p].entry
             /\ proc'[p].credit = proc[p].credit
             /\ DOMAIN proc'[p].snap.entries = DOMAIN proc[p].snap.entries
  <2> DEFINE t == proc'[p].snap
  <2>1. proc[p] \in Process
      BY <1>1
  <2>2. proc'[p] = [proc[p] EXCEPT !.snap = t]
      OBVIOUS
  <2>3. t \in Schedule /\ DOMAIN t.entries = DOMAIN proc[p].snap.entries
      BY DEF Alike
  <2> HIDE DEF t
  <2>4. proc'[p].snap = t
      BY DEF t
  <2> QED
      BY <2>1, <2>2, <2>3, <2>4 DEF Process
<1>4. proc' \in [Procs -> Process]
  <2>1. proc' = [p \in Procs |-> proc'[p]]
      OBVIOUS
  <2> QED
      BY <1>3, <2>1
<1>5. edit # None => edit' \in Schedule /\ DOMAIN edit'.entries = DOMAIN edit.entries
    BY DEF Alike
<1>6. TypeOK'
    BY <1>1, <1>2, <1>4, <1>5 DEF TypeOK, outside
<1>7. Edits'
  <2>1. CASE edit = None
      BY <2>1 DEF Edits
  <2>2. CASE edit # None
      BY <1>2, <1>5, <2>2 DEF IndInv, Edits, Extends, Revises, Revisable, Editable, Same
  <2> QED
      BY <2>1, <2>2
<1>8. ASSUME NEW p \in Procs
      PROVE  (Locks(p) /\ Copies(p) /\ Chosen(p) /\ Claims(p))'
  <2>1. Locks(p) /\ Copies(p) /\ Chosen(p) /\ Claims(p) /\ executor' = executor /\ fresh' = fresh
      BY DEF IndInv
  <2>2. Locks(p)' /\ Chosen(p)'
      BY <1>3, <2>1 DEF Locks, Chosen
  <2>3. Copies(p)'
      BY <1>2, <1>3, <2>1 DEF Copies
  <2>4. Claims(p)'
      BY <1>2, <1>3, <2>1 DEF Claims, Same
  <2> QED
      BY <2>2, <2>3, <2>4
<1> QED
    BY <1>6, <1>7, <1>8 DEF IndInv

\* A plan that falls due, in one copy.
Stale(s) == [s EXCEPT !.replanDue = TRUE]

\* The end of the backoff of some entries, in one copy.
LEMMA RestedAlike ==
    ASSUME NEW s \in Schedule, NEW S
    PROVE  /\ Alike(s, Rested(s, S))
           /\ Same(s, Rested(s, S))
<1> DEFINE es == [i \in DOMAIN s.entries |->
                    IF i \in S THEN [s.entries[i] EXCEPT !.backoff = FALSE] ELSE s.entries[i]]
<1>1. PICK n \in 0..MaxEntries : s.entries \in [1..n -> Entry]
    BY Bounded
<1>2. Rested(s, S) = [s EXCEPT !.entries = es]
    BY DEF Rested
<1>3. /\ es \in [1..n -> Entry]
      /\ \A i \in 1..n : /\ es[i].credit = s.entries[i].credit
                        /\ es[i].state = s.entries[i].state
                        /\ es[i].outcome = s.entries[i].outcome
    BY <1>1 DEF Entry
<1> HIDE DEF es
<1>4. Rested(s, S) \in Schedule /\ Rested(s, S).entries = es
    BY <1>2, <1>3 DEF Schedule
<1> QED
    BY <1>1, <1>3, <1>4 DEF Alike, Same

LEMMA StaleAlike ==
    ASSUME NEW s \in Schedule
    PROVE  /\ Alike(s, Stale(s))
           /\ Same(s, Stale(s))
BY DEF Alike, Schedule, Stale, Same

LEMMA BackoffEndsStep ==
    ASSUME IndInv, NEW S, BackoffEnds(S)
    PROVE  IndInv'
<1>1. /\ proc \in [Procs -> Process] /\ stored \in Schedule
      /\ edit = None \/ edit \in Schedule
    BY DEF IndInv, TypeOK
<1>2. /\ stored' = Rested(stored, S) /\ edit' = IF edit = None THEN None ELSE Rested(edit, S)
      /\ proc' = [p \in Procs |-> [proc[p] EXCEPT !.snap = Rested(@, S)]]
      /\ UNCHANGED <<attempts, fresh, executor, planned, outside>>
    BY DEF BackoffEnds, Past
<1>3. ASSUME NEW p \in Procs
      PROVE  Alike(proc[p].snap, proc'[p].snap) /\ proc'[p].snap = Rested(proc[p].snap, S)
  <2>1. proc[p] \in Process /\ proc[p].snap \in Schedule
      BY <1>1 DEF Process
  <2>2. proc'[p].snap = Rested(proc[p].snap, S)
      BY <1>2, <2>1 DEF Process
  <2> QED
      BY <2>1, <2>2, RestedAlike
<1>4. proc' = [p \in Procs |-> [proc[p] EXCEPT !.snap = proc'[p].snap]]
    BY <1>2, <1>3
<1>5. /\ Alike(stored, stored')
      /\ Same(stored, stored')
      /\ edit = None => edit' = None
      /\ edit # None => Alike(edit, edit') /\ Same(edit, edit')
    BY <1>1, <1>2, RestedAlike
<1> QED
    BY <1>2, <1>3, <1>4, <1>5, PastStep

LEMMA ReplanFallsDueStep ==
    ASSUME IndInv, ReplanFallsDue
    PROVE  IndInv'
<1>1. /\ proc \in [Procs -> Process] /\ stored \in Schedule
      /\ edit = None \/ edit \in Schedule
    BY DEF IndInv, TypeOK
<1>2. /\ stored' = Stale(stored) /\ edit' = IF edit = None THEN None ELSE Stale(edit)
      /\ proc' = [p \in Procs |-> [proc[p] EXCEPT !.snap = Stale(@)]]
      /\ UNCHANGED <<attempts, fresh, executor, planned, outside>>
    BY DEF ReplanFallsDue, Past, Stale
<1>3. ASSUME NEW p \in Procs
      PROVE  Alike(proc[p].snap, proc'[p].snap) /\ proc'[p].snap = Stale(proc[p].snap)
  <2>1. proc[p] \in Process /\ proc[p].snap \in Schedule
      BY <1>1 DEF Process
  <2>2. proc'[p].snap = Stale(proc[p].snap)
      BY <1>2, <2>1 DEF Process
  <2> QED
      BY <2>1, <2>2, StaleAlike
<1>4. proc' = [p \in Procs |-> [proc[p] EXCEPT !.snap = proc'[p].snap]]
    BY <1>2, <1>3
<1>5. /\ Alike(stored, stored')
      /\ Same(stored, stored')
      /\ edit = None => edit' = None
      /\ edit # None => Alike(edit, edit') /\ Same(edit, edit')
    BY <1>1, <1>2, StaleAlike
<1> QED
    BY <1>2, <1>3, <1>4, <1>5, PastStep

-----------------------------------------------------------------------------
(* The specification.                                                      *)

LEMMA InitHolds == Init => IndInv
<1> SUFFICES ASSUME Init PROVE IndInv
    OBVIOUS
<1>1. TypeOK
    BY IdleTyped, Numbers, ResetAssumption DEF Init, TypeOK, Times
<1>2. ASSUME NEW p \in Procs
      PROVE  Locks(p) /\ Copies(p) /\ Chosen(p) /\ Claims(p)
  <2>1. proc[p].at = "idle" /\ proc[p].snap = NoSchedule /\ stored = NoSchedule
      BY DEF Init, Idle
  <2> QED
      BY <2>1, IdleTyped DEF Locks, Copies, Chosen, Claims, Locked, WithCredit
<1>3. Edits
    BY DEF Init, Edits
<1> QED
    BY <1>1, <1>2, <1>3 DEF IndInv

LEMMA NextKeeps == IndInv /\ [Next]_vars => IndInv'
<1> SUFFICES ASSUME IndInv, [Next]_vars PROVE IndInv'
    OBVIOUS
<1>1. ASSUME NEW p \in Schedulers, Step(p) PROVE IndInv'
    BY <1>1, LoadStep, CleanLoadedStep, AcquireExecutorStep, CleanLockedStep, ReplanStep,
       PickStep, RebuildStep, RewriteStep, PreflightStep, ClaimStep DEF Step
<1>2. ASSUME NEW p \in Procs, Execute(p) \/ Crash(p) PROVE IndInv'
    BY <1>2, UseStep, WriteStep, PostStep, NoAnswerStep, RecordStep, RemoveAttemptStep, WarnStep,
       CrashStep DEF Execute
<1>3. ASSUME NEW u \in Users, PrepareUse(u) \/ ExecuteUse(u) PROVE IndInv'
    BY <1>3, PrepareUseStep, ExecuteUseStep
<1>4. ASSUME NEW c \in Credits, NEW answered \in BOOLEAN, Deliver(c, answered) PROVE IndInv'
    BY <1>4, DeliverStep
<1>5. ASSUME NEW command \in Commands, PrepareSchedule(command) PROVE IndInv'
    BY <1>5, PrepareScheduleStep
<1>6. CASE ApplySchedule
    BY <1>6, ApplyScheduleStep
<1>7. CASE Tick
    BY <1>7, TickStep
<1>8. ASSUME NEW S \in SUBSET (1..MaxEntries), BackoffEnds(S) PROVE IndInv'
    BY <1>8, BackoffEndsStep
<1>9. CASE ReplanFallsDue
    BY <1>9, ReplanFallsDueStep
<1>10. CASE UNCHANGED vars
  <2>1. Outer
      BY DEF IndInv, TypeOK, Outer
  <2>2. Outer' /\ UNCHANGED <<stored, proc, executor, edit, fresh, planned>>
      BY <1>10, <2>1 DEF vars, Outer
  <2> QED
      BY <2>2, OuterStep
<1> QED
    BY <1>1, <1>2, <1>3, <1>4, <1>5, <1>6, <1>7, <1>8, <1>9, <1>10 DEF Next

\* The inductive invariant: whoever is past AcquireResetAutomationExecutor has the
\* lock, copies name no entry that the schedule has lost, what a scheduler has
\* claimed stays running until it records the outcome, and an edit that would still
\* be saved has every entry and every claim of the schedule it would replace.
THEOREM ResetInvariant == Spec => []IndInv
<1>1. Init => IndInv
    BY InitHolds
<1>2. IndInv /\ [Next]_vars => IndInv'
    BY NextKeeps
<1> QED
    BY <1>1, <1>2, PTL DEF Spec

\* The state of reset schedule, journal and processes is well typed, however many
\* credits, schedulers and users there are: the entries stay within their bound, and
\* every update, edit and recorded outcome leaves a schedule.
THEOREM ResetTypeCorrect == Spec => []TypeOK
<1>1. IndInv => TypeOK
    BY DEF IndInv
<1> QED
    BY <1>1, ResetInvariant, PTL

\* executeAutomationEntry sends a redemption only under the executor lock and for an
\* entry that the saved schedule shows as running, whatever edits, plans, manual
\* uses, crashes and other schedulers come between its claim and its request.
THEOREM SentStaysClaimed == Spec => []SentIsClaimed
<1>1. IndInv => SentIsClaimed
  <2> SUFFICES ASSUME IndInv, NEW p \in Schedulers,
                      proc[p].at \in {"writing", "posting", "sent"}
               PROVE  executor = p /\ stored.entries[proc[p].entry].state = "running"
      BY DEF SentIsClaimed
  <2>1. p \in Procs
      BY DEF Procs
  <2>2. Locks(p) /\ Claims(p)
      BY <2>1 DEF IndInv
  <2> QED
      BY <2>2 DEF Locks, Claims, Locked
<1> QED
    BY <1>1, ResetInvariant, PTL

-----------------------------------------------------------------------------
(* What becomes of a claim.                                                *)

\* The claims of s that t keeps, or has left with an outcome.
LeftWell(s, t) ==
    \A i \in DOMAIN s.entries : s.entries[i].state \in Claimed =>
        \/ t.entries[i].state \in Claimed
        \/ t.entries[i].state \in Terminal /\ t.entries[i].outcome

\* A preflight of a claimed entry finds the attempt that the step has seen or rebuilt.
AttemptKept ==
    \A p \in Schedulers :
        /\ proc[p].at = "preflight" /\ proc[p].entry \in DOMAIN stored.entries
        /\ stored.entries[proc[p].entry].state \in Claimed
        => attempts[proc[p].credit] = "whole"

LEMMA LeftWellBy ==
    ASSUME stored \in Schedule, NEW t, Alike(stored, t), LeftWell(stored, t),
           Put(t) \/ UpdateFails(t) \/ UNCHANGED <<stored, fresh>>
    PROVE  LeftWell(stored, stored')
<1>1. CASE stored' = stored
    BY <1>1 DEF LeftWell
<1>2. CASE Put(t)
    BY <1>2, PutFacts DEF LeftWell
<1> QED
    BY <1>1, <1>2 DEF UpdateFails

\* One entry changed that is not claimed, stays claimed or has its outcome.
LEMMA EntryLeft ==
    ASSUME NEW s \in Schedule, NEW i, NEW e,
           i \in DOMAIN s.entries => e \in Entry,
           i \in DOMAIN s.entries /\ s.entries[i].state \in Claimed =>
              e.state \in Claimed \/ (e.state \in Terminal /\ e.outcome),
           NEW t, t = [s EXCEPT !.entries = [@ EXCEPT ![i] = e]]
    PROVE  t \in Schedule /\ Alike(s, t) /\ LeftWell(s, t)
<1>1. PICK n \in 0..MaxEntries : s.entries \in [1..n -> Entry]
    BY Bounded
<1>2. t.entries = [s.entries EXCEPT ![i] = e]
    BY DEF Schedule
<1>3. Alike(s, t)
    BY AlikeEntry
<1>4. \A j \in DOMAIN s.entries : t.entries[j] = IF j = i THEN e ELSE s.entries[j]
    BY <1>1, <1>2
<1> QED
    BY <1>3, <1>4 DEF Alike, LeftWell

\* The flags do not matter.
LEMMA FlagsLeft ==
    ASSUME NEW s, NEW t \in Schedule, LeftWell(s, t), Alike(s, t)
    PROVE  /\ LeftWell(s, Invalidated(t)) /\ Alike(s, Invalidated(t))
           /\ LeftWell(s, [t EXCEPT !.planValid = FALSE, !.replanDue = FALSE])
           /\ Alike(s, [t EXCEPT !.planValid = FALSE, !.replanDue = FALSE])
<1>1. /\ Invalidated(t).entries = t.entries
      /\ [t EXCEPT !.planValid = FALSE, !.replanDue = FALSE].entries = t.entries
    BY DEF Schedule, Invalidated
<1>2. /\ Alike(s, Invalidated(t))
      /\ Alike(s, [t EXCEPT !.planValid = FALSE, !.replanDue = FALSE])
    BY AlikeFlags, AlikeTrans
<1> QED
    BY <1>1, <1>2 DEF LeftWell

LEMMA FinishLeaves ==
    ASSUME stored \in Schedule, NEW p, NEW i \in DOMAIN stored.entries, NEW state \in EntryStates,
           p \in fresh => stored.entries[i].state \notin Claimed, Finish(p, i, state)
    PROVE  LeftWell(stored, stored')
<1> DEFINE e == [stored.entries[i] EXCEPT !.state = state]
           u == [stored EXCEPT !.entries = [@ EXCEPT ![i] = e]]
           t == Invalidated(u)
<1>1. CASE UNCHANGED <<stored, fresh>>
    BY <1>1 DEF LeftWell
<1>2. CASE p \in fresh /\ (Put(t) \/ UpdateFails(t))
  <2>1. e \in Entry
      BY EntryOf DEF Entry
  <2> HIDE DEF e
  <2>2. u \in Schedule /\ Alike(stored, u) /\ LeftWell(stored, u)
      BY <1>2, <2>1, EntryLeft
  <2> HIDE DEF u
  <2>3. Alike(stored, t) /\ LeftWell(stored, t)
      BY <2>2, FlagsLeft
  <2> HIDE DEF t
  <2> QED
      BY <1>2, <2>3, LeftWellBy
<1>3. Invalidated(SetEntry(stored, i, state)) = t
    BY DEF SetEntry
<1> HIDE DEF t
<1> QED
    BY <1>1, <1>2, <1>3 DEF Finish, FencedUpdate

LEMMA BlockLeaves ==
    ASSUME stored \in Schedule, NEW p, proc[p].entry \in DOMAIN stored.entries, Block(p)
    PROVE  LeftWell(stored, stored')
<1> DEFINE i == proc[p].entry
           e == Blocked(stored.entries[i])
           t == [stored EXCEPT !.entries = [@ EXCEPT ![i] = e]]
<1>1. e \in Entry /\ (stored.entries[i].state \in Claimed => e.state \in Claimed)
  <2>1. stored.entries[i] \in Entry
      BY EntryOf
  <2> QED
      BY <2>1 DEF Blocked, Entry, EntryStates
<1>2. (Put(t) \/ UpdateFails(t)) \/ UNCHANGED <<stored, fresh>>
  <2>1. t = [stored EXCEPT !.entries[i] = Blocked(@)]
      OBVIOUS
  <2> QED
      BY <2>1 DEF Block, FencedUpdate
<1> HIDE DEF e
<1>3. Alike(stored, t) /\ LeftWell(stored, t)
    BY <1>1, EntryLeft
<1> HIDE DEF t
<1> QED
    BY <1>2, <1>3, LeftWellBy

LEMMA ReplanLeaves ==
    ASSUME IndInv, NEW p \in Schedulers, Replan(p)
    PROVE  LeftWell(stored, stored')
<1>0. p \in Procs
    BY DEF Procs
<1>1. proc[p].snap \in Schedule /\ stored \in Schedule
    BY <1>0, ProcTyped
<1>2. CASE UNCHANGED stored
    BY <1>2 DEF LeftWell
<1>3. ASSUME p \in fresh, NEW new \in Replans(proc[p].snap), stored' = new \/ UpdateFails(new)
      PROVE  LeftWell(stored, stored')
  <2>1. proc[p].snap = stored
      BY <1>0, <1>3 DEF IndInv, Copies, Reading, Replan
  <2>2. stored \in LongSchedule
      BY <1>1, Bounded
  <2>3. new \in LongSchedule /\ Keeps(stored, new)
      BY <1>3, <2>1, <2>2, ReplansKeep
  <2>4. Alike(stored, new) /\ LeftWell(stored, new)
      BY <1>1, <2>3, AlikeBound DEF Keeps, Extends, Revises, Editable, Claimed, LeftWell
  <2> QED
      BY <1>1, <1>3, <2>4, LeftWellBy
<1> QED
    BY <1>2, <1>3 DEF Replan

LEMMA PickLeaves ==
    ASSUME IndInv, NEW p \in Schedulers, Pick(p)
    PROVE  LeftWell(stored, stored')
<1> DEFINE s == proc[p].snap
<1>0. p \in Procs
    BY DEF Procs
<1>1. stored \in Schedule /\ DOMAIN s.entries \subseteq DOMAIN stored.entries
    BY <1>0, ProcTyped
<1>2. p \in fresh => s = stored
    BY <1>0 DEF IndInv, Copies, Reading, Pick
<1>3. CASE UNCHANGED stored
    BY <1>3 DEF LeftWell
<1>4. ASSUME NEW i \in DOMAIN s.entries, ~Retries(s.entries[i]), Finish(p, i, "missed")
      PROVE  LeftWell(stored, stored')
  <2>1. p \in fresh => stored.entries[i].state \notin Claimed
      BY <1>2, <1>4 DEF Retries
  <2> QED
      BY <1>1, <1>4, <2>1, FinishLeaves DEF EntryStates, Terminal
<1> QED
    BY <1>3, <1>4 DEF Pick

LEMMA PreflightLeaves ==
    ASSUME IndInv, AttemptKept, NEW p \in Schedulers, Preflight(p)
    PROVE  LeftWell(stored, stored')
<1> DEFINE i == proc[p].entry
           c == proc[p].credit
           e == [stored.entries[i] EXCEPT !.at = Never]
           u == [stored EXCEPT !.entries = [@ EXCEPT ![i] = e]]
           t == [u EXCEPT !.planValid = FALSE, !.replanDue = FALSE]
<1>1. p \in Procs /\ i \in DOMAIN stored.entries /\ c \in Credits
    BY EntryPicked DEF Preflight
<1>2. stored \in Schedule
    BY <1>1, ProcTyped
<1>3. CASE UNCHANGED stored
    BY <1>3 DEF LeftWell
<1>4. CASE Block(p)
    BY <1>1, <1>2, <1>4, BlockLeaves
<1>5. CASE c \notin Pending(Account[c]) /\ Finish(p, i, "skipped")
  <2>1. stored.entries[i].state \notin Claimed
      BY <1>1, <1>5 DEF AttemptKept, Preflight, Pending
  <2> QED
      BY <1>1, <1>2, <1>5, <2>1, FinishLeaves DEF EntryStates, Terminal
<1>6. CASE Put(t) \/ UpdateFails(t)
  <2>1. /\ e \in Entry /\ e.state = stored.entries[i].state
      BY <1>1, <1>2, EntryOf, Numbers DEF Entry
  <2> HIDE DEF e
  <2>2. u \in Schedule /\ Alike(stored, u) /\ LeftWell(stored, u)
      BY <1>2, <2>1, EntryLeft
  <2> HIDE DEF u
  <2>3. Alike(stored, t) /\ LeftWell(stored, t)
      BY <2>2, FlagsLeft
  <2> HIDE DEF t
  <2> QED
      BY <1>2, <1>6, <2>3, LeftWellBy
<1>7. \/ UNCHANGED stored \/ Block(p)
      \/ c \notin Pending(Account[c]) /\ Finish(p, i, "skipped")
      \/ Put(t) \/ UpdateFails(t)
  <2>1. [stored EXCEPT !.entries[i].at = Never, !.planValid = FALSE, !.replanDue = FALSE] = t
      OBVIOUS
  <2> HIDE DEF t
  <2> QED
      BY <2>1 DEF Preflight, FencedUpdate
<1> QED
    BY <1>3, <1>4, <1>5, <1>6, <1>7

LEMMA ClaimLeaves ==
    ASSUME IndInv, NEW p \in Schedulers, Claim(p)
    PROVE  LeftWell(stored, stored')
<1> DEFINE i == proc[p].entry
           e == [stored.entries[i] EXCEPT !.state = "running"]
           t == [stored EXCEPT !.entries = [@ EXCEPT ![i] = e]]
<1>1. p \in Procs /\ i \in DOMAIN stored.entries
    BY EntryPicked DEF Claim
<1>2. stored \in Schedule
    BY <1>1, ProcTyped
<1>3. e \in Entry /\ e.state \in Claimed
    BY <1>1, <1>2, EntryOf DEF Entry, EntryStates, Claimed
<1>4. Put(t) \/ UpdateFails(t) \/ UNCHANGED <<stored, fresh>>
  <2>1. SetEntry(stored, i, "running") = t
      BY DEF SetEntry
  <2> HIDE DEF t
  <2> QED
      BY <2>1 DEF Claim
<1> HIDE DEF e
<1>5. Alike(stored, t) /\ LeftWell(stored, t)
    BY <1>2, <1>3, EntryLeft
<1> HIDE DEF t
<1> QED
    BY <1>2, <1>4, <1>5, LeftWellBy

LEMMA RecordLeaves ==
    ASSUME IndInv, NEW p \in Procs, Record(p)
    PROVE  LeftWell(stored, stored')
<1>1. stored \in Schedule
    BY ProcTyped
<1>2. ASSUME NEW i, NEW answer
      PROVE  LeftWell(stored, ApplyResult(stored, i, answer))
  <2> DEFINE state == CASE answer \in {"reset", "already_redeemed"} -> "completed"
                        [] answer = "nothing_to_reset" -> "skipped"
                        [] OTHER -> "missed"
             e == [stored.entries[i] EXCEPT !.backoff = FALSE, !.outcome = TRUE, !.state = state]
             t == [stored EXCEPT !.entries = [@ EXCEPT ![i] = e]]
  <2>1. state \in Terminal
      BY DEF Terminal
  <2> HIDE DEF state
  <2>2. i \in DOMAIN stored.entries => e \in Entry /\ e.state \in Terminal /\ e.outcome
      BY <1>1, <2>1, EntryOf DEF Entry, EntryStates
  <2>3. ApplyResult(stored, i, answer) = Invalidated(t)
      BY DEF ApplyResult, state
  <2> HIDE DEF e
  <2>4. t \in Schedule /\ Alike(stored, t) /\ LeftWell(stored, t)
      BY <1>1, <2>2, EntryLeft
  <2> HIDE DEF t
  <2> QED
      BY <2>3, <2>4, FlagsLeft
<1>3. ASSUME NEW i
      PROVE  LeftWell(stored, [stored EXCEPT !.entries[i] =
                                 [@ EXCEPT !.state = "retrying", !.backoff = TRUE]])
  <2> DEFINE e == [stored.entries[i] EXCEPT !.state = "retrying", !.backoff = TRUE]
             t == [stored EXCEPT !.entries = [@ EXCEPT ![i] = e]]
  <2>1. i \in DOMAIN stored.entries => e \in Entry /\ e.state \in Claimed
      BY <1>1, EntryOf DEF Entry, EntryStates, Claimed
  <2>2. t = [stored EXCEPT !.entries[i] = [@ EXCEPT !.state = "retrying", !.backoff = TRUE]]
      OBVIOUS
  <2> HIDE DEF e
  <2>3. LeftWell(stored, t)
      BY <1>1, <2>1, EntryLeft
  <2> QED
      BY <2>2, <2>3 DEF e
<1>4. LeftWell(stored, stored)
    BY DEF LeftWell
<1>5. LeftWell(stored, Recorded(p))
  <2>1. CASE p \in Schedulers /\ proc[p].answer = "error"
    <3>1. Recorded(p) = [stored EXCEPT !.entries[proc[p].entry] =
                           [@ EXCEPT !.state = "retrying", !.backoff = TRUE]]
        BY <2>1, ResetAssumption DEF Recorded
    <3> QED
        BY <1>3, <3>1
  <2>2. CASE p \in Schedulers /\ proc[p].answer # "error"
    <3>1. Recorded(p) = ApplyResult(stored, proc[p].entry, proc[p].answer)
        BY <2>2, ResetAssumption DEF Recorded
    <3> QED
        BY <1>2, <3>1
  <2>3. CASE p \notin Schedulers
    <3> DEFINE own == {i \in DOMAIN stored.entries :
                         /\ stored.entries[i].credit = proc[p].credit
                         /\ ~IsTerminal(stored.entries[i])}
               first == CHOOSE i \in own : \A j \in own : i <= j
    <3>1. Recorded(p) = IF p \in Users /\ own # {}
                        THEN ApplyResult(stored, first, proc[p].answer) ELSE stored
        BY <2>3 DEF Recorded
    <3> HIDE DEF own, first
    <3> QED
        BY <1>2, <1>4, <3>1
  <2> QED
      BY <2>1, <2>2, <2>3
<1> DEFINE t == Recorded(p)
<1>6. Alike(stored, t)
    BY <1>1, RecordedAlike
<1>7. Put(t) \/ UpdateFails(t) \/ UNCHANGED <<stored, fresh>>
    BY DEF Record
<1>8. LeftWell(stored, t)
    BY <1>5
<1> HIDE DEF t
<1> QED
    BY <1>1, <1>6, <1>7, <1>8, LeftWellBy

LEMMA ApplyScheduleLeaves ==
    ASSUME IndInv, ApplySchedule
    PROVE  LeftWell(stored, stored')
<1>1. CASE UNCHANGED stored
    BY <1>1 DEF LeftWell
<1>2. CASE Editor \in fresh /\ Put(edit)
  <2>1. edit \in Schedule /\ Extends(stored, edit)
      BY <1>2 DEF IndInv, TypeOK, Edits, ApplySchedule
  <2>2. stored'.entries = edit.entries
      BY <1>2, <2>1, AlikeFlags DEF Put
  <2> QED
      BY <2>1, <2>2 DEF Extends, Revises, Editable, Claimed, LeftWell
<1> QED
    BY <1>1, <1>2 DEF ApplySchedule

\* Every step of the system: the two clocks only shift times, and what users,
\* deliveries and the first half of an edit do leaves the schedule alone.
LEMMA NextLeaves == IndInv /\ AttemptKept /\ [Next]_vars => LeftWell(stored, stored')
<1> SUFFICES ASSUME IndInv, AttemptKept, [Next]_vars
             PROVE  LeftWell(stored, stored')
    OBVIOUS
<1>0. CASE UNCHANGED stored
    BY <1>0 DEF LeftWell
<1>1. ASSUME NEW p \in Schedulers, Step(p) PROVE LeftWell(stored, stored')
  <2>1. CASE Load(p) \/ CleanLoaded(p) \/ AcquireExecutor(p) \/ CleanLocked(p)
      BY <1>0, <2>1 DEF Load, CleanLoaded, AcquireExecutor, CleanLocked
  <2>2. CASE Rebuild(p) \/ Rewrite(p)
    <3>1. /\ p \in Procs /\ proc[p].entry \in DOMAIN stored.entries /\ stored \in Schedule
          /\ UNCHANGED stored \/ Block(p)
        BY <2>2, EntryPicked, ProcTyped DEF Rebuild, Rewrite
    <3> QED
        BY <1>0, <3>1, BlockLeaves
  <2> QED
      BY <1>1, <2>1, <2>2, ReplanLeaves, PickLeaves, PreflightLeaves, ClaimLeaves DEF Step
<1>2. ASSUME NEW p \in Procs, Execute(p) \/ Crash(p) PROVE LeftWell(stored, stored')
  <2>1. CASE Warn(p)
    <3>1. stored \in Schedule /\ (UNCHANGED stored \/ Put(stored))
        BY <2>1, ProcTyped DEF Warn, UpdateFails
    <3>2. UNCHANGED stored \/ stored'.entries = stored.entries
        BY <3>1, AlikeFlags DEF Put
    <3> QED
        BY <1>0, <3>2 DEF LeftWell
  <2> QED
    BY <1>0, <1>2, <2>1, RecordLeaves
       DEF Execute, Crash, Use, Write, Post, NoAnswer, RemoveAttempt, disk
<1>3. ASSUME NEW u \in Users, PrepareUse(u) \/ ExecuteUse(u) PROVE LeftWell(stored, stored')
    BY <1>0, <1>3 DEF PrepareUse, ExecuteUse, disk
<1>4. ASSUME NEW c \in Credits, NEW answered \in BOOLEAN, Deliver(c, answered)
      PROVE  LeftWell(stored, stored')
    BY <1>0, <1>4 DEF Deliver, disk
<1>5. ASSUME NEW command \in Commands, PrepareSchedule(command) PROVE LeftWell(stored, stored')
    BY <1>0, <1>5 DEF PrepareSchedule
<1>6. ASSUME NEW S \in SUBSET (1..MaxEntries), BackoffEnds(S) PROVE LeftWell(stored, stored')
  <2>1. stored \in Schedule /\ stored' = Rested(stored, S)
      BY <1>6 DEF BackoffEnds, Past, IndInv, TypeOK
  <2> QED
      BY <2>1, RestedAlike DEF LeftWell, Same
<1>7. CASE ReplanFallsDue
  <2>1. stored \in Schedule /\ stored' = Stale(stored)
      BY <1>7 DEF ReplanFallsDue, Past, Stale, IndInv, TypeOK
  <2> QED
      BY <2>1, StaleAlike DEF LeftWell, Same
<1>8. CASE Tick \/ UNCHANGED vars
    BY <1>0, <1>8 DEF Tick, disk, vars
<1> QED
    BY <1>1, <1>2, <1>3, <1>4, <1>5, <1>6, <1>7, <1>8, ApplyScheduleLeaves DEF Next

\* ClaimKept, and the one thing it rests on beyond the invariant: as long as the
\* first cleanup of another scheduler (cleanupScheduleAttempts before the executor
\* lock) does not remove the attempt of a claimed entry between its rebuild and its
\* preflight, no plan, edit, failure or crash takes a claim away without an outcome.
THEOREM ClaimsLeftWithOutcome == Spec => [][AttemptKept => LeftWell(stored, stored')]_vars
<1>1. IndInv /\ [Next]_vars => [AttemptKept => LeftWell(stored, stored')]_vars
    BY NextLeaves
<1> QED
    BY <1>1, ResetInvariant, PTL DEF Spec

-----------------------------------------------------------------------------
(* A service that always has something to reset.                           *)
(*                                                                         *)
(* An entry that nothing_to_reset settles is skipped, and its credit may   *)
(* be enrolled again although its old attempt, or the cleanup of it, is    *)
(* still around: OneInDoubt and ClaimKept fail then.  Without that answer  *)
(* an entry with an outcome speaks of a credit that is gone for good       *)
(* (Ledger), so that a cleanup by a copy of the schedule, however old,     *)
(* never takes the attempt of a credit that is claimed or in doubt.        *)

NeverNothing == "nothing" \notin env.faults

\* The credits whose fate the schedule shows.
Known(s) == {s.entries[i].credit : i \in {j \in DOMAIN s.entries : s.entries[j].outcome}}
Doubtful == open \ Known(stored)

\* Redeemed or expired: never to be enrolled again.
Gone(c) == c \in redeemed \/ Expired(c)

\* An outcome is final, and an entry that is not settled is the only one that counts
\* for its credit.
Ledger(s) ==
    /\ \A i \in DOMAIN s.entries : s.entries[i].outcome =>
         s.entries[i].state \in {"completed", "missed"} /\ Gone(s.entries[i].credit)
    /\ \A i, j \in DOMAIN s.entries :
         i # j /\ s.entries[i].credit = s.entries[j].credit /\ ~IsTerminal(s.entries[i])
         => IsTerminal(s.entries[j]) /\ ~s.entries[j].outcome

\* The attempt of a credit in doubt is on record, and its account has no other.
Journal ==
    /\ \A c \in Doubtful : attempts[c] = "whole"
    /\ \A c, d \in Credits :
         Account[c] = Account[d] /\ attempts[c] # "none" /\ attempts[d] # "none" => c = d

\* What a copy shows as settled is settled; a copy read under the lock shows every claim.
Reads(p) ==
    \A i \in DOMAIN proc[p].snap.entries :
        /\ proc[p].snap.entries[i].credit = stored.entries[i].credit
        /\ proc[p].snap.entries[i].outcome => stored.entries[i].outcome
        /\ /\ p \in Schedulers /\ proc[p].at \in {"cleaning", "planning", "picking"}
           /\ stored.entries[i].state \in Claimed
           => proc[p].snap.entries[i].state \in Claimed

\* A scheduler's entry is of its credit, and open as long as the revision is.
WithEntry == {"rebuilding", "rewriting", "preflight", "claiming",
              "using", "writing", "posting", "sent", "saving"}
Works(p) ==
    p \in Schedulers /\ proc[p].at \in WithEntry =>
        /\ stored.entries[proc[p].entry].credit = proc[p].credit
        /\ p \in fresh => ~IsTerminal(stored.entries[proc[p].entry])

\* A new attempt is the only one of its account; a request has its attempt, and a
\* claimed entry has its attempt again before it is prepared.
Attempts(p) ==
    /\ proc[p].at \in {"writing", "rewriting"} =>
         /\ proc[p].credit \notin Doubtful
         /\ \A d \in Credits \ {proc[p].credit} :
              Account[d] = Account[proc[p].credit] => attempts[d] = "none"
    /\ proc[p].at = "posting" =>
         attempts[proc[p].credit] = "whole" \/ proc[p].credit \in Known(stored)
    /\ /\ p \in Schedulers /\ proc[p].at = "preflight"
       /\ stored.entries[proc[p].entry].state \in Claimed
       => attempts[proc[p].credit] = "whole"

\* An answered credit is not in doubt, and the answer is what became of it.
Answers(p) ==
    /\ proc[p].at = "removing" => proc[p].credit \notin open
    /\ proc[p].at = "saving" =>
         IF proc[p].answer = "error" THEN p \in Schedulers
         ELSE /\ proc[p].credit \notin open
              /\ \/ proc[p].answer \in {"reset", "already_redeemed"}
                 \/ proc[p].answer = "no_credit"
              /\ Gone(proc[p].credit)

OwnClear(p) == Reads(p) /\ Works(p) /\ Attempts(p) /\ Answers(p)

Clear ==
    /\ NeverNothing
    /\ Ledger(stored)
    /\ Editor \in fresh /\ edit # None => Ledger(edit)
    /\ Journal
    /\ \A p \in Procs : OwnClear(p)

\* What was settled in s is settled in t.
Advances(s, t) ==
    /\ DOMAIN s.entries \subseteq DOMAIN t.entries
    /\ \A i \in DOMAIN s.entries :
         /\ t.entries[i].credit = s.entries[i].credit
         /\ s.entries[i].outcome => t.entries[i].outcome

\* What is gone stays gone, and the service keeps its ways.
Later ==
    /\ env'.faults = env.faults
    /\ \A c \in Credits : Gone(c) => Gone(c)'

LEMMA KnownGrows ==
    ASSUME NEW s, NEW t, Advances(s, t)
    PROVE  Known(s) \subseteq Known(t)
BY DEF Advances, Known

LEMMA AdvancesRefl == \A s : Advances(s, s)
BY DEF Advances

LEMMA ExtendsAdvances ==
    ASSUME NEW s, NEW t, Extends(s, t)
    PROVE  Advances(s, t)
BY DEF Extends, Revises, Advances

\* A plan or an edit of the entries that are there.
LEMMA LedgerRevised ==
    ASSUME NEW s, Ledger(s), NEW t, Extends(s, t), DOMAIN t.entries = DOMAIN s.entries
    PROVE  Ledger(t)
<1>1. ASSUME NEW i \in DOMAIN s.entries
      PROVE  /\ t.entries[i].credit = s.entries[i].credit
             /\ t.entries[i].outcome = s.entries[i].outcome
             /\ IsTerminal(s.entries[i]) => t.entries[i].state = s.entries[i].state
  <2>1. Revises(s.entries[i], t.entries[i])
      BY DEF Extends
  <2> QED
      BY <2>1 DEF Revises, Editable, IsTerminal, Terminal
<1>2. \A i \in DOMAIN s.entries :
         /\ IsTerminal(s.entries[i]) => IsTerminal(t.entries[i])
         /\ s.entries[i].outcome => IsTerminal(s.entries[i])
    BY <1>1 DEF IsTerminal, Ledger, Terminal
<1> QED
    BY <1>1, <1>2 DEF Ledger

\* One open entry changed, or settled with what became of its credit.
LEMMA LedgerEntry ==
    ASSUME NEW s \in Schedule, Ledger(s), NEW i \in DOMAIN s.entries, ~IsTerminal(s.entries[i]),
           NEW e, e.credit = s.entries[i].credit,
           e.outcome => e.state \in {"completed", "missed"} /\ Gone(e.credit),
           NEW t, t.entries = [s.entries EXCEPT ![i] = e]
    PROVE  Ledger(t) /\ Advances(s, t)
<1>1. PICK n \in 0..MaxEntries : s.entries \in [1..n -> Entry]
    BY Bounded
<1>2. /\ DOMAIN t.entries = DOMAIN s.entries /\ t.entries[i] = e
      /\ \A j \in DOMAIN s.entries \ {i} : t.entries[j] = s.entries[j]
    BY <1>1
<1>3. ~s.entries[i].outcome
    BY DEF Ledger, IsTerminal, Terminal
<1>4. Advances(s, t)
    BY <1>2, <1>3 DEF Advances
<1>5. \A j \in DOMAIN t.entries : t.entries[j].outcome =>
         t.entries[j].state \in {"completed", "missed"} /\ Gone(t.entries[j].credit)
    BY <1>2 DEF Ledger
<1>6. ASSUME NEW j \in DOMAIN s.entries, NEW k \in DOMAIN s.entries, j # k,
             t.entries[j].credit = t.entries[k].credit, ~IsTerminal(t.entries[j])
      PROVE  IsTerminal(t.entries[k]) /\ ~t.entries[k].outcome
  <2>1. s.entries[j].credit = s.entries[k].credit
      BY <1>2, <1>6
  <2>2. CASE j = i
      BY <1>2, <1>6, <2>1, <2>2 DEF Ledger
  <2>3. CASE k = i
      BY <1>2, <1>6, <2>1, <2>3 DEF Ledger
  <2>4. CASE j # i /\ k # i
      BY <1>2, <1>6, <2>1, <2>4 DEF Ledger
  <2> QED
      BY <2>2, <2>3, <2>4
<1> QED
    BY <1>2, <1>4, <1>5, <1>6 DEF Ledger

\* New entries, each the only one of a credit that is still to be had.
LEMMA LedgerAppend ==
    ASSUME NEW s \in LongSchedule, Ledger(s), NEW es \in Seq(Entry),
           \A k \in DOMAIN es :
              /\ ~es[k].outcome /\ ~Gone(es[k].credit)
              /\ \A i \in DOMAIN s.entries :
                    s.entries[i].credit = es[k].credit => IsTerminal(s.entries[i]),
           \A k, l \in DOMAIN es : es[k].credit = es[l].credit => k = l,
           NEW t, t.entries = s.entries \o es
    PROVE  Ledger(t)
<1>1. PICK n \in Nat : s.entries \in [1..n -> Entry] /\ Len(s.entries) = n
    BY Lists
<1>2. s.entries \in Seq(Entry)
    BY <1>1
<1>3. /\ DOMAIN t.entries = 1..Len(t.entries) /\ DOMAIN s.entries = 1..n
      /\ \A i \in 1..n : t.entries[i] = s.entries[i]
      /\ \A i \in (1..Len(t.entries)) \ (1..n) : i - n \in DOMAIN es /\ t.entries[i] = es[i - n]
    BY <1>1, <1>2, ListsConcat
<1>4. \A i \in DOMAIN t.entries : t.entries[i].outcome =>
         t.entries[i].state \in {"completed", "missed"} /\ Gone(t.entries[i].credit)
    BY <1>3 DEF Ledger
<1>5. ASSUME NEW i \in DOMAIN t.entries, NEW j \in DOMAIN t.entries, i # j,
             t.entries[i].credit = t.entries[j].credit, ~IsTerminal(t.entries[i])
      PROVE  IsTerminal(t.entries[j]) /\ ~t.entries[j].outcome
  <2>1. CASE i \in 1..n /\ j \in 1..n
      BY <1>3, <1>5, <2>1 DEF Ledger
  <2>2. CASE i \in 1..n /\ j \notin 1..n
      BY <1>3, <1>5, <2>2
  <2>3. CASE i \notin 1..n /\ j \in 1..n
    <3>1. IsTerminal(s.entries[j]) /\ ~Gone(s.entries[j].credit)
        BY <1>3, <1>5, <2>3
    <3> QED
        BY <1>3, <2>3, <3>1 DEF Ledger
  <2>4. CASE i \notin 1..n /\ j \notin 1..n
    <3>1. i - n = j - n
        BY <1>3, <1>5, <2>4
    <3>2. i \in Int /\ j \in Int
        BY <1>3
    <3> QED
        BY <1>5, <3>1, <3>2
  <2> QED
      BY <2>1, <2>2, <2>3, <2>4
<1> QED
    BY <1>4, <1>5 DEF Ledger

\* What a step of somebody else leaves of a process's part: a holder of the lock has
\* the schedule and the requests to itself, and loses attempts only of what is settled.
LEMMA StaysClear ==
    ASSUME IndInv, Clear, NEW q \in Procs, proc'[q] = proc[q], Later, Advances(stored, stored'),
           executor = q =>
              /\ stored' = stored /\ open' \subseteq open /\ (q \in fresh' => q \in fresh)
              /\ \A c \in Credits : \/ attempts'[c] = attempts[c]
                                    \/ attempts'[c] = "none" /\ c \in Known(stored)
    PROVE  OwnClear(q)'
<1>1. /\ Reads(q) /\ Works(q) /\ Attempts(q) /\ Answers(q)
      /\ Locks(q) /\ Copies(q) /\ Chosen(q) /\ Claims(q) /\ Ledger(stored)
    BY DEF Clear, OwnClear, IndInv
<1>2. CASE executor # q
  <2>1. proc[q].at \notin Locked
      BY <1>1, <1>2 DEF Locks
  <2>2. Reads(q)'
      BY <1>1, <2>1 DEF Reads, Copies, Advances, Locked
  <2>3. (Works(q) /\ Attempts(q) /\ Answers(q))'
      BY <2>1 DEF Works, Attempts, Answers, Locked, WithEntry
  <2> QED
      BY <2>2, <2>3 DEF OwnClear
<1>3. CASE executor = q
  <2>1. Reads(q)' /\ Works(q)'
      BY <1>1, <1>3 DEF Reads, Works
  <2>2. Doubtful' \subseteq Doubtful /\ Known(stored)' = Known(stored)
      BY <1>3 DEF Doubtful, Known
  <2>3. ASSUME proc[q].at \in {"writing", "rewriting"}
        PROVE  /\ proc[q].credit \notin Doubtful'
               /\ \A d \in Credits \ {proc[q].credit} :
                     Account[d] = Account[proc[q].credit] => attempts'[d] = "none"
      BY <1>1, <1>3, <2>2, <2>3 DEF Attempts
  <2>4. ASSUME proc[q].at = "posting"
        PROVE  attempts'[proc[q].credit] = "whole" \/ proc[q].credit \in Known(stored)
    <3>1. proc[q].credit \in Credits
        BY <1>1, <2>4 DEF Chosen, WithCredit
    <3> QED
        BY <1>1, <1>3, <2>4, <3>1 DEF Attempts
  <2>5. ASSUME q \in Schedulers, proc[q].at = "preflight",
               stored.entries[proc[q].entry].state \in Claimed
        PROVE  attempts'[proc[q].credit] = "whole"
    <3> DEFINE i == proc[q].entry
               c == proc[q].credit
    <3>1. c \in Credits /\ i \in DOMAIN stored.entries /\ attempts[c] = "whole"
          /\ stored.entries[i].credit = c
        BY <1>1, <2>5 DEF Chosen, WithCredit, Copies, Attempts, Works, WithEntry
    <3>2. ~IsTerminal(stored.entries[i])
        BY <2>5 DEF IsTerminal, Terminal, Claimed
    <3>3. ASSUME c \in Known(stored)
          PROVE  FALSE
      <4>1. PICK j \in DOMAIN stored.entries :
               stored.entries[j].credit = c /\ stored.entries[j].outcome
          BY <3>3 DEF Known
      <4>2. i # j
          BY <1>1, <3>2, <4>1 DEF Ledger, IsTerminal, Terminal
      <4> QED
          BY <1>1, <3>1, <3>2, <4>1, <4>2 DEF Ledger
    <3> HIDE DEF i, c
    <3> QED
        BY <1>3, <3>1, <3>3 DEF c
  <2>6. Attempts(q)'
      BY <1>3, <2>2, <2>3, <2>4, <2>5 DEF Attempts
  <2>7. Answers(q)'
    <3>1. proc[q].at = "saving" => proc[q].credit \in Credits
        BY <1>1 DEF Chosen, WithCredit
    <3>2. proc[q].at = "saving" /\ Gone(proc[q].credit) => Gone(proc[q].credit)'
        BY <3>1 DEF Later
    <3> QED
        BY <1>1, <1>3, <3>2 DEF Answers
  <2> QED
      BY <2>1, <2>6, <2>7 DEF OwnClear
<1> QED
    BY <1>2, <1>3

\* The ledger is one of the next state too.
LEMMA LedgerLater ==
    ASSUME Later, stored' \in Schedule, Ledger(stored')
    PROVE  Ledger(stored)'
<1>1. \A i \in DOMAIN stored'.entries : stored'.entries[i].credit \in Credits
    BY EntryOf DEF Entry
<1> QED
    BY <1>1 DEF Ledger, Later

LEMMA EditLater ==
    ASSUME Later, edit' \in Schedule, Ledger(edit')
    PROVE  Ledger(edit)'
<1>1. \A i \in DOMAIN edit'.entries : edit'.entries[i].credit \in Credits
    BY EntryOf DEF Entry
<1> QED
    BY <1>1 DEF Ledger, Later

\* The journal without some attempts of what is settled, and one attempt changed.
LEMMA JournalLess ==
    ASSUME Journal, Advances(stored, stored'), open' \subseteq open, open \subseteq Credits,
           \A c \in Credits : \/ attempts'[c] = attempts[c]
                              \/ attempts'[c] = "none" /\ c \in Known(stored)
    PROVE  Journal'
<1>1. Doubtful' \subseteq Doubtful /\ Doubtful \subseteq Credits
      /\ Doubtful \cap Known(stored) = {}
    BY KnownGrows DEF Doubtful, Known
<1>2. \A c \in Doubtful' : attempts'[c] = "whole"
    BY <1>1 DEF Journal
<1> QED
    BY <1>2 DEF Journal

LEMMA JournalSet ==
    ASSUME Journal, Advances(stored, stored'), open' \subseteq open, open \subseteq Credits,
           attempts \in [Credits -> {"none", "torn", "whole"}],
           NEW c \in Credits, NEW v, attempts' = [attempts EXCEPT ![c] = v],
           c \in Doubtful' => v = "whole",
           v # "none" => \A d \in Credits \ {c} : Account[d] = Account[c] => attempts[d] = "none"
    PROVE  Journal'
<1>0. Known(stored) \subseteq Known(stored')
    BY KnownGrows
<1>1. Doubtful' \subseteq Doubtful /\ Doubtful \subseteq Credits
    BY <1>0 DEF Doubtful, Known
<1>2. attempts'[c] = v /\ \A d \in Credits \ {c} : attempts'[d] = attempts[d]
    OBVIOUS
<1>3. \A d \in Doubtful' : attempts'[d] = "whole"
    BY <1>1, <1>2 DEF Journal
<1>4. ASSUME NEW d \in Credits, NEW e \in Credits, Account[d] = Account[e],
             attempts'[d] # "none", attempts'[e] # "none"
      PROVE  d = e
    BY <1>2, <1>4 DEF Journal
<1> QED
    BY <1>3, <1>4 DEF Journal

\* A step of process p.
LEMMA ClearStep ==
    ASSUME IndInv, IndInv', Clear, NEW p \in Procs, \A q \in Procs \ {p} : proc'[q] = proc[q],
           edit' = edit, fresh' \subseteq fresh \cup {p}, Later,
           \/ executor = p
           \/ /\ stored' = stored /\ open' \subseteq open
              /\ \A c \in Credits : \/ attempts'[c] = attempts[c]
                                    \/ attempts'[c] = "none" /\ c \in Known(stored),
           Advances(stored, stored'), Ledger(stored'), Journal', OwnClear(p)'
    PROVE  Clear'
<1>1. stored' \in Schedule /\ (edit # None => edit \in Schedule)
    BY DEF IndInv, TypeOK
<1>2. NeverNothing'
    BY DEF Clear, NeverNothing, Later
<1>3. Ledger(stored)'
    BY <1>1, LedgerLater
<1>4. (Editor \in fresh /\ edit # None => Ledger(edit))'
  <2> SUFFICES ASSUME Editor \in fresh', edit # None PROVE Ledger(edit)'
      OBVIOUS
  <2>1. Ledger(edit) /\ edit' = edit
      BY Numbers DEF Clear
  <2>2. Ledger(edit')
      BY <2>1
  <2> QED
      BY <1>1, <2>1, <2>2, EditLater
<1>5. ASSUME NEW q \in Procs \ {p}
      PROVE  OwnClear(q)'
  <2>1. executor = q => executor # p
      OBVIOUS
  <2>2. q \in fresh' => q \in fresh
      OBVIOUS
  <2> QED
      BY <2>1, <2>2, StaysClear
<1> QED
    BY <1>2, <1>3, <1>4, <1>5 DEF Clear

\* One that writes neither schedule nor journal, and sends nothing.
LEMMA QuietStep ==
    ASSUME IndInv, IndInv', Clear, NEW p \in Procs, \A q \in Procs \ {p} : proc'[q] = proc[q],
           edit' = edit, fresh' \subseteq fresh \cup {p}, Later,
           UNCHANGED <<stored, attempts>>, open' \subseteq open, OwnClear(p)'
    PROVE  Clear'
<1>1. Advances(stored, stored') /\ Ledger(stored') /\ Journal /\ open \subseteq Credits
    BY AdvancesRefl DEF Clear, IndInv, TypeOK
<1>2. Journal'
    BY <1>1, JournalLess
<1> QED
    BY <1>1, <1>2, ClearStep

\* Whoever returns knows nothing any more.
LEMMA ReturnClear ==
    ASSUME IndInv, NEW p \in Procs, Return(p)
    PROVE  OwnClear(p)' /\ \A q \in Procs \ {p} : proc'[q] = proc[q]
<1>1. proc'[p] = Idle /\ \A q \in Procs \ {p} : proc'[q] = proc[q]
    BY ProcTyped DEF Return
<1>2. proc'[p].at = "idle" /\ DOMAIN proc'[p].snap.entries = {}
    BY <1>1, IdleTyped DEF Idle
<1> QED
    BY <1>1, <1>2 DEF OwnClear, Reads, Works, Attempts, Answers, WithEntry

\* Time stands still and the service is as it was in every step but its own and the clock's.
LEMMA LaterSame ==
    ASSUME UNCHANGED <<now, redeemed>>, env'.faults = env.faults
    PROVE  Later
BY DEF Later, Gone, Expired

LEMMA GotoFacts ==
    ASSUME IndInv, NEW p \in Procs, NEW place, Goto(p, place)
    PROVE  /\ proc'[p].at = place /\ proc'[p].snap = proc[p].snap
           /\ proc'[p].entry = proc[p].entry /\ proc'[p].credit = proc[p].credit
           /\ proc'[p].answer = proc[p].answer
           /\ \A q \in Procs \ {p} : proc'[q] = proc[q]
BY ProcTyped DEF Goto, Process

\* Whoever has only a copy, and goes on with it.
LEMMA CopyClear ==
    ASSUME IndInv, Clear, NEW p \in Procs, stored' = stored,
           proc'[p].snap \in {proc[p].snap, stored}, proc'[p].at \notin WithEntry \cup {"removing"},
           proc'[p].snap = stored
              \/ proc'[p].at \notin {"cleaning", "planning", "picking"}
              \/ proc[p].at \in {"cleaning", "planning", "picking"}
    PROVE  OwnClear(p)'
<1>1. Reads(p)
    BY DEF Clear, OwnClear
<1>2. Reads(p)'
    BY <1>1 DEF Reads
<1> QED
    BY <1>2 DEF OwnClear, Works, Attempts, Answers, WithEntry

LEMMA LoadClear ==
    ASSUME IndInv, IndInv', Clear, NEW p \in Schedulers, Load(p)
    PROVE  Clear'
<1>0. p \in Procs
    BY DEF Procs
<1>1. /\ proc'[p].snap = stored /\ proc'[p].at = "loaded"
      /\ \A q \in Procs \ {p} : proc'[q] = proc[q]
    BY <1>0, ProcTyped, IdleTyped DEF Load, Idle
<1>2. OwnClear(p)'
    BY <1>0, <1>1, CopyClear DEF Load, WithEntry
<1>3. Later
    BY LaterSame DEF Load, outside
<1> QED
    BY <1>0, <1>1, <1>2, <1>3, QuietStep DEF Load, outside

\* A cleanup takes attempts of settled credits only.
LEMMA CleanupSpares ==
    ASSUME IndInv, Clear, NEW p \in Procs, CleanEntry(p)
    PROVE  \A c \in Credits : \/ attempts'[c] = attempts[c]
                              \/ attempts'[c] = "none" /\ c \in Known(stored)
<1>1. Reads(p) /\ Copies(p) /\ attempts \in [Credits -> {"none", "torn", "whole"}]
    BY DEF Clear, OwnClear, IndInv, TypeOK
<1>2. PICK i \in DOMAIN proc[p].snap.entries :
         /\ Settled(proc[p].snap.entries[i])
         /\ \/ attempts' = attempts
            \/ attempts' = [attempts EXCEPT ![proc[p].snap.entries[i].credit] = "none"]
    BY CleanEntryFacts
<1>3. proc[p].snap.entries[i].credit \in Known(stored)
    BY <1>1, <1>2 DEF Settled, Known, Reads, Copies
<1> QED
    BY <1>1, <1>2, <1>3

LEMMA CleanClear ==
    ASSUME IndInv, IndInv', Clear, NEW p \in Schedulers, CleanLoaded(p) \/ CleanLocked(p)
    PROVE  Clear'
<1>0. p \in Procs
    BY DEF Procs
<1>1. \A c \in Credits : \/ attempts'[c] = attempts[c]
                         \/ attempts'[c] = "none" /\ c \in Known(stored)
    BY <1>0, CleanupSpares DEF CleanLoaded, CleanLocked
<1>2. /\ UNCHANGED <<stored, fresh, edit, outside>>
      /\ \/ Return(p)
         \/ \E i : proc' = [proc EXCEPT ![p].entry = i]
         \/ proc[p].at = "loaded" /\ proc' = [proc EXCEPT ![p].at = "locking", ![p].entry = 0]
         \/ proc[p].at = "cleaning" /\ proc' = [proc EXCEPT ![p].at = "planning", ![p].entry = 0]
      /\ proc[p].at \in {"loaded", "cleaning"}
    BY <1>0, CleanEntryFacts DEF CleanLoaded, CleanLocked, CleanedTo
<1>3. OwnClear(p)' /\ \A q \in Procs \ {p} : proc'[q] = proc[q]
  <2>1. CASE Return(p)
      BY <1>0, <2>1, ReturnClear
  <2>2. CASE \/ \E i : proc' = [proc EXCEPT ![p].entry = i]
             \/ proc[p].at = "loaded" /\ proc' = [proc EXCEPT ![p].at = "locking", ![p].entry = 0]
             \/ /\ proc[p].at = "cleaning"
                /\ proc' = [proc EXCEPT ![p].at = "planning", ![p].entry = 0]
    <3>1. proc \in [Procs -> Process] /\ proc[p] \in Process
        BY <1>0, ProcTyped
    <3>2. /\ proc'[p].snap = proc[p].snap
          /\ \/ proc'[p].at = proc[p].at
             \/ proc'[p].at = "locking"
             \/ proc[p].at = "cleaning" /\ proc'[p].at = "planning"
          /\ \A q \in Procs \ {p} : proc'[q] = proc[q]
        BY <1>0, <2>2, <3>1 DEF Process
    <3> QED
        BY <1>0, <1>2, <3>2, CopyClear DEF WithEntry
  <2> QED
      BY <1>2, <2>1, <2>2
<1>4. Later /\ open' = open
    BY <1>2, LaterSame DEF outside
<1>5. Advances(stored, stored') /\ Ledger(stored') /\ Journal /\ open \subseteq Credits
    BY <1>2, AdvancesRefl DEF Clear, IndInv, TypeOK
<1>6. Journal'
    BY <1>1, <1>4, <1>5, JournalLess
<1> QED
    BY <1>0, <1>1, <1>2, <1>3, <1>4, <1>5, <1>6, ClearStep

LEMMA AcquireClear ==
    ASSUME IndInv, IndInv', Clear, NEW p \in Schedulers, AcquireExecutor(p)
    PROVE  Clear'
<1>0. p \in Procs
    BY DEF Procs
<1>1. /\ UNCHANGED <<stored, attempts, edit, outside>>
      /\ fresh' \subseteq fresh \cup {p}
      /\ Return(p) \/ proc' = [proc EXCEPT ![p].at = "cleaning", ![p].snap = stored]
    BY DEF AcquireExecutor
<1>2. OwnClear(p)' /\ \A q \in Procs \ {p} : proc'[q] = proc[q]
  <2>1. CASE Return(p)
      BY <1>0, <2>1, ReturnClear
  <2>2. CASE proc' = [proc EXCEPT ![p].at = "cleaning", ![p].snap = stored]
    <3>1. /\ proc'[p].snap = stored /\ proc'[p].at = "cleaning"
          /\ \A q \in Procs \ {p} : proc'[q] = proc[q]
        BY <1>0, <2>2, ProcTyped DEF Process
    <3> QED
        BY <1>0, <1>1, <3>1, CopyClear DEF WithEntry
  <2> QED
      BY <1>1, <2>1, <2>2
<1>3. Later /\ open' = open
    BY <1>1, LaterSame DEF outside
<1> QED
    BY <1>0, <1>1, <1>2, <1>3, QuietStep

\* What is saved in the place of the schedule: by the lock's holder, and advancing it.
LEMMA SaveAdvances ==
    ASSUME Clear, stored \in Schedule, NEW t, Alike(stored, t), Advances(stored, t), Ledger(t),
           Put(t) \/ UpdateFails(t) \/ UNCHANGED stored
    PROVE  Advances(stored, stored') /\ Ledger(stored')
<1>1. CASE UNCHANGED stored
    BY <1>1, AdvancesRefl DEF Clear
<1>2. CASE Put(t)
  <2>1. stored'.entries = t.entries
      BY <1>2, PutFacts
  <2> QED
      BY <2>1 DEF Advances, Ledger
<1> QED
    BY <1>1, <1>2 DEF UpdateFails

\* A step of the lock's holder that writes the schedule.
LEMMA WriteStepClear ==
    ASSUME IndInv, IndInv', Clear, NEW p \in Procs, executor = p,
           \A q \in Procs \ {p} : proc'[q] = proc[q],
           edit' = edit, fresh' \subseteq fresh \cup {p}, Later,
           UNCHANGED <<attempts, open>>,
           Advances(stored, stored'), Ledger(stored'), OwnClear(p)'
    PROVE  Clear'
<1>1. Journal /\ open \subseteq Credits
    BY DEF Clear, IndInv, TypeOK
<1>2. Journal'
    BY <1>1, JournalLess
<1> QED
    BY <1>2, ClearStep

LEMMA ReplanClear ==
    ASSUME IndInv, IndInv', Clear, NEW p \in Schedulers, Replan(p)
    PROVE  Clear'
<1>0. p \in Procs
    BY DEF Procs
<1>1. /\ proc \in [Procs -> Process] /\ proc[p] \in Process /\ proc[p].snap \in Schedule
      /\ stored \in Schedule
    BY <1>0, ProcTyped
<1>2. executor = p /\ proc[p].at = "planning"
    BY <1>0, AtLocked DEF Replan, Locked
<1>3. UNCHANGED <<attempts, edit, open>> /\ Later
    BY LaterSame DEF Replan, outside
<1>4. CASE Goto(p, "picking") /\ UNCHANGED <<stored, fresh>>
  <2>1. OwnClear(p)' /\ \A q \in Procs \ {p} : proc'[q] = proc[q]
      BY <1>0, <1>2, <1>4, GotoFacts, CopyClear DEF WithEntry
  <2> QED
      BY <1>0, <1>3, <1>4, <2>1, QuietStep
<1>5. CASE Return(p) /\ UNCHANGED <<stored, fresh>>
    BY <1>0, <1>3, <1>5, ReturnClear, QuietStep
<1>6. ASSUME p \in fresh, NEW new \in Replans(proc[p].snap),
             \/ /\ stored' = new /\ fresh' = {p}
                /\ proc' = [proc EXCEPT ![p].at = "picking", ![p].snap = new]
             \/ UpdateFails(new) /\ Return(p)
      PROVE  Clear'
  <2>1. proc[p].snap = stored
      BY <1>0, <1>2, <1>6 DEF IndInv, Copies, Reading
  <2>2. new \in LongSchedule /\ Keeps(stored, new)
      BY <1>1, <1>6, <2>1, Bounded, ReplansKeep
  <2>3. Alike(stored, new) /\ Extends(stored, new)
      BY <1>1, <2>2, AlikeBound DEF Keeps
  <2>4. Ledger(new) /\ Advances(stored, new)
      BY <2>3, LedgerRevised, ExtendsAdvances DEF Clear, Alike
  <2>5. CASE UpdateFails(new) /\ Return(p)
    <3>1. Advances(stored, stored') /\ Ledger(stored')
        BY <1>1, <2>3, <2>4, <2>5, SaveAdvances
    <3>2. OwnClear(p)' /\ (\A q \in Procs \ {p} : proc'[q] = proc[q]) /\ fresh' \subseteq fresh
        BY <1>0, <2>5, ReturnClear DEF UpdateFails, Put
    <3> QED
        BY <1>0, <1>2, <1>3, <3>1, <3>2, WriteStepClear
  <2>6. CASE /\ stored' = new /\ fresh' = {p}
             /\ proc' = [proc EXCEPT ![p].at = "picking", ![p].snap = new]
    <3>1. /\ proc'[p].at = "picking" /\ proc'[p].snap = stored'
          /\ \A q \in Procs \ {p} : proc'[q] = proc[q]
        BY <1>0, <1>1, <2>6 DEF Process
    <3>2. OwnClear(p)'
        BY <3>1 DEF OwnClear, Reads, Works, Attempts, Answers, WithEntry
    <3> QED
        BY <1>0, <1>2, <1>3, <2>4, <2>6, <3>1, <3>2, WriteStepClear
  <2> QED
      BY <1>6, <2>5, <2>6
<1> QED
    BY <1>4, <1>5, <1>6 DEF Replan

\* An open entry is replaced: it is settled only with what became of its credit.
LEMMA OneEntry ==
    ASSUME Clear, stored \in Schedule, NEW i \in DOMAIN stored.entries,
           NEW e, e.credit = stored.entries[i].credit,
           e.outcome => e.state \in {"completed", "missed"} /\ Gone(e.credit),
           NEW t, Alike(stored, t), t.entries = [stored.entries EXCEPT ![i] = e],
           \/ ~IsTerminal(stored.entries[i]) /\ (Put(t) \/ UpdateFails(t))
           \/ UNCHANGED stored
    PROVE  Advances(stored, stored') /\ Ledger(stored')
<1>1. CASE UNCHANGED stored
    BY <1>1, AdvancesRefl DEF Clear
<1>2. CASE ~IsTerminal(stored.entries[i]) /\ (Put(t) \/ UpdateFails(t))
  <2>1. Ledger(t) /\ Advances(stored, t)
      BY <1>2, LedgerEntry DEF Clear
  <2> QED
      BY <1>2, <2>1, SaveAdvances
<1> QED
    BY <1>1, <1>2

\* An update that ends a step and that leaves the outcomes alone.
LEMMA EndsStep ==
    ASSUME IndInv, Clear, NEW p \in Procs, NEW i \in DOMAIN stored.entries,
           p \in fresh => ~IsTerminal(stored.entries[i]),
           NEW e \in Entry, e.credit = stored.entries[i].credit,
           e.outcome = stored.entries[i].outcome,
           NEW t, Alike(stored, t), t.entries = [stored.entries EXCEPT ![i] = e],
           \/ p \in fresh /\ (Put(t) \/ UpdateFails(t))
           \/ UNCHANGED <<stored, fresh>>,
           Return(p)
    PROVE  /\ Advances(stored, stored') /\ Ledger(stored') /\ fresh' \subseteq fresh
           /\ OwnClear(p)' /\ \A q \in Procs \ {p} : proc'[q] = proc[q]
<1>1. stored \in Schedule
    BY ProcTyped
<1>2. OwnClear(p)' /\ \A q \in Procs \ {p} : proc'[q] = proc[q]
    BY ReturnClear
<1>3. fresh' \subseteq fresh
    BY DEF Put, UpdateFails
<1>4. CASE UNCHANGED stored
    BY <1>2, <1>3, <1>4, AdvancesRefl DEF Clear
<1>5. CASE p \in fresh /\ (Put(t) \/ UpdateFails(t))
  <2>1. ~e.outcome
      BY <1>5 DEF Clear, Ledger, IsTerminal, Terminal
  <2> QED
      BY <1>1, <1>2, <1>3, <1>5, <2>1, OneEntry
<1> QED
    BY <1>4, <1>5

LEMMA FinishClear ==
    ASSUME IndInv, Clear, NEW p \in Procs, NEW i \in DOMAIN stored.entries,
           p \in fresh => ~IsTerminal(stored.entries[i]),
           NEW state \in EntryStates, Finish(p, i, state)
    PROVE  /\ Advances(stored, stored') /\ Ledger(stored') /\ fresh' \subseteq fresh
           /\ OwnClear(p)' /\ \A q \in Procs \ {p} : proc'[q] = proc[q]
<1> DEFINE e == [stored.entries[i] EXCEPT !.state = state]
           t == Invalidated(SetEntry(stored, i, state))
<1>1. stored \in Schedule
    BY ProcTyped
<1>2. e \in Entry /\ e.credit = stored.entries[i].credit /\ e.outcome = stored.entries[i].outcome
    BY <1>1, EntryOf DEF Entry
<1>3. SetEntry(stored, i, state) \in Schedule /\ Alike(stored, SetEntry(stored, i, state))
    BY <1>1, SetEntryAlike DEF Alike
<1>4. Alike(stored, t)
    BY <1>3, AlikeFlags, AlikeTrans
<1>5. t.entries = [stored.entries EXCEPT ![i] = e]
    BY <1>1 DEF Invalidated, SetEntry, Schedule
<1>6. /\ (p \in fresh /\ (Put(t) \/ UpdateFails(t))) \/ UNCHANGED <<stored, fresh>>
      /\ Return(p)
    BY DEF Finish, FencedUpdate
<1> HIDE DEF e, t
<1> QED
    BY <1>2, <1>4, <1>5, <1>6, EndsStep

LEMMA BlockClear ==
    ASSUME IndInv, Clear, NEW p \in Procs, proc[p].entry \in DOMAIN stored.entries,
           p \in fresh => ~IsTerminal(stored.entries[proc[p].entry]), Block(p)
    PROVE  /\ Advances(stored, stored') /\ Ledger(stored') /\ fresh' \subseteq fresh
           /\ OwnClear(p)' /\ \A q \in Procs \ {p} : proc'[q] = proc[q]
<1> DEFINE i == proc[p].entry
           e == Blocked(stored.entries[i])
           t == [stored EXCEPT !.entries = [@ EXCEPT ![i] = e]]
<1>1. stored \in Schedule
    BY ProcTyped
<1>2. e \in Entry /\ e.credit = stored.entries[i].credit /\ e.outcome = stored.entries[i].outcome
  <2>1. stored.entries[i] \in Entry
      BY <1>1, EntryOf
  <2> QED
      BY <2>1 DEF Blocked, Entry, EntryStates
<1>3. t = [stored EXCEPT !.entries[i] = Blocked(@)]
    OBVIOUS
<1>4. /\ (p \in fresh /\ (Put(t) \/ UpdateFails(t))) \/ UNCHANGED <<stored, fresh>>
      /\ Return(p)
    BY <1>3 DEF Block, FencedUpdate
<1> HIDE DEF e
<1>5. Alike(stored, t)
    BY <1>1, <1>2, AlikeEntry
<1>6. t.entries = [stored.entries EXCEPT ![i] = e]
    BY <1>1 DEF Schedule
<1> HIDE DEF t
<1> QED
    BY <1>2, <1>4, <1>5, <1>6, EndsStep

\* A scheduler at an entry: the entry is of its credit, and open while the copy is fresh.
LEMMA EntryClear ==
    ASSUME IndInv, Clear, NEW p \in Schedulers,
           proc[p].at \in {"rebuilding", "rewriting", "preflight", "claiming"}
    PROVE  /\ p \in Procs /\ executor = p /\ proc[p].entry \in DOMAIN stored.entries
           /\ proc[p].credit \in Credits /\ stored.entries[proc[p].entry].credit = proc[p].credit
           /\ p \in fresh => ~IsTerminal(stored.entries[proc[p].entry])
           /\ Reads(p) /\ Attempts(p)
<1>1. p \in Procs /\ executor = p /\ proc[p].entry \in DOMAIN stored.entries
      /\ proc[p].credit \in Credits
    BY EntryPicked
<1>2. OwnClear(p)
    BY <1>1 DEF Clear
<1> QED
    BY <1>1, <1>2 DEF OwnClear, Works, WithEntry

\* Of a copy that is kept, outside the places where it shows every claim.
LEMMA ReadsOn ==
    ASSUME NEW p, Reads(p), proc'[p].snap = proc[p].snap, stored' = stored,
           proc'[p].at \notin {"cleaning", "planning", "picking"}
    PROVE  Reads(p)'
BY DEF Reads

LEMMA PickClear ==
    ASSUME IndInv, IndInv', Clear, NEW p \in Schedulers, Pick(p)
    PROVE  Clear'
<1> DEFINE s == proc[p].snap
<1>0. p \in Procs
    BY DEF Procs
<1>1. /\ proc \in [Procs -> Process] /\ proc[p] \in Process
      /\ DOMAIN s.entries \subseteq DOMAIN stored.entries
    BY <1>0, ProcTyped
<1>2. /\ executor = p /\ proc[p].at = "picking" /\ Reads(p)
      /\ p \in fresh => s = stored
  <2>1. executor = p /\ proc[p].at = "picking"
      BY <1>0, AtLocked DEF Pick, Locked
  <2> QED
      BY <1>0, <2>1 DEF Clear, OwnClear, IndInv, Copies, Reading
<1>3. UNCHANGED <<attempts, edit, open>> /\ Later
    BY LaterSame DEF Pick, outside
<1>4. CASE Return(p) /\ UNCHANGED <<stored, fresh>>
    BY <1>0, <1>3, <1>4, ReturnClear, QuietStep
<1>5. ASSUME NEW i \in DOMAIN s.entries, ~IsTerminal(s.entries[i]), Finish(p, i, "missed")
      PROVE  Clear'
  <2>1. p \in fresh => ~IsTerminal(stored.entries[i])
      BY <1>2, <1>5
  <2>2. /\ Advances(stored, stored') /\ Ledger(stored') /\ fresh' \subseteq fresh
        /\ OwnClear(p)' /\ \A q \in Procs \ {p} : proc'[q] = proc[q]
      BY <1>0, <1>1, <1>5, <2>1, FinishClear DEF EntryStates, Terminal
  <2> QED
      BY <1>0, <1>2, <1>3, <2>2, WriteStepClear
<1>6. ASSUME NEW i \in DOMAIN s.entries, ~IsTerminal(s.entries[i]),
             proc' = [proc EXCEPT ![p].entry = i, ![p].credit = s.entries[i].credit,
                            ![p].at = IF s.entries[i].state \in Claimed THEN "rebuilding"
                                      ELSE "preflight"],
             UNCHANGED <<stored, fresh>>
      PROVE  Clear'
  <2>1. /\ proc'[p].entry = i /\ proc'[p].credit = s.entries[i].credit
        /\ proc'[p].at = IF s.entries[i].state \in Claimed THEN "rebuilding" ELSE "preflight"
        /\ proc'[p].snap = s
        /\ \A q \in Procs \ {p} : proc'[q] = proc[q]
      BY <1>0, <1>1, <1>6 DEF Process
  <2>2. /\ stored.entries[i].credit = s.entries[i].credit
        /\ stored.entries[i].state \in Claimed => s.entries[i].state \in Claimed
      BY <1>2, <1>6 DEF Reads
  <2>3. p \in fresh => ~IsTerminal(stored.entries[i])
      BY <1>2, <1>6
  <2>a. proc'[p].snap = proc[p].snap /\ proc'[p].at \notin {"cleaning", "planning", "picking"}
      BY <2>1
  <2> HIDE DEF s
  <2>4. Reads(p)'
      BY <1>2, <1>6, <2>a, ReadsOn
  <2>5. Works(p)'
      BY <1>6, <2>1, <2>2, <2>3 DEF Works
  <2>6. Attempts(p)' /\ Answers(p)'
      BY <1>6, <2>1, <2>2 DEF Attempts, Answers
  <2> QED
      BY <1>0, <1>3, <1>6, <2>1, <2>4, <2>5, <2>6, QuietStep DEF OwnClear
<1>7. \/ Return(p) /\ UNCHANGED <<stored, fresh>>
      \/ \E i \in DOMAIN s.entries : ~IsTerminal(s.entries[i]) /\
           \/ Finish(p, i, "missed")
           \/ /\ proc' = [proc EXCEPT ![p].entry = i, ![p].credit = s.entries[i].credit,
                            ![p].at = IF s.entries[i].state \in Claimed THEN "rebuilding"
                                      ELSE "preflight"]
              /\ UNCHANGED <<stored, fresh>>
    BY DEF Pick, Actionable
<1> HIDE DEF s
<1> QED
    BY <1>4, <1>5, <1>6, <1>7

\* Without a torn or a pending attempt an account has none.
LEMMA NoPending ==
    ASSUME attempts \in [Credits -> {"none", "torn", "whole"}], ~PendingFails,
           NEW c \in Credits, Pending(Account[c]) = {}
    PROVE  \A d \in Credits : Account[d] = Account[c] => attempts[d] = "none"
BY DEF PendingFails, Pending

\* A step of the lock's holder that sets the attempt of its credit.
LEMMA AttemptClear ==
    ASSUME IndInv, IndInv', Clear, NEW p \in Procs, executor = p,
           \A q \in Procs \ {p} : proc'[q] = proc[q],
           edit' = edit, fresh' \subseteq fresh \cup {p}, Later, open' = open,
           Advances(stored, stored'), Ledger(stored'), OwnClear(p)',
           NEW c \in Credits, NEW v, attempts' = [attempts EXCEPT ![c] = v],
           c \in Doubtful => v = "whole",
           v # "none" => \A d \in Credits \ {c} : Account[d] = Account[c] => attempts[d] = "none"
    PROVE  Clear'
<1>1. /\ Journal /\ open \subseteq Credits
      /\ attempts \in [Credits -> {"none", "torn", "whole"}]
    BY DEF Clear, IndInv, TypeOK
<1>2. Known(stored) \subseteq Known(stored')
    BY KnownGrows
<1>3. c \in Doubtful' => v = "whole"
    BY <1>2 DEF Doubtful, Known
<1>4. Journal'
    BY <1>1, <1>3, JournalSet
<1> QED
    BY <1>4, ClearStep

LEMMA RebuildClear ==
    ASSUME IndInv, IndInv', Clear, NEW p \in Schedulers, Rebuild(p)
    PROVE  Clear'
<1> DEFINE c == proc[p].credit
           i == proc[p].entry
<1>1. /\ p \in Procs /\ executor = p /\ i \in DOMAIN stored.entries
      /\ c \in Credits /\ stored.entries[i].credit = c
      /\ p \in fresh => ~IsTerminal(stored.entries[i])
      /\ Reads(p) /\ Attempts(p)
    BY EntryClear DEF Rebuild
<1>2. /\ UNCHANGED <<edit, open>> /\ Later
      /\ attempts \in [Credits -> {"none", "torn", "whole"}]
    BY LaterSame DEF Rebuild, outside, IndInv, TypeOK
<1>3. CASE Block(p) /\ UNCHANGED attempts
  <2>1. /\ Advances(stored, stored') /\ Ledger(stored') /\ fresh' \subseteq fresh
        /\ OwnClear(p)' /\ \A q \in Procs \ {p} : proc'[q] = proc[q]
      BY <1>1, <1>3, BlockClear
  <2> QED
      BY <1>1, <1>2, <1>3, <2>1, WriteStepClear
<1>4. CASE /\ c \in Pending(Account[c]) /\ Goto(p, "preflight")
           /\ UNCHANGED <<stored, fresh, attempts>>
  <2>1. /\ proc'[p].at = "preflight" /\ proc'[p].snap = proc[p].snap
        /\ proc'[p].entry = i /\ proc'[p].credit = c
        /\ \A q \in Procs \ {p} : proc'[q] = proc[q]
      BY <1>1, <1>4, GotoFacts
  <2>2. attempts[c] = "whole"
      BY <1>4 DEF Pending
  <2>3. Reads(p)' /\ Works(p)' /\ Attempts(p)' /\ Answers(p)'
      BY <1>1, <1>4, <2>1, <2>2, ReadsOn DEF Works, Attempts, Answers
  <2> QED
      BY <1>1, <1>2, <1>4, <2>1, <2>3, QuietStep DEF OwnClear
<1>5. CASE /\ ~PendingFails /\ c \notin Pending(Account[c]) /\ Pending(Account[c]) = {}
           /\ attempts' = [attempts EXCEPT ![c] = "torn"]
           /\ Goto(p, "rewriting") /\ UNCHANGED <<stored, fresh>>
  <2>1. /\ proc'[p].at = "rewriting" /\ proc'[p].snap = proc[p].snap
        /\ proc'[p].entry = i /\ proc'[p].credit = c
        /\ \A q \in Procs \ {p} : proc'[q] = proc[q]
      BY <1>1, <1>5, GotoFacts
  <2>2. \A d \in Credits : Account[d] = Account[c] => attempts[d] = "none"
      BY <1>1, <1>2, <1>5, NoPending
  <2>3. c \notin Doubtful
      BY <1>1, <2>2 DEF Clear, Journal
  <2>4. c \notin Doubtful'
      BY <1>2, <1>5, <2>3 DEF Doubtful, Known
  <2>5. \A d \in Credits \ {c} : Account[d] = Account[c] => attempts'[d] = "none"
      BY <1>2, <1>5, <2>2
  <2>6. Reads(p)' /\ Works(p)' /\ Answers(p)'
      BY <1>1, <1>5, <2>1, ReadsOn DEF Works, Answers
  <2>7. Attempts(p)'
      BY <2>1, <2>4, <2>5 DEF Attempts
  <2>8. Advances(stored, stored') /\ Ledger(stored')
      BY <1>5, AdvancesRefl DEF Clear
  <2> QED
      BY <1>1, <1>2, <1>5, <2>1, <2>2, <2>3, <2>6, <2>7, <2>8, AttemptClear DEF OwnClear
<1> QED
    BY <1>3, <1>4, <1>5 DEF Rebuild

LEMMA RewriteClear ==
    ASSUME IndInv, IndInv', Clear, NEW p \in Schedulers, Rewrite(p)
    PROVE  Clear'
<1> DEFINE c == proc[p].credit
           i == proc[p].entry
<1>1. /\ p \in Procs /\ executor = p /\ i \in DOMAIN stored.entries
      /\ c \in Credits /\ stored.entries[i].credit = c
      /\ p \in fresh => ~IsTerminal(stored.entries[i])
      /\ Reads(p) /\ Attempts(p)
    BY EntryClear DEF Rewrite
<1>2. /\ UNCHANGED <<edit, open>> /\ Later
      /\ attempts \in [Credits -> {"none", "torn", "whole"}]
    BY LaterSame DEF Rewrite, outside, IndInv, TypeOK
<1>3. /\ c \notin Doubtful
      /\ \A d \in Credits \ {c} : Account[d] = Account[c] => attempts[d] = "none"
    BY <1>1 DEF Rewrite, Attempts
<1>4. CASE EnsureFails(p) /\ Block(p)
  <2>0. PICK left : attempts' = [attempts EXCEPT ![c] = left]
      BY <1>4 DEF EnsureFails
  <2>1. /\ Advances(stored, stored') /\ Ledger(stored') /\ fresh' \subseteq fresh
        /\ OwnClear(p)' /\ \A q \in Procs \ {p} : proc'[q] = proc[q]
      BY <1>1, <1>4, BlockClear
  <2> QED
      BY <1>1, <1>2, <1>3, <1>4, <2>0, <2>1, AttemptClear
<1>5. CASE /\ attempts' = [attempts EXCEPT ![c] = "whole"]
           /\ Goto(p, "preflight") /\ UNCHANGED <<stored, fresh>>
  <2>1. /\ proc'[p].at = "preflight" /\ proc'[p].snap = proc[p].snap
        /\ proc'[p].entry = i /\ proc'[p].credit = c
        /\ \A q \in Procs \ {p} : proc'[q] = proc[q]
      BY <1>1, <1>5, GotoFacts
  <2>2. attempts'[c] = "whole"
      BY <1>1, <1>2, <1>5
  <2>3. Reads(p)' /\ Works(p)' /\ Attempts(p)' /\ Answers(p)'
      BY <1>1, <1>5, <2>1, <2>2, ReadsOn DEF Works, Attempts, Answers
  <2>4. Advances(stored, stored') /\ Ledger(stored')
      BY <1>5, AdvancesRefl DEF Clear
  <2> QED
      BY <1>1, <1>2, <1>3, <1>5, <2>1, <2>3, <2>4, AttemptClear DEF OwnClear
<1> QED
    BY <1>4, <1>5 DEF Rewrite, Ensured

LEMMA PreflightClear ==
    ASSUME IndInv, IndInv', Clear, NEW p \in Schedulers, Preflight(p)
    PROVE  Clear'
<1> DEFINE c == proc[p].credit
           i == proc[p].entry
           e == [stored.entries[i] EXCEPT !.at = Never]
           t == [stored EXCEPT !.entries[i].at = Never, !.planValid = FALSE, !.replanDue = FALSE]
<1>1. /\ p \in Procs /\ executor = p /\ i \in DOMAIN stored.entries
      /\ c \in Credits /\ stored.entries[i].credit = c
      /\ p \in fresh => ~IsTerminal(stored.entries[i])
      /\ Reads(p)
    BY EntryClear DEF Preflight
<1>2. UNCHANGED <<attempts, edit, open>> /\ Later /\ stored \in Schedule
    BY LaterSame DEF Preflight, outside, IndInv, TypeOK
<1>3. ASSUME Advances(stored, stored'), Ledger(stored'), fresh' \subseteq fresh, OwnClear(p)',
             \A q \in Procs \ {p} : proc'[q] = proc[q]
      PROVE  Clear'
    BY <1>1, <1>2, <1>3, WriteStepClear
<1>4. CASE Block(p)
    BY <1>1, <1>3, <1>4, BlockClear
<1>5. CASE Finish(p, i, "skipped")
    BY <1>1, <1>3, <1>5, FinishClear DEF EntryStates, Terminal
<1>6. CASE FencedUpdate(p, LAMBDA s : [s EXCEPT !.entries[i].at = Never,
                                         !.planValid = FALSE, !.replanDue = FALSE])
  <2>1. /\ (p \in fresh /\ (Put(t) \/ UpdateFails(t))) \/ UNCHANGED <<stored, fresh>>
        /\ Return(p)
      BY <1>6 DEF FencedUpdate
  <2>2. Alike(stored, t)
      BY <1>1, <1>2, UndatedAlike
  <2>3. e \in Entry /\ e.credit = stored.entries[i].credit /\ e.outcome = stored.entries[i].outcome
      BY <1>1, <1>2, EntryOf, Numbers DEF Entry
  <2>4. t.entries = [stored.entries EXCEPT ![i] = e]
      BY <1>2 DEF Schedule
  <2> HIDE DEF t, e
  <2> QED
      BY <1>1, <1>3, <2>1, <2>2, <2>3, <2>4, EndsStep
<1>7. CASE /\ \E resume \in BOOLEAN :
                proc' = [proc EXCEPT ![p].at = "claiming", ![p].resume = resume]
           /\ UNCHANGED <<stored, fresh>>
  <2>1. /\ proc'[p].at = "claiming" /\ proc'[p].snap = proc[p].snap
        /\ proc'[p].entry = i /\ proc'[p].credit = c
        /\ \A q \in Procs \ {p} : proc'[q] = proc[q]
      BY <1>1, <1>7, ProcTyped DEF Process
  <2>2. Reads(p)' /\ Works(p)' /\ Attempts(p)' /\ Answers(p)'
      BY <1>1, <1>7, <2>1, ReadsOn DEF Works, Attempts, Answers
  <2> QED
      BY <1>1, <1>2, <1>7, <2>1, <2>2, QuietStep DEF OwnClear
<1>8. \/ Block(p) \/ Finish(p, i, "skipped")
      \/ FencedUpdate(p, LAMBDA s : [s EXCEPT !.entries[i].at = Never,
                                       !.planValid = FALSE, !.replanDue = FALSE])
      \/ /\ \E resume \in BOOLEAN :
              proc' = [proc EXCEPT ![p].at = "claiming", ![p].resume = resume]
         /\ UNCHANGED <<stored, fresh>>
  <2> DEFINE resume == proc[p].credit \in Pending(Account[proc[p].credit])
  <2>1. resume \in BOOLEAN
      OBVIOUS
  <2>2. \/ Block(p) \/ Finish(p, i, "skipped")
        \/ FencedUpdate(p, LAMBDA s : [s EXCEPT !.entries[i].at = Never,
                                         !.planValid = FALSE, !.replanDue = FALSE])
        \/ /\ proc' = [proc EXCEPT ![p].at = "claiming", ![p].resume = resume]
           /\ UNCHANGED <<stored, fresh>>
      BY DEF Preflight
  <2> HIDE DEF resume
  <2> QED
      BY <2>1, <2>2
<1> QED
    BY <1>4, <1>5, <1>6, <1>7, <1>8

LEMMA ClaimClear ==
    ASSUME IndInv, IndInv', Clear, NEW p \in Schedulers, Claim(p)
    PROVE  Clear'
<1> DEFINE c == proc[p].credit
           i == proc[p].entry
           e == [stored.entries[i] EXCEPT !.state = "running"]
           claimed == SetEntry(stored, i, "running")
<1>1. /\ p \in Procs /\ executor = p /\ i \in DOMAIN stored.entries
      /\ c \in Credits /\ stored.entries[i].credit = c
    BY EntryClear DEF Claim
<1>2. UNCHANGED <<attempts, edit, open>> /\ Later
    BY LaterSame DEF Claim, outside
<1>3. stored \in Schedule /\ proc \in [Procs -> Process] /\ proc[p] \in Process
    BY <1>1, ProcTyped
<1>4. Alike(stored, claimed)
    BY <1>1, <1>3, SetEntryAlike DEF EntryStates, Claimed
<1>5. e \in Entry /\ e.credit = c /\ e.outcome = stored.entries[i].outcome /\ ~IsTerminal(e)
      /\ e.state = "running"
    BY <1>1, <1>3, EntryOf DEF Entry, EntryStates, Claimed, IsTerminal, Terminal
<1>6. claimed.entries = [stored.entries EXCEPT ![i] = e]
    BY <1>3 DEF SetEntry, Schedule
<1>7. CASE Return(p) /\ UNCHANGED <<stored, fresh>>
    BY <1>1, <1>2, <1>7, ReturnClear, QuietStep
<1> HIDE DEF claimed, e
<1>8. CASE Claimable(p) /\ UpdateFails(claimed) /\ Return(p)
  <2>1. p \in fresh => ~IsTerminal(stored.entries[i])
      BY <1>8 DEF Claimable
  <2>2. p \in fresh
      BY <1>8 DEF Claimable
  <2>3. /\ Advances(stored, stored') /\ Ledger(stored') /\ fresh' \subseteq fresh
        /\ OwnClear(p)' /\ \A q \in Procs \ {p} : proc'[q] = proc[q]
      BY <1>1, <1>4, <1>5, <1>6, <1>8, <2>1, <2>2, EndsStep
  <2> QED
      BY <1>1, <1>2, <2>3, WriteStepClear
<1>9. CASE /\ Claimable(p) /\ Put(claimed)
           /\ proc' = [proc EXCEPT ![p].at = "using", ![p].snap = NoSchedule]
  <2>1. ~IsTerminal(stored.entries[i])
      BY <1>9 DEF Claimable
  <2>2. ~e.outcome
      BY <1>1, <1>5, <2>1 DEF Clear, Ledger, IsTerminal, Terminal
  <2>3. Advances(stored, stored') /\ Ledger(stored')
      BY <1>1, <1>3, <1>4, <1>5, <1>6, <1>9, <2>1, <2>2, OneEntry
  <2>4. fresh' = {} /\ stored'.entries[i] = e
      BY <1>1, <1>3, <1>4, <1>6, <1>9, PutFacts DEF Alike, Schedule
  <2>5. /\ proc'[p].at = "using" /\ DOMAIN proc'[p].snap.entries = {}
        /\ proc'[p].entry = i /\ proc'[p].credit = c
        /\ \A q \in Procs \ {p} : proc'[q] = proc[q]
      BY <1>1, <1>3, <1>9, IdleTyped DEF Process
  <2>6. Reads(p)' /\ Works(p)' /\ Attempts(p)' /\ Answers(p)'
      BY <1>5, <2>4, <2>5 DEF Reads, Works, Attempts, Answers
  <2> QED
      BY <1>1, <1>2, <2>3, <2>4, <2>5, <2>6, WriteStepClear DEF OwnClear
<1>10. \/ Return(p) /\ UNCHANGED <<stored, fresh>>
       \/ Claimable(p) /\ UpdateFails(claimed) /\ Return(p)
       \/ /\ Claimable(p) /\ Put(claimed)
          /\ proc' = [proc EXCEPT ![p].at = "using", ![p].snap = NoSchedule]
    BY DEF Claim, claimed
<1> QED
    BY <1>7, <1>8, <1>9, <1>10

\* Inside executeUse a process has the lock, and of its own part all that it needs.
LEMMA UsingClear ==
    ASSUME IndInv, Clear, NEW p \in Procs,
           proc[p].at \in {"using", "writing", "posting", "sent", "saving", "removing"}
    PROVE  /\ executor = p /\ proc[p].credit \in Credits
           /\ Reads(p) /\ Works(p) /\ Attempts(p) /\ Answers(p)
           /\ stored \in Schedule /\ attempts \in [Credits -> {"none", "torn", "whole"}]
BY AtLocked DEF Clear, OwnClear, IndInv, Chosen, WithCredit, Locked, TypeOK

\* On to the next place, with nothing written to the schedule.
LEMMA UseGoesClear ==
    ASSUME IndInv, Clear, NEW p \in Procs, UNCHANGED <<stored, fresh>>,
           proc[p].at \in {"using", "writing", "posting", "sent", "saving"},
           NEW place \in {"writing", "posting", "sent"}, Goto(p, place),
           Attempts(p)'
    PROVE  OwnClear(p)' /\ \A q \in Procs \ {p} : proc'[q] = proc[q]
<1>1. /\ proc'[p].at = place /\ proc'[p].snap = proc[p].snap
      /\ proc'[p].entry = proc[p].entry /\ proc'[p].credit = proc[p].credit
      /\ \A q \in Procs \ {p} : proc'[q] = proc[q]
    BY GotoFacts
<1>2. Reads(p) /\ Works(p)
    BY UsingClear
<1>3. Reads(p)' /\ Works(p)' /\ Answers(p)'
    BY <1>1, <1>2, ReadsOn DEF Works, WithEntry, Answers
<1> QED
    BY <1>1, <1>3 DEF OwnClear

\* An error, on its way to the record or to the user.
LEMMA UseFailsClear ==
    ASSUME IndInv, Clear, NEW p \in Procs, UNCHANGED <<stored, fresh>>,
           proc[p].at \in {"using", "writing", "posting", "sent"}, UseFails(p)
    PROVE  OwnClear(p)' /\ \A q \in Procs \ {p} : proc'[q] = proc[q]
<1>1. CASE p \notin Schedulers
    BY <1>1, ReturnClear DEF UseFails
<1>2. CASE p \in Schedulers
  <2>1. /\ proc'[p].at = "saving" /\ proc'[p].answer = "error"
        /\ proc'[p].snap = proc[p].snap
        /\ proc'[p].entry = proc[p].entry /\ proc'[p].credit = proc[p].credit
        /\ \A q \in Procs \ {p} : proc'[q] = proc[q]
      BY <1>2, ProcTyped DEF UseFails, Process
  <2>2. Reads(p) /\ Works(p)
      BY UsingClear
  <2>3. Reads(p)' /\ Works(p)' /\ Attempts(p)' /\ Answers(p)'
      BY <1>2, <2>1, <2>2, ReadsOn DEF Works, WithEntry, Attempts, Answers
  <2> QED
      BY <2>1, <2>3 DEF OwnClear
<1> QED
    BY <1>1, <1>2

LEMMA UseClear ==
    ASSUME IndInv, IndInv', Clear, NEW p \in Procs, Use(p)
    PROVE  Clear'
<1> DEFINE c == proc[p].credit
<1>1. /\ executor = p /\ c \in Credits /\ proc[p].at = "using"
      /\ attempts \in [Credits -> {"none", "torn", "whole"}]
    BY UsingClear DEF Use
<1>2. UNCHANGED <<stored, fresh, edit, open>> /\ Later
    BY LaterSame DEF Use, outside
<1>3. CASE UseFails(p) /\ UNCHANGED attempts
    BY <1>1, <1>2, <1>3, UseFailsClear, QuietStep
<1>4. CASE attempts[c] = "whole" /\ Goto(p, "posting") /\ UNCHANGED attempts
  <2>1. proc'[p].at = "posting" /\ proc'[p].credit = c
      BY <1>4, GotoFacts
  <2>2. Attempts(p)'
      BY <1>4, <2>1 DEF Attempts
  <2>3. OwnClear(p)' /\ \A q \in Procs \ {p} : proc'[q] = proc[q]
      BY <1>1, <1>2, <1>4, <2>2, UseGoesClear
  <2> QED
      BY <1>2, <1>4, <2>3, QuietStep
<1>5. CASE /\ ~PendingFails /\ Selectable(c) /\ attempts[c] = "none"
           /\ attempts' = [attempts EXCEPT ![c] = "torn"] /\ Goto(p, "writing")
  <2>1. proc'[p].at = "writing" /\ proc'[p].credit = c
      BY <1>5, GotoFacts
  <2>2. Pending(Account[c]) = {}
      BY <1>1, <1>5 DEF Selectable, Pending
  <2>3. \A d \in Credits : Account[d] = Account[c] => attempts[d] = "none"
      BY <1>1, <1>5, <2>2, NoPending
  <2>4. c \notin Doubtful /\ c \notin Doubtful'
      BY <1>2, <1>5 DEF Clear, Journal, Doubtful, Known
  <2>5. \A d \in Credits \ {c} : Account[d] = Account[c] => attempts'[d] = "none"
      BY <1>1, <1>5, <2>3
  <2>6. Attempts(p)'
      BY <2>1, <2>4, <2>5 DEF Attempts
  <2>7. OwnClear(p)' /\ \A q \in Procs \ {p} : proc'[q] = proc[q]
      BY <1>1, <1>2, <1>5, <2>6, UseGoesClear
  <2>8. Advances(stored, stored') /\ Ledger(stored')
      BY <1>2, AdvancesRefl DEF Clear
  <2> QED
      BY <1>1, <1>2, <1>5, <2>3, <2>4, <2>7, <2>8, AttemptClear
<1> QED
    BY <1>3, <1>4, <1>5 DEF Use

LEMMA WriteClear ==
    ASSUME IndInv, IndInv', Clear, NEW p \in Procs, Write(p)
    PROVE  Clear'
<1> DEFINE c == proc[p].credit
<1>1. /\ executor = p /\ c \in Credits /\ proc[p].at = "writing" /\ Attempts(p)
      /\ attempts \in [Credits -> {"none", "torn", "whole"}]
    BY UsingClear DEF Write
<1>2. /\ UNCHANGED <<stored, fresh, edit, open>> /\ Later
      /\ Advances(stored, stored') /\ Ledger(stored')
    BY LaterSame, AdvancesRefl DEF Write, outside, Clear
<1>3. /\ c \notin Doubtful
      /\ \A d \in Credits \ {c} : Account[d] = Account[c] => attempts[d] = "none"
    BY <1>1 DEF Attempts
<1>4. CASE attempts' = [attempts EXCEPT ![c] = "whole"] /\ Goto(p, "posting")
  <2>1. proc'[p].at = "posting" /\ proc'[p].credit = c /\ attempts'[c] = "whole"
      BY <1>1, <1>4, GotoFacts
  <2>2. Attempts(p)'
      BY <2>1 DEF Attempts
  <2>3. OwnClear(p)' /\ \A q \in Procs \ {p} : proc'[q] = proc[q]
      BY <1>1, <1>2, <1>4, <2>2, UseGoesClear
  <2> QED
      BY <1>1, <1>2, <1>3, <1>4, <2>3, AttemptClear
<1>5. CASE EnsureFails(p) /\ UseFails(p)
  <2>0. PICK left : attempts' = [attempts EXCEPT ![c] = left]
      BY <1>5 DEF EnsureFails
  <2>1. OwnClear(p)' /\ \A q \in Procs \ {p} : proc'[q] = proc[q]
      BY <1>1, <1>2, <1>5, UseFailsClear
  <2> QED
      BY <1>1, <1>2, <1>3, <1>5, <2>0, <2>1, AttemptClear
<1> QED
    BY <1>4, <1>5 DEF Write, Ensured

\* A request leaves only for a credit whose attempt is whole, or which is known.
LEMMA PostClear ==
    ASSUME IndInv, IndInv', Clear, NEW p \in Procs, Post(p)
    PROVE  Clear'
<1> DEFINE c == proc[p].credit
<1>1. /\ executor = p /\ c \in Credits /\ proc[p].at = "posting" /\ Attempts(p)
    BY UsingClear DEF Post
<1>2. UNCHANGED <<stored, fresh, edit, attempts>> /\ open' = open \cup {c} /\ Later
    BY LaterSame DEF Post, disk
<1>3. Advances(stored, stored') /\ Ledger(stored')
    BY <1>2, AdvancesRefl DEF Clear
<1>4. Journal'
  <2>1. \A d \in Doubtful' : d \in Doubtful \/ (d = c /\ d \notin Known(stored))
      BY <1>2 DEF Doubtful, Known
  <2>2. attempts[c] = "whole" \/ c \in Known(stored)
      BY <1>1 DEF Attempts
  <2>3. \A d \in Doubtful' : attempts'[d] = "whole"
      BY <1>2, <2>1, <2>2 DEF Clear, Journal
  <2> QED
      BY <1>2, <2>3 DEF Clear, Journal
<1>5. OwnClear(p)' /\ \A q \in Procs \ {p} : proc'[q] = proc[q]
  <2>1. Goto(p, "sent") /\ proc'[p].at = "sent"
      BY GotoFacts DEF Post
  <2>2. Attempts(p)'
      BY <2>1 DEF Attempts
  <2> QED
      BY <1>1, <1>2, <2>1, <2>2, UseGoesClear
<1> QED
    BY <1>1, <1>2, <1>3, <1>4, <1>5, ClearStep

LEMMA NoAnswerClear ==
    ASSUME IndInv, IndInv', Clear, NEW p \in Procs, NoAnswer(p)
    PROVE  Clear'
<1>1. UNCHANGED <<stored, fresh, edit, attempts, open>> /\ Later
    BY LaterSame DEF NoAnswer, disk, outside
<1>2. OwnClear(p)' /\ \A q \in Procs \ {p} : proc'[q] = proc[q]
    BY <1>1, UseFailsClear DEF NoAnswer
<1> QED
    BY <1>1, <1>2, QuietStep

\* An answer settles the doubt; a lost one leaves it.
LEMMA DeliverClear ==
    ASSUME IndInv, IndInv', Clear, NEW c \in Credits, NEW answered \in BOOLEAN,
           Deliver(c, answered)
    PROVE  Clear'
<1>1. UNCHANGED <<stored, fresh, edit, attempts, now, env>> /\ redeemed \subseteq redeemed'
    BY DEF Deliver, disk
<1>2. Later
    BY <1>1 DEF Later, Gone, Expired
<1>3. CASE UNCHANGED <<proc, open>>
  <2>1. NeverNothing'
      BY <1>1 DEF Clear, NeverNothing
  <2>2. Ledger(stored)'
      BY <1>1, <1>2, LedgerLater DEF Clear, IndInv, TypeOK
  <2>3. (Editor \in fresh /\ edit # None => Ledger(edit))'
      BY <1>1, <1>2, EditLater DEF Clear, IndInv, TypeOK
  <2>4. Journal'
      BY <1>1, <1>3 DEF Clear, Journal, Doubtful, Known
  <2>5. ASSUME NEW q \in Procs
        PROVE  OwnClear(q)'
      BY <1>1, <1>2, <1>3, AdvancesRefl, StaysClear
  <2> QED
      BY <2>1, <2>2, <2>3, <2>4, <2>5 DEF Clear
<1>4. ASSUME NEW p \in Procs, NEW answer \in Outcomes, proc[p].at = "sent", proc[p].credit = c,
             proc' = [proc EXCEPT ![p].at = "saving", ![p].answer = answer],
             open' = open \ {c}, answer # "nothing_to_reset", Gone(c)'
      PROVE  Clear'
  <2>1. /\ proc'[p].at = "saving" /\ proc'[p].answer = answer
        /\ proc'[p].snap = proc[p].snap
        /\ proc'[p].entry = proc[p].entry /\ proc'[p].credit = c
        /\ \A q \in Procs \ {p} : proc'[q] = proc[q]
      BY <1>4, ProcTyped DEF Process
  <2>2. Reads(p) /\ Works(p)
      BY <1>4, UsingClear
  <2>3. Reads(p)' /\ Works(p)' /\ Attempts(p)'
      BY <1>1, <1>4, <2>1, <2>2, ReadsOn DEF Works, WithEntry, Attempts
  <2>4. Answers(p)'
      BY <1>4, <2>1 DEF Answers, Outcomes
  <2>5. OwnClear(p)'
      BY <2>3, <2>4 DEF OwnClear
  <2> QED
      BY <1>1, <1>2, <1>4, <2>1, <2>5, QuietStep
<1>5. \/ UNCHANGED <<proc, open>>
      \/ \E p \in Procs, answer \in Outcomes :
           /\ proc[p].at = "sent" /\ proc[p].credit = c
           /\ proc' = [proc EXCEPT ![p].at = "saving", ![p].answer = answer]
           /\ open' = open \ {c} /\ answer # "nothing_to_reset" /\ Gone(c)'
  <2>1. ASSUME NEW answer \in Outcomes, answer = "already_redeemed" <=> c \in redeemed,
               answer = "no_credit" <=> c \notin redeemed /\ Expired(c),
               redeemed' = IF answer = "reset" THEN redeemed \cup {c} ELSE redeemed,
               answer # "nothing_to_reset"
        PROVE  Gone(c)'
    <3>1. Expired(c)' <=> Expired(c)
        BY <1>1 DEF Expired
    <3> QED
        BY <2>1, <3>1 DEF Gone, Outcomes
  <2>2. "nothing" \notin env.faults
      BY DEF Clear, NeverNothing
  <2> QED
      BY <2>1, <2>2 DEF Deliver
<1> QED
    BY <1>3, <1>4, <1>5

\* A set of numbers has a least one.
LEMMA LeastExists ==
    ASSUME NEW S \in SUBSET Nat, S # {}
    PROVE  \E i \in S : \A j \in S : i <= j
<1> DEFINE R == {ss \in Nat \X Nat : ss[1] < ss[2]}
<1>1. IsWellFoundedOn(R, Nat)
    BY NatLessThanWellFounded, Zenon DEF OpToRel
<1>2. PICK i \in S : \A j \in S : ~(<<j, i>> \in R)
  <2> HIDE DEF R
  <2> QED
      BY <1>1, WFMin
<1>3. ASSUME NEW j \in S PROVE i <= j
  <2>1. i \in Nat /\ j \in Nat /\ ~(<<j, i>> \in R)
      BY <1>2
  <2> QED
      BY <2>1
<1> QED
    BY <1>3

\* What is recorded: nothing, or one open entry of the credit, settled with the answer.
LEMMA RecordedEntry ==
    ASSUME IndInv, Clear, NEW p \in Procs, proc[p].at = "saving"
    PROVE  \/ Recorded(p) = stored
           \/ \E i \in DOMAIN stored.entries, e \in Entry :
                /\ ~IsTerminal(stored.entries[i]) /\ e.credit = stored.entries[i].credit
                /\ e.outcome => e.state \in {"completed", "missed"} /\ Gone(e.credit)
                /\ Recorded(p).entries = [stored.entries EXCEPT ![i] = e]
<1> DEFINE answer == proc[p].answer
<1>1. stored \in Schedule /\ Works(p) /\ Answers(p) /\ Claims(p)
    BY UsingClear DEF IndInv
<1>2. ASSUME NEW i \in DOMAIN stored.entries, ~IsTerminal(stored.entries[i]),
             stored.entries[i].credit = proc[p].credit, answer # "error"
      PROVE  \E e \in Entry :
                /\ e.credit = stored.entries[i].credit
                /\ e.outcome => e.state \in {"completed", "missed"} /\ Gone(e.credit)
                /\ ApplyResult(stored, i, answer).entries = [stored.entries EXCEPT ![i] = e]
  <2> DEFINE state == CASE answer \in {"reset", "already_redeemed"} -> "completed"
                        [] answer = "nothing_to_reset" -> "skipped"
                        [] OTHER -> "missed"
             e == [stored.entries[i] EXCEPT !.backoff = FALSE, !.outcome = TRUE, !.state = state]
             t == [stored EXCEPT !.entries = [@ EXCEPT ![i] = e]]
  <2>1. /\ answer \in {"reset", "already_redeemed"} \/ answer = "no_credit"
        /\ Gone(proc[p].credit)
      BY <1>1, <1>2 DEF Answers
  <2>2. state \in {"completed", "missed"}
      BY <2>1
  <2>3. ApplyResult(stored, i, answer) = Invalidated(t)
      BY DEF ApplyResult
  <2> HIDE DEF state
  <2>4. e \in Entry /\ e.credit = stored.entries[i].credit /\ e.state = state
      BY <1>1, <2>2, EntryOf DEF Entry, EntryStates, Terminal
  <2> HIDE DEF e
  <2>5. Invalidated(t).entries = [stored.entries EXCEPT ![i] = e]
      BY <1>1 DEF Invalidated, Schedule
  <2> QED
      BY <1>2, <2>1, <2>2, <2>3, <2>4, <2>5
<1>3. CASE p \in Schedulers
  <2> DEFINE i == proc[p].entry
  <2>1. /\ i \in DOMAIN stored.entries /\ stored.entries[i].state = "running"
        /\ stored.entries[i].credit = proc[p].credit
      BY <1>1, <1>3 DEF Works, WithEntry, Claims
  <2>2. ~IsTerminal(stored.entries[i])
      BY <2>1 DEF IsTerminal, Terminal
  <2>3. CASE answer # "error"
    <3>1. Recorded(p) = ApplyResult(stored, i, answer)
        BY <1>3, <2>3, ResetAssumption DEF Recorded
    <3> HIDE DEF i, answer
    <3>2. PICK e \in Entry :
             /\ e.credit = stored.entries[i].credit
             /\ e.outcome => e.state \in {"completed", "missed"} /\ Gone(e.credit)
             /\ ApplyResult(stored, i, answer).entries = [stored.entries EXCEPT ![i] = e]
        BY <1>2, <2>1, <2>2, <2>3
    <3> QED
        BY <2>1, <2>2, <3>1, <3>2
  <2>4. CASE answer = "error"
    <3> DEFINE e == [stored.entries[i] EXCEPT !.state = "retrying", !.backoff = TRUE]
               t == [stored EXCEPT !.entries = [@ EXCEPT ![i] = e]]
    <3>1. Recorded(p) = t
        BY <1>3, <2>4, ResetAssumption DEF Recorded
    <3>2. e \in Entry /\ e.credit = stored.entries[i].credit
          /\ e.outcome = stored.entries[i].outcome
        BY <1>1, <2>1, EntryOf DEF Entry, EntryStates, Claimed
    <3>3. ~stored.entries[i].outcome
        BY <2>1 DEF Clear, Ledger
    <3> HIDE DEF e, i
    <3>4. t.entries = [stored.entries EXCEPT ![i] = e]
        BY <1>1 DEF Schedule
    <3> QED
        BY <2>1, <2>2, <3>1, <3>2, <3>3, <3>4
  <2> QED
      BY <2>3, <2>4
<1>4. CASE p \notin Schedulers
  <2> DEFINE own == {i \in DOMAIN stored.entries :
                       /\ stored.entries[i].credit = proc[p].credit
                       /\ ~IsTerminal(stored.entries[i])}
             first == CHOOSE i \in own : \A j \in own : i <= j
  <2>1. Recorded(p) = IF p \in Users /\ own # {}
                      THEN ApplyResult(stored, first, answer) ELSE stored
      BY <1>4 DEF Recorded
  <2>2. own \subseteq Nat
      BY <1>1, Bounded
  <2>3. answer # "error"
      BY <1>1, <1>4 DEF Answers
  <2>4. own # {} => first \in own
    <3> HIDE DEF own
    <3> QED
        BY <2>2, LeastExists
  <2> HIDE DEF first, answer
  <2>5. CASE Recorded(p) = stored
      BY <2>5
  <2>6. CASE own # {} /\ Recorded(p) = ApplyResult(stored, first, answer)
    <3>1. /\ first \in DOMAIN stored.entries /\ ~IsTerminal(stored.entries[first])
          /\ stored.entries[first].credit = proc[p].credit
        BY <2>4, <2>6
    <3> HIDE DEF own
    <3>2. PICK e \in Entry :
             /\ e.credit = stored.entries[first].credit
             /\ e.outcome => e.state \in {"completed", "missed"} /\ Gone(e.credit)
             /\ ApplyResult(stored, first, answer).entries = [stored.entries EXCEPT ![first] = e]
        BY <1>2, <2>3, <3>1
    <3>3. Recorded(p).entries = [stored.entries EXCEPT ![first] = e]
        BY <2>6, <3>2
    <3> QED
        BY <3>1, <3>2, <3>3
  <2> QED
      BY <2>1, <2>5, <2>6
<1> QED
    BY <1>3, <1>4

LEMMA RecordClear ==
    ASSUME IndInv, IndInv', Clear, NEW p \in Procs, Record(p)
    PROVE  Clear'
<1> DEFINE t == Recorded(p)
<1>1. /\ executor = p /\ proc[p].at = "saving" /\ stored \in Schedule
      /\ Reads(p) /\ Answers(p)
    BY UsingClear DEF Record
<1>2. UNCHANGED <<attempts, edit, open>> /\ Later
    BY LaterSame DEF Record, outside
<1>3. Alike(stored, t)
    BY <1>1, RecordedAlike
<1>4. Advances(stored, t) /\ Ledger(t)
  <2>1. CASE t = stored
      BY <2>1, AdvancesRefl DEF Clear
  <2>2. CASE t # stored
    <3>1. PICK i \in DOMAIN stored.entries :
             ~IsTerminal(stored.entries[i]) /\ \E e \in Entry :
                /\ e.credit = stored.entries[i].credit
                /\ e.outcome => e.state \in {"completed", "missed"} /\ Gone(e.credit)
                /\ t.entries = [stored.entries EXCEPT ![i] = e]
        BY <1>1, <2>2, RecordedEntry
    <3>2. PICK e \in Entry :
             /\ e.credit = stored.entries[i].credit
             /\ e.outcome => e.state \in {"completed", "missed"} /\ Gone(e.credit)
             /\ t.entries = [stored.entries EXCEPT ![i] = e]
        BY <3>1
    <3> HIDE DEF t
    <3> QED
        BY <1>1, <3>1, <3>2, LedgerEntry DEF Clear
  <2> QED
      BY <2>1, <2>2
<1>5. /\ Put(t) \/ UpdateFails(t) \/ UNCHANGED <<stored, fresh>>
      /\ Return(p) \/ (Goto(p, "removing") /\ proc[p].answer # "error")
    BY DEF Record
<1> HIDE DEF t
<1>6. /\ Advances(stored, stored') /\ Ledger(stored') /\ fresh' \subseteq fresh
    BY <1>1, <1>3, <1>4, <1>5, SaveAdvances DEF Put, UpdateFails
<1>7. OwnClear(p)' /\ \A q \in Procs \ {p} : proc'[q] = proc[q]
  <2>1. CASE Return(p)
      BY <2>1, ReturnClear
  <2>2. CASE Goto(p, "removing") /\ proc[p].answer # "error"
    <3>1. /\ proc'[p].at = "removing" /\ proc'[p].snap = proc[p].snap
          /\ proc'[p].credit = proc[p].credit
          /\ \A q \in Procs \ {p} : proc'[q] = proc[q]
        BY <2>2, GotoFacts
    <3>2. Answers(p)'
        BY <1>1, <1>2, <2>2, <3>1 DEF Answers
    <3>3. Copies(p)
        BY DEF IndInv
    <3>4. Reads(p)'
        BY <1>1, <1>6, <3>1, <3>3 DEF Reads, Copies, Advances
    <3> QED
        BY <3>1, <3>2, <3>4 DEF OwnClear, Works, Attempts, WithEntry
  <2> QED
      BY <1>5, <2>1, <2>2
<1> QED
    BY <1>1, <1>2, <1>6, <1>7, WriteStepClear

\* An attempt is removed for a credit that has been answered.
LEMMA RemoveAttemptClear ==
    ASSUME IndInv, IndInv', Clear, NEW p \in Procs, RemoveAttempt(p)
    PROVE  Clear'
<1> DEFINE c == proc[p].credit
<1>1. /\ executor = p /\ proc[p].at = "removing" /\ c \in Credits /\ Answers(p)
    BY UsingClear DEF RemoveAttempt
<1>2. UNCHANGED <<stored, fresh, edit, open>> /\ Later
    BY LaterSame DEF RemoveAttempt, outside
<1>3. OwnClear(p)' /\ \A q \in Procs \ {p} : proc'[q] = proc[q]
  <2>1. CASE Return(p)
      BY <2>1, ReturnClear
  <2>2. CASE Goto(p, "warning")
    <3>1. /\ proc'[p].at = "warning" /\ proc'[p].snap = proc[p].snap
          /\ \A q \in Procs \ {p} : proc'[q] = proc[q]
        BY <2>2, GotoFacts
    <3> QED
        BY <1>2, <3>1, CopyClear DEF WithEntry
  <2> QED
      BY <2>1, <2>2 DEF RemoveAttempt
<1>4. CASE attempts' = attempts
    BY <1>1, <1>2, <1>3, <1>4, QuietStep
<1>5. CASE attempts' = [attempts EXCEPT ![c] = "none"]
  <2>1. c \notin Doubtful
      BY <1>1 DEF Answers, Doubtful
  <2>2. Advances(stored, stored') /\ Ledger(stored')
      BY <1>2, AdvancesRefl DEF Clear
  <2> HIDE DEF c
  <2> QED
      BY <1>1, <1>2, <1>3, <1>5, <2>1, <2>2, AttemptClear
<1> QED
    BY <1>4, <1>5 DEF RemoveAttempt

LEMMA WarnClear ==
    ASSUME IndInv, IndInv', Clear, NEW p \in Procs, Warn(p)
    PROVE  Clear'
<1>1. executor = p /\ stored \in Schedule /\ Alike(stored, stored)
    BY ProcTyped, AtLocked, AlikeFlags DEF Warn, Locked
<1>2. UNCHANGED <<attempts, edit, open>> /\ Later
    BY LaterSame DEF Warn, outside
<1>3. Advances(stored, stored) /\ Ledger(stored)
    BY AdvancesRefl DEF Clear
<1>4. Advances(stored, stored') /\ Ledger(stored') /\ fresh' \subseteq fresh
    BY <1>1, <1>3, SaveAdvances DEF Warn, Put, UpdateFails
<1>5. OwnClear(p)' /\ \A q \in Procs \ {p} : proc'[q] = proc[q]
    BY ReturnClear DEF Warn
<1> QED
    BY <1>1, <1>2, <1>4, <1>5, WriteStepClear

LEMMA PrepareUseClear ==
    ASSUME IndInv, IndInv', Clear, NEW u \in Users, PrepareUse(u)
    PROVE  Clear'
<1>0. u \in Procs /\ env \in Environment
    BY DEF Procs, IndInv, TypeOK
<1>1. PICK c \in Credits : proc' = [proc EXCEPT ![u].at = "confirming", ![u].credit = c]
    BY DEF PrepareUse
<1>2. /\ proc'[u].at = "confirming" /\ proc'[u].snap = proc[u].snap
      /\ \A q \in Procs \ {u} : proc'[q] = proc[q]
    BY <1>0, <1>1, ProcTyped DEF Process
<1>3. UNCHANGED <<stored, attempts, edit, fresh, open, now, redeemed>>
    BY DEF PrepareUse, disk
<1>4. env'.faults = env.faults
    BY <1>0 DEF PrepareUse, Environment
<1>5. OwnClear(u)'
    BY <1>0, <1>2, <1>3, CopyClear DEF WithEntry
<1>6. Later
    BY <1>3, <1>4, LaterSame
<1> QED
    BY <1>0, <1>2, <1>3, <1>5, <1>6, QuietStep

LEMMA ExecuteUseClear ==
    ASSUME IndInv, IndInv', Clear, NEW u \in Users, ExecuteUse(u)
    PROVE  Clear'
<1>0. u \in Procs /\ u \notin Schedulers
    BY ResetAssumption DEF Procs
<1>1. UNCHANGED <<stored, attempts, edit, fresh, open>> /\ Later
    BY LaterSame DEF ExecuteUse, disk, outside
<1>2. OwnClear(u)' /\ \A q \in Procs \ {u} : proc'[q] = proc[q]
  <2>1. CASE Return(u)
      BY <1>0, <2>1, ReturnClear
  <2>2. CASE Goto(u, "using")
    <3>1. /\ proc'[u].at = "using" /\ proc'[u].snap = proc[u].snap
          /\ \A q \in Procs \ {u} : proc'[q] = proc[q]
        BY <1>0, <2>2, GotoFacts
    <3>2. Reads(u)'
        BY <1>0, <1>1, <3>1, ReadsOn DEF Clear, OwnClear
    <3> QED
        BY <1>0, <3>1, <3>2 DEF OwnClear, Works, Attempts, Answers
  <2> QED
      BY <2>1, <2>2 DEF ExecuteUse
<1> QED
    BY <1>0, <1>1, <1>2, QuietStep

LEMMA CrashClear ==
    ASSUME IndInv, IndInv', Clear, NEW p \in Procs, Crash(p)
    PROVE  Clear'
<1>1. UNCHANGED <<stored, attempts, edit, fresh, open, now, redeemed>>
    BY DEF Crash, disk
<1>2. env'.faults = env.faults
    BY DEF Crash, Environment, IndInv, TypeOK
<1>3. Later
    BY <1>1, <1>2, LaterSame
<1>4. OwnClear(p)' /\ \A q \in Procs \ {p} : proc'[q] = proc[q]
    BY ReturnClear DEF Crash
<1> QED
    BY <1>1, <1>3, <1>4, QuietStep

LEMMA TickClear ==
    ASSUME IndInv, IndInv', Clear, Tick
    PROVE  Clear'
<1>1. UNCHANGED <<stored, attempts, edit, fresh, open, redeemed, env, executor, proc>>
    BY DEF Tick, disk
<1>2. Later
  <2>1. \A c \in Credits : Expiry[c] \in Int
      BY ResetAssumption, Numbers
  <2>2. now \in Int /\ now' = now + 1
      BY Numbers DEF Tick, IndInv, TypeOK, Times
  <2>3. \A c \in Credits : Expired(c) => Expired(c)'
      BY <2>1, <2>2 DEF Expired
  <2> QED
      BY <1>1, <2>3 DEF Later, Gone
<1>3. Ledger(stored)'
    BY <1>1, <1>2, LedgerLater DEF Clear, IndInv, TypeOK
<1>4. (Editor \in fresh /\ edit # None => Ledger(edit))'
    BY <1>1, <1>2, EditLater DEF Clear, IndInv, TypeOK
<1>5. NeverNothing' /\ Journal'
    BY <1>1 DEF Clear, NeverNothing, Journal, Doubtful, Known
<1>6. ASSUME NEW q \in Procs
      PROVE  OwnClear(q)'
    BY <1>1, <1>2, AdvancesRefl, StaysClear
<1> QED
    BY <1>3, <1>4, <1>5, <1>6 DEF Clear

\* The editor's commands.
LEMMA LedgerKept ==
    ASSUME NEW s \in LongSchedule, Ledger(s), NEW t, Keeps(s, t)
    PROVE  Ledger(t)
<1>1. PICK n \in Nat : s.entries \in [1..n -> Entry]
    BY Lists
<1>2. Extends(s, t) /\ DOMAIN t.entries = DOMAIN s.entries
    BY <1>1 DEF Keeps
<1> QED
    BY <1>2, LedgerRevised

\* Only credits that are still to be had are enrolled, in the place of what is open.
LEMMA AcceptsLedger ==
    ASSUME now \in Times, env \in Environment, NEW s \in LongSchedule, Ledger(s),
           NEW t \in Accepts(s)
    PROVE  Ledger(t)
<1> DEFINE lists == UNION {{Enrolled(S, at) : at \in {f \in [S -> Times] :
                                                  \A c \in S : f[c] \in UsableTimes(c)}} :
                           S \in {T \in SUBSET Enrollable(s) : T # {} /\ ~PendingFails}}
<1>a. PICK adaptive \in BOOLEAN, list \in lists : t = Accepted(s, adaptive, list)
  <2>1. Accepts(s) = {Accepted(s, adaptive, list) : adaptive \in BOOLEAN, list \in lists}
      BY DEF Accepts
  <2> HIDE DEF lists
  <2> QED
      BY <2>1
<1>b. PICK S \in SUBSET Enrollable(s) : \E at \in [S -> Times] : list = Enrolled(S, at)
    BY Zenon
<1>c. PICK at \in [S -> Times] : list = Enrolled(S, at)
    BY <1>b
<1> HIDE DEF lists
<1> DEFINE u == MapEntries(s, Cancelled)
           es == Enrolled(S, at)
<1>1. u \in LongSchedule /\ Ledger(u)
    BY CancelKeeps, LedgerKept
<1>2. /\ es \in Seq(Entry)
      /\ \A k \in DOMAIN es : ~es[k].outcome /\ es[k].credit \in S
      /\ \A k, l \in DOMAIN es : es[k].credit = es[l].credit => k = l
    BY EnrolledTyped DEF Enrollable
<1>3. \A i \in DOMAIN u.entries : i \in DOMAIN s.entries /\ u.entries[i] = Cancelled(s.entries[i])
    BY DEF MapEntries, LongSchedule
<1>4. t.entries = u.entries \o es
  <2>1. t = [u EXCEPT !.enabled = @ \/ ~s.saved, !.adaptive = adaptive,
                      !.planValid = TRUE, !.replanDue = FALSE, !.entries = @ \o es]
      BY <1>a, <1>c DEF Accepted
  <2> HIDE DEF u, es
  <2> QED
      BY <1>1, <2>1 DEF LongSchedule
<1> HIDE DEF u, es
<1>5. ASSUME NEW c \in S
      PROVE  /\ ~Gone(c)
             /\ \A i \in DOMAIN u.entries : u.entries[i].credit = c => IsTerminal(u.entries[i])
  <2>1. c \in Enrollable(s)
      OBVIOUS
  <2>2. ~Gone(c)
      BY <2>1 DEF Enrollable, Eligible, Gone
  <2>3. ASSUME NEW i \in DOMAIN u.entries, u.entries[i].credit = c
        PROVE  IsTerminal(u.entries[i])
    <3>1. i \in DOMAIN s.entries /\ u.entries[i] = Cancelled(s.entries[i])
          /\ s.entries[i] \in Entry
        BY <1>3, Lists
    <3>2. s.entries[i].credit = c
        BY <2>3, <3>1 DEF Cancelled, Entry
    <3>3. s.entries[i].state \notin Claimed
        BY <2>1, <3>1, <3>2 DEF Enrollable
    <3> QED
        BY <3>1, <3>3 DEF Cancelled, Editable, Entry, EntryStates, IsTerminal, Terminal
  <2> QED
      BY <2>2, <2>3
<1> QED
    BY <1>1, <1>2, <1>4, <1>5, LedgerAppend

LEMMA AddsLedger ==
    ASSUME now \in Times, env \in Environment, NEW s \in LongSchedule, Ledger(s),
           NEW t \in Adds(s)
    PROVE  Ledger(t)
<1> DEFINE credits == {d \in Credits : /\ Eligible(d) /\ Pending(Account[d]) = {} /\ ~PendingFails
                                       /\ \A i \in DOMAIN s.entries :
                                            s.entries[i].credit = d => IsTerminal(s.entries[i])}
           new == UNION {{NewEntry(c, at, TRUE) : at \in UsableTimes(c)} : c \in credits}
<1>a. PICK entry \in new : t = [s EXCEPT !.entries = Append(@, entry)]
    BY Zenon DEF Adds
<1>b. PICK c \in credits : \E at \in UsableTimes(c) : entry = NewEntry(c, at, TRUE)
    BY Zenon
<1>c. PICK at \in UsableTimes(c) : entry = NewEntry(c, at, TRUE)
    BY <1>b
<1>d. /\ c \in Credits /\ ~Gone(c)
      /\ \A i \in DOMAIN s.entries : s.entries[i].credit = c => IsTerminal(s.entries[i])
    BY DEF Eligible, Gone
<1> HIDE DEF new, credits
<1>2. entry \in Entry /\ ~entry.outcome /\ entry.credit = c
    BY <1>c, <1>d, UsableTyped, NewEntryTyped DEF NewEntry
<1>3. PICK n \in Nat : s.entries \in [1..n -> Entry] /\ Len(s.entries) = n
    BY Lists
<1> DEFINE es == <<entry>>
<1>4. /\ s.entries \in Seq(Entry) /\ es \in Seq(Entry)
      /\ \A k \in DOMAIN es : es[k] = entry
      /\ \A k, l \in DOMAIN es : k = l
    BY <1>2, <1>3
<1>5. Append(s.entries, entry) = s.entries \o es
    BY <1>2, <1>4, AppendIsConcat
<1>6. t.entries = s.entries \o es
    BY <1>a, <1>5 DEF LongSchedule
<1> HIDE DEF es
<1> QED
    BY <1>2, <1>4, <1>6, <1>d, LedgerAppend

LEMMA EditedLedger ==
    ASSUME now \in Times, env \in Environment, NEW s \in LongSchedule, Ledger(s),
           NEW command \in Commands, NEW t \in Edited(command, s)
    PROVE  Ledger(t)
<1>1. CASE command = "accept"
    BY <1>1, AcceptsLedger DEF Edited
<1>2. CASE command = "add"
    BY <1>2, AddsLedger DEF Edited
<1>3. CASE command = "set"
    BY <1>3, SetsKeep, LedgerKept DEF Edited
<1>4. CASE command = "mode"
    BY <1>4, ModesKeep, LedgerKept DEF Edited
<1>5. CASE command \in {"enable", "disable"}
  <2>1. t.entries = s.entries
      BY <1>5 DEF Edited, LongSchedule
  <2> QED
      BY <2>1 DEF Ledger
<1>6. CASE command = "remove"
    BY <1>6, RemovesKeep, LedgerKept DEF Edited
<1>7. CASE command = "cancel"
  <2> DEFINE u == MapEntries(s, Cancelled)
  <2>1. u \in LongSchedule /\ Ledger(u)
      BY CancelKeeps, LedgerKept
  <2>2. t = [u EXCEPT !.enabled = FALSE]
      BY <1>7 DEF Edited
  <2> HIDE DEF u
  <2>3. t.entries = u.entries
      BY <2>1, <2>2 DEF LongSchedule
  <2> QED
      BY <2>1, <2>3 DEF Ledger
<1> QED
    BY <1>1, <1>2, <1>3, <1>4, <1>5, <1>6, <1>7 DEF Commands

LEMMA PrepareScheduleClear ==
    ASSUME IndInv, IndInv', Clear, NEW command \in Commands, PrepareSchedule(command)
    PROVE  Clear'
<1>1. /\ now \in Times /\ env \in Environment /\ stored \in Schedule /\ Ledger(stored)
    BY DEF IndInv, TypeOK, Clear
<1>2. PICK changed \in Edited(command, stored) :
         Len(changed.entries) <= env.entries /\ edit' \in Prepared(command, changed)
    BY DEF PrepareSchedule
<1>3. stored \in LongSchedule /\ env.entries \in 0..MaxEntries
    BY <1>1, Bounded DEF Environment
<1>4. changed \in LongSchedule /\ Ledger(changed)
    BY <1>1, <1>2, <1>3, EditedKeep, EditedLedger
<1>5. changed \in Schedule
    BY <1>2, <1>3, <1>4, BoundedBy
<1>6. edit' \in Schedule /\ Ledger(edit')
    BY <1>2, <1>4, <1>5, PreparedKeep, LedgerKept
<1>7. /\ UNCHANGED <<now, stored, attempts, executor, proc, redeemed, open>>
      /\ fresh' = fresh \cup {Editor} /\ env' = [env EXCEPT !.changes = @ - 1]
    BY DEF PrepareSchedule
<1>8. env'.faults = env.faults
    BY <1>1, <1>7 DEF Environment
<1>9. Later
    BY <1>7, <1>8, LaterSame
<1>10. Ledger(stored)' /\ Ledger(edit)'
    BY <1>1, <1>6, <1>7, <1>9, LedgerLater, EditLater
<1>11. NeverNothing' /\ Journal'
    BY <1>7, <1>8 DEF Clear, NeverNothing, Journal, Doubtful, Known
<1>12. ASSUME NEW q \in Procs
       PROVE  OwnClear(q)'
  <2>1. q \in fresh' => q \in fresh
      BY <1>7, Numbers
  <2> QED
      BY <1>7, <1>9, <2>1, AdvancesRefl, StaysClear
<1> QED
    BY <1>10, <1>11, <1>12 DEF Clear

\* A revision that is applied shows no claim that was not one, and no outcome less.
LEMMA RevisedClear ==
    ASSUME IndInv, Clear, Extends(stored, stored'), fresh' = {},
           UNCHANGED <<attempts, open, proc>>, Later, NEW q \in Procs
    PROVE  OwnClear(q)'
<1>1. /\ Reads(q) /\ Works(q) /\ Attempts(q) /\ Answers(q)
      /\ Copies(q) /\ Chosen(q) /\ Claims(q) /\ proc'[q] = proc[q]
    BY DEF Clear, OwnClear, IndInv
<1>2. ASSUME NEW i \in DOMAIN stored.entries
      PROVE  /\ stored'.entries[i].credit = stored.entries[i].credit
             /\ stored'.entries[i].outcome = stored.entries[i].outcome
             /\ stored'.entries[i].state \in Claimed => stored.entries[i].state \in Claimed
  <2>1. Revises(stored.entries[i], stored'.entries[i])
      BY DEF Extends
  <2> QED
      BY <2>1 DEF Revises, Revisable, Editable, Claimed
<1>3. q \in Schedulers /\ proc[q].at \in WithEntry => proc[q].entry \in DOMAIN stored.entries
    BY <1>1 DEF Copies, Claims, WithEntry
<1>4. Known(stored) \subseteq Known(stored')
    BY ExtendsAdvances, KnownGrows
<1>5. Reads(q)'
  <2>1. \A i \in DOMAIN proc[q].snap.entries : i \in DOMAIN stored.entries
      BY <1>1 DEF Copies
  <2> QED
      BY <1>1, <1>2, <2>1 DEF Reads
<1>6. Works(q)'
    BY <1>1, <1>2, <1>3 DEF Works
<1>7. Attempts(q)'
  <2>1. Doubtful' \subseteq Doubtful /\ Known(stored) \subseteq Known(stored)'
      BY <1>4 DEF Doubtful, Known
  <2>2. q \in Schedulers /\ proc[q].at = "preflight"
        /\ stored'.entries[proc[q].entry].state \in Claimed
        => attempts[proc[q].credit] = "whole"
      BY <1>1, <1>2, <1>3 DEF Attempts, WithEntry
  <2> QED
      BY <1>1, <2>1, <2>2 DEF Attempts
<1>8. Answers(q)'
  <2>1. proc[q].at = "saving" => proc[q].credit \in Credits
      BY <1>1 DEF Chosen, WithCredit
  <2>2. proc[q].at = "saving" /\ Gone(proc[q].credit) => Gone(proc[q].credit)'
      BY <2>1 DEF Later
  <2> QED
      BY <1>1, <2>2 DEF Answers
<1> QED
    BY <1>5, <1>6, <1>7, <1>8 DEF OwnClear

LEMMA ApplyScheduleClear ==
    ASSUME IndInv, IndInv', Clear, ApplySchedule
    PROVE  Clear'
<1>1. /\ edit # None /\ edit \in Schedule /\ edit' = None
      /\ stored' \in Schedule /\ open \subseteq Credits
      /\ UNCHANGED <<attempts, executor, proc, open>> /\ Later
    BY LaterSame DEF IndInv, TypeOK, ApplySchedule, outside
<1>2. NeverNothing' /\ (Editor \in fresh /\ edit # None => Ledger(edit))'
    BY <1>1 DEF Clear, NeverNothing, Later
<1>3. CASE fresh' = fresh \ {Editor} /\ UNCHANGED stored
  <2>1. Ledger(stored)'
      BY <1>1, <1>3, LedgerLater DEF Clear
  <2>2. Journal'
      BY <1>1, <1>3 DEF Clear, Journal, Doubtful, Known
  <2>3. ASSUME NEW q \in Procs
        PROVE  OwnClear(q)'
    <3>1. /\ proc'[q] = proc[q] /\ Advances(stored, stored') /\ stored' = stored
          /\ open' \subseteq open /\ (q \in fresh' => q \in fresh)
          /\ \A c \in Credits : attempts'[c] = attempts[c]
        BY <1>1, <1>3, AdvancesRefl
    <3> QED
        BY <1>1, <3>1, StaysClear
  <2> QED
      BY <1>2, <2>1, <2>2, <2>3 DEF Clear
<1>4. CASE Editor \in fresh /\ Put(edit)
  <2>1. Extends(stored, edit) /\ Ledger(edit)
      BY <1>1, <1>4 DEF IndInv, Edits, Clear
  <2>2. stored'.entries = edit.entries /\ fresh' = {}
      BY <1>1, <1>4 DEF Put, Schedule
  <2>3. Extends(stored, stored') /\ Ledger(stored')
      BY <2>1, <2>2 DEF Extends, Ledger
  <2>4. Ledger(stored)'
      BY <1>1, <2>3, LedgerLater
  <2>5. Advances(stored, stored') /\ Journal
      BY <2>3, ExtendsAdvances DEF Clear
  <2>6. Journal'
      BY <1>1, <2>5, JournalLess
  <2>7. ASSUME NEW q \in Procs
        PROVE  OwnClear(q)'
      BY <1>1, <2>2, <2>3, RevisedClear
  <2> QED
      BY <1>2, <2>4, <2>6, <2>7 DEF Clear
<1> QED
    BY <1>3, <1>4 DEF ApplySchedule

\* A moment that passes in every copy.
LEMMA SameLedger ==
    ASSUME NEW s, NEW t, Ledger(s), Same(s, t), Alike(s, t)
    PROVE  Ledger(t) /\ Advances(s, t)
BY DEF Ledger, Same, Alike, Advances, IsTerminal

LEMMA PastClear ==
    ASSUME IndInv, IndInv', Clear, UNCHANGED <<attempts, fresh, executor, planned, outside>>,
           \A p \in Procs : /\ Same(proc[p].snap, proc'[p].snap)
                            /\ Alike(proc[p].snap, proc'[p].snap)
                            /\ proc'[p].at = proc[p].at /\ proc'[p].entry = proc[p].entry
                            /\ proc'[p].credit = proc[p].credit
                            /\ proc'[p].answer = proc[p].answer,
           Alike(stored, stored'), Same(stored, stored'),
           edit = None => edit' = None,
           edit # None => Alike(edit, edit') /\ Same(edit, edit')
    PROVE  Clear'
<1>1. Later /\ stored' \in Schedule /\ open \subseteq Credits
    BY LaterSame DEF outside, IndInv, TypeOK
<1>2. Ledger(stored') /\ Advances(stored, stored')
    BY SameLedger DEF Clear
<1>3. Ledger(stored)'
    BY <1>1, <1>2, LedgerLater
<1>4. (Editor \in fresh /\ edit # None => Ledger(edit))'
  <2> SUFFICES ASSUME Editor \in fresh', edit' # None
               PROVE  Ledger(edit)'
      OBVIOUS
  <2>1. edit # None /\ Ledger(edit) /\ edit' \in Schedule
      BY DEF Clear, Alike
  <2>2. Ledger(edit')
      BY <2>1, SameLedger
  <2> QED
      BY <1>1, <2>1, <2>2, EditLater
<1>5. NeverNothing' /\ Journal /\ open' = open
    BY DEF Clear, NeverNothing, outside
<1>6. Journal'
    BY <1>1, <1>2, <1>5, JournalLess
<1>7. Known(stored') = Known(stored)
    BY DEF Known, Same, Alike
<1>8. ASSUME NEW q \in Procs
      PROVE  OwnClear(q)'
  <2>1. /\ Reads(q) /\ Works(q) /\ Attempts(q) /\ Answers(q)
        /\ Copies(q) /\ Chosen(q) /\ Claims(q)
      BY DEF Clear, OwnClear, IndInv
  <2>2. /\ proc'[q].at = proc[q].at /\ proc'[q].entry = proc[q].entry
        /\ proc'[q].credit = proc[q].credit /\ proc'[q].answer = proc[q].answer
      OBVIOUS
  <2>3. q \in Schedulers /\ proc[q].at \in WithEntry => proc[q].entry \in DOMAIN stored.entries
      BY <2>1 DEF Copies, Claims, WithEntry
  <2>4. Reads(q)'
    <3> DEFINE s == proc[q].snap
               t == proc'[q].snap
    <3>1. /\ DOMAIN t.entries = DOMAIN s.entries
          /\ \A i \in DOMAIN s.entries :
               /\ t.entries[i].credit = s.entries[i].credit
               /\ t.entries[i].state = s.entries[i].state
               /\ t.entries[i].outcome = s.entries[i].outcome
        BY DEF Alike, Same
    <3>2. \A i \in DOMAIN s.entries :
               /\ stored'.entries[i].credit = stored.entries[i].credit
               /\ stored'.entries[i].state = stored.entries[i].state
               /\ stored'.entries[i].outcome = stored.entries[i].outcome
        BY <2>1 DEF Same, Copies
    <3> QED
        BY <2>1, <2>2, <3>1, <3>2 DEF Reads
  <2>5. Works(q)'
      BY <2>1, <2>2, <2>3 DEF Works, Same, IsTerminal
  <2>6. Attempts(q)'
    <3>1. Doubtful' = Doubtful /\ Known(stored)' = Known(stored)
        BY <1>5, <1>7 DEF Doubtful, Known
    <3> QED
        BY <2>1, <2>2, <2>3, <3>1 DEF Attempts, Same, WithEntry
  <2>7. Answers(q)'
      BY <2>1, <2>2, <1>5 DEF Answers, Gone, Expired, outside
  <2> QED
      BY <2>4, <2>5, <2>6, <2>7 DEF OwnClear
<1> QED
    BY <1>3, <1>4, <1>5, <1>6, <1>8 DEF Clear

LEMMA BackoffEndsClear ==
    ASSUME IndInv, IndInv', Clear, NEW S, BackoffEnds(S)
    PROVE  Clear'
<1>1. /\ proc \in [Procs -> Process] /\ stored \in Schedule
      /\ edit = None \/ edit \in Schedule
    BY DEF IndInv, TypeOK
<1>2. /\ stored' = Rested(stored, S) /\ edit' = IF edit = None THEN None ELSE Rested(edit, S)
      /\ proc' = [p \in Procs |-> [proc[p] EXCEPT !.snap = Rested(@, S)]]
      /\ UNCHANGED <<attempts, fresh, executor, planned, outside>>
    BY DEF BackoffEnds, Past
<1>3. ASSUME NEW p \in Procs
      PROVE  /\ Alike(proc[p].snap, proc'[p].snap) /\ Same(proc[p].snap, proc'[p].snap)
             /\ proc'[p].at = proc[p].at /\ proc'[p].entry = proc[p].entry
             /\ proc'[p].credit = proc[p].credit /\ proc'[p].answer = proc[p].answer
  <2>1. proc[p] \in Process /\ proc[p].snap \in Schedule
      BY <1>1 DEF Process
  <2>2. /\ proc'[p].snap = Rested(proc[p].snap, S)
        /\ proc'[p].at = proc[p].at /\ proc'[p].entry = proc[p].entry
        /\ proc'[p].credit = proc[p].credit /\ proc'[p].answer = proc[p].answer
      BY <1>2, <2>1 DEF Process
  <2> QED
      BY <2>1, <2>2, RestedAlike
<1>4. /\ Alike(stored, stored') /\ Same(stored, stored')
      /\ edit = None => edit' = None
      /\ edit # None => Alike(edit, edit') /\ Same(edit, edit')
    BY <1>1, <1>2, RestedAlike
<1> QED
    BY <1>2, <1>3, <1>4, PastClear

LEMMA ReplanFallsDueClear ==
    ASSUME IndInv, IndInv', Clear, ReplanFallsDue
    PROVE  Clear'
<1>1. /\ proc \in [Procs -> Process] /\ stored \in Schedule
      /\ edit = None \/ edit \in Schedule
    BY DEF IndInv, TypeOK
<1>2. /\ stored' = Stale(stored) /\ edit' = IF edit = None THEN None ELSE Stale(edit)
      /\ proc' = [p \in Procs |-> [proc[p] EXCEPT !.snap = Stale(@)]]
      /\ UNCHANGED <<attempts, fresh, executor, planned, outside>>
    BY DEF ReplanFallsDue, Past, Stale
<1>3. ASSUME NEW p \in Procs
      PROVE  /\ Alike(proc[p].snap, proc'[p].snap) /\ Same(proc[p].snap, proc'[p].snap)
             /\ proc'[p].at = proc[p].at /\ proc'[p].entry = proc[p].entry
             /\ proc'[p].credit = proc[p].credit /\ proc'[p].answer = proc[p].answer
  <2>1. proc[p] \in Process /\ proc[p].snap \in Schedule
      BY <1>1 DEF Process
  <2>2. /\ proc'[p].snap = Stale(proc[p].snap)
        /\ proc'[p].at = proc[p].at /\ proc'[p].entry = proc[p].entry
        /\ proc'[p].credit = proc[p].credit /\ proc'[p].answer = proc[p].answer
      BY <1>2, <2>1 DEF Process
  <2> QED
      BY <2>1, <2>2, StaleAlike
<1>4. /\ Alike(stored, stored') /\ Same(stored, stored')
      /\ edit = None => edit' = None
      /\ edit # None => Alike(edit, edit') /\ Same(edit, edit')
    BY <1>1, <1>2, StaleAlike
<1> QED
    BY <1>2, <1>3, <1>4, PastClear

LEMMA InitClear == Init /\ NeverNothing => Clear
<1> SUFFICES ASSUME Init, NeverNothing PROVE Clear
    OBVIOUS
<1>1. DOMAIN stored.entries = {} /\ open = {} /\ edit = None
      /\ \A c \in Credits : attempts[c] = "none"
    BY IdleTyped DEF Init
<1>2. Ledger(stored) /\ Journal
    BY <1>1 DEF Ledger, Journal, Doubtful
<1>3. ASSUME NEW p \in Procs
      PROVE  OwnClear(p)
  <2>1. proc[p].at = "idle" /\ DOMAIN proc[p].snap.entries = {}
      BY IdleTyped DEF Init, Idle
  <2> QED
      BY <2>1 DEF OwnClear, Reads, Works, Attempts, Answers, WithEntry
<1> QED
    BY <1>1, <1>2, <1>3 DEF Clear

LEMMA NextClear == IndInv /\ IndInv' /\ Clear /\ [Next]_vars => Clear'
<1> SUFFICES ASSUME IndInv, IndInv', Clear, [Next]_vars PROVE Clear'
    OBVIOUS
<1>1. ASSUME NEW p \in Schedulers, Step(p) PROVE Clear'
    BY <1>1, LoadClear, CleanClear, AcquireClear, ReplanClear, PickClear, RebuildClear,
       RewriteClear, PreflightClear, ClaimClear DEF Step
<1>2. ASSUME NEW p \in Procs, Execute(p) \/ Crash(p) PROVE Clear'
    BY <1>2, UseClear, WriteClear, PostClear, NoAnswerClear, RecordClear, RemoveAttemptClear, WarnClear,
       CrashClear DEF Execute
<1>3. ASSUME NEW u \in Users, PrepareUse(u) \/ ExecuteUse(u) PROVE Clear'
    BY <1>3, PrepareUseClear, ExecuteUseClear
<1>4. ASSUME NEW c \in Credits, NEW answered \in BOOLEAN, Deliver(c, answered) PROVE Clear'
    BY <1>4, DeliverClear
<1>5. ASSUME NEW command \in Commands, PrepareSchedule(command) PROVE Clear'
    BY <1>5, PrepareScheduleClear
<1>6. CASE ApplySchedule
    BY <1>6, ApplyScheduleClear
<1>7. CASE Tick
    BY <1>7, TickClear
<1>8. ASSUME NEW S \in SUBSET (1..MaxEntries), BackoffEnds(S) PROVE Clear'
    BY <1>8, BackoffEndsClear
<1>9. CASE ReplanFallsDue
    BY <1>9, ReplanFallsDueClear
<1>10. CASE UNCHANGED vars
  <2>1. /\ UNCHANGED <<stored, attempts, edit, fresh, open, redeemed, now, env, executor, proc>>
      BY <1>10 DEF vars
  <2>2. Later
      BY <2>1, LaterSame
  <2>3. Ledger(stored)' /\ (Editor \in fresh /\ edit # None => Ledger(edit))'
      BY <2>1, <2>2, LedgerLater, EditLater DEF Clear, IndInv, TypeOK
  <2>4. NeverNothing' /\ Journal'
      BY <2>1 DEF Clear, NeverNothing, Journal, Doubtful, Known
  <2>5. ASSUME NEW q \in Procs
        PROVE  OwnClear(q)'
      BY <2>1, <2>2, AdvancesRefl, StaysClear
  <2> QED
      BY <2>3, <2>4, <2>5 DEF Clear
<1> QED
    BY <1>1, <1>2, <1>3, <1>4, <1>5, <1>6, <1>7, <1>8, <1>9, <1>10 DEF Next

\* The invariant of the journal and the ledger, when the service never answers
\* nothing_to_reset: an outcome in the schedule is final, a credit has one open entry
\* at most, and from before ResetAttemptStore.Ensure's request leaves until its
\* outcome is recorded the credit's attempt is on disk and the only one of its account.
THEOREM JournalInvariant == Spec /\ NeverNothing => []Clear
<1>1. Init /\ NeverNothing => Clear
    BY InitClear
<1>2. IndInv /\ IndInv' /\ Clear /\ [Next]_vars => Clear'
    BY NextClear
<1> QED
    BY <1>1, <1>2, ResetInvariant, PTL DEF Spec

\* Of an account, one credit at most is in doubt: while a request has no recorded
\* answer its attempt stays, and SelectResetCredit, the rebuild of a claim's attempt
\* and the executor lock let no other credit of the account be used.  Where the
\* service may answer nothing_to_reset this is false: ResetsStale.cfg shows how.
THEOREM OneRequestInDoubt == Spec /\ NeverNothing => []OneInDoubt
<1>1. IndInv /\ Clear => OneInDoubt
  <2> SUFFICES ASSUME IndInv, Clear, NEW c \in InDoubt, NEW d \in InDoubt,
                      Account[c] = Account[d]
               PROVE  c = d
      BY DEF OneInDoubt
  <2>1. Ledger(stored) /\ Journal /\ open \subseteq Credits
      BY DEF IndInv, TypeOK, Clear
  <2>2. c \in Doubtful /\ d \in Doubtful
      BY <2>1 DEF InDoubt, Doubtful, Known, Ledger
  <2>3. c \in Credits /\ d \in Credits /\ attempts[c] = "whole" /\ attempts[d] = "whole"
      BY <2>1, <2>2 DEF Journal, Doubtful
  <2> QED
      BY <2>1, <2>3 DEF Journal
<1> QED
    BY <1>1, ResetInvariant, JournalInvariant, PTL

\* ClaimKept without a condition on the attempt: the preflight of a claimed entry
\* always finds it, because no cleanupScheduleAttempts, however old the copy it works
\* from, removes the attempt of a credit whose entry is open.
LEMMA NextKeepsClaims ==
    IndInv /\ Clear /\ [Next]_vars =>
        [\A i \in DOMAIN stored.entries : stored.entries[i].state \in Claimed =>
            \/ stored'.entries[i].state \in Claimed
            \/ stored'.entries[i].state \in Terminal /\ stored'.entries[i].outcome]_vars
<1>1. Clear => AttemptKept
  <2> SUFFICES ASSUME Clear, NEW p \in Schedulers, proc[p].at = "preflight",
                      stored.entries[proc[p].entry].state \in Claimed
               PROVE  attempts[proc[p].credit] = "whole"
      BY DEF AttemptKept
  <2>1. Attempts(p)
      BY DEF Clear, OwnClear, Procs
  <2> QED
      BY <2>1 DEF Attempts
<1> QED
    BY <1>1, NextLeaves DEF LeftWell

\* A claimed entry is left only with an outcome, whatever schedulers, users, edits and
\* crashes come between its claim and its answer, as long as the service always has
\* something to reset (otherwise see ResetsSkipped.cfg).
THEOREM ClaimsKept == Spec /\ NeverNothing => ClaimKept
<1> QED
    BY NextKeepsClaims, ResetInvariant, JournalInvariant, PTL DEF Spec, ClaimKept
=============================================================================
