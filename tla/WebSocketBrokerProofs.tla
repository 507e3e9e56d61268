------------------------ MODULE WebSocketBrokerProofs ------------------------
(***************************************************************************)
(* Proofs about WebSocketBroker for every set of brokers and accounts and  *)
(* every environment.  No property is inductive by itself.  That a frame   *)
(* runs once needs where a broker stands to say how many sends are open;   *)
(* that a sent request is settled needs what the lease is at every place   *)
(* of the broker that has it, and that only one broker has it, for which   *)
(* the lane's planning gate must find the reference of the one before.     *)
(* The same invariant shows that every step is one LaneRequest allows.     *)
(***************************************************************************)
EXTENDS WebSocketBroker, TLAPS

\* The places at which the lane's request is this broker's.
Bound == {"account", "connect", "dialing", "refused", "upgraded", "reading", "relaying",
          "answered"}

\* The types of TypeOK, by name.
Socket ==
    [at : Locations, gone : BOOLEAN, told : BOOLEAN,
     kind : {"none", "warm", "create", "continue", "adopt"},
     plan : Plans \cup {NoPlan}, idx : 0..2, left : 0..2, tries : 0..3,
     considered : BOOLEAN, stale : BOOLEAN, again : BOOLEAN, retries : -1..1, open : 0..2,
     refusal : Refusals \cup {"none"}, conn : Accounts \cup {None},
     warm : LiveReservations \cup {"none"}]
Lease ==
    [owner : Brokers \cup {None}, refs : SUBSET Refs, ever : BOOLEAN,
     attempt : {"none", "prepared", "dispatched", "streaming", "completed", "failed",
                "unavailable", "abandoned", "indeterminate"},
     fate : {"unsent", "sent", "refused", "ended"}]
Reservation ==
    [state : LiveReservations \cup {"none", "cancelled", "adopted"},
     owner : Brokers \cup {None}]

\* A socket by itself: its account is one of the plan, and a send is open
\* exactly while the broker reads or relays the answer.
SocketOK(s) ==
    /\ s \in Socket
    /\ s.idx <= Len(s.plan.accounts)
    /\ s.at \in Bound \cup {"warmed", "warmReading"} => s.idx >= 1
    /\ s.open = IF s.at \in {"reading", "relaying"} THEN 1 ELSE 0

\* What the lane's request is while its broker stands at a place of Bound.
Held(at, l) ==
    /\ at \in {"account", "connect"} =>
         l.attempt = "prepared" /\ l.refs = {"routing"} /\ l.fate = "unsent"
    /\ at \in {"dialing", "refused"} =>
         l.attempt = "dispatched" /\ l.refs = {"routing"} /\ l.fate = "unsent"
    /\ at = "upgraded" =>
         l.attempt \in {"dispatched", "streaming"} /\ l.refs # {} /\ l.fate = "unsent"
    /\ at = "reading" =>
         l.attempt \in {"dispatched", "streaming"} /\ l.refs # {} /\ l.fate = "sent"
    /\ at = "relaying" =>
         l.attempt \in {"completed", "failed"} /\ l.refs = {"observer"} /\ l.fate = "ended"
    /\ at = "answered" =>
         l.attempt = "dispatched" /\ l.refs # {} /\ l.fate = "refused"

\* A request that is over.
Settled(l) ==
    /\ l.refs = {} /\ l.attempt \in Terminal
    /\ l.fate = "sent" => l.attempt = "indeterminate"
    /\ l.attempt = "completed" => l.fate = "ended"

IndInv ==
    /\ TypeOK
    /\ \A b \in Brokers : SocketOK(sock[b])
    /\ \A b \in Brokers : sock[b].at \in Bound => lease.owner = b /\ Held(sock[b].at, lease)
    /\ lease.fate # "unsent" =>
         lease.owner \in Brokers /\ (sock[lease.owner].at \notin Bound => Settled(lease))
    /\ WarmIsHeld

-----------------------------------------------------------------------------
(* A step of one broker, as the invariant sees it.                         *)

\* The lane's reservation stays, and the broker keeps or forgets what it has
\* of it; or the step changes it, which only the broker that holds it may, or
\* one that finds it free.
WarmMoves(b, t) ==
    \/ resv' = resv /\ t.warm \in {sock[b].warm, "none"}
    \/ /\ sock[b].warm # "none" \/ resv.state \notin LiveReservations
       /\ resv' \in Reservation
       /\ t.warm # "none" => resv' = [state |-> t.warm, owner |-> b]

\* The request is not the broker's and stays; or it is, or the lane is free.
LeaseMoves(b, t) ==
    \/ lease' = lease /\ sock[b].at \notin Bound /\ t.at \notin Bound
    \/ /\ sock[b].at \in Bound \/ LaneFree
       /\ lease' \in Lease /\ lease'.owner = b
       /\ t.at \in Bound => Held(t.at, lease')
       /\ t.at \notin Bound /\ lease'.fate # "unsent" => Settled(lease')

Moves(b, t) ==
    /\ Put(b, t) /\ SocketOK(t)
    /\ WarmMoves(b, t) /\ LeaseMoves(b, t)
    /\ gate' = gate /\ env' = env /\ frames' \in Nat

\* What the invariant says of types, in the names of this module.
LEMMA Types ==
    ASSUME IndInv
    PROVE  /\ sock \in [Brokers -> Socket] /\ lease \in Lease /\ resv \in Reservation
           /\ gate \in [paused : BOOLEAN, pauses : Nat] /\ env \in Environments
           /\ frames \in Nat
           /\ \A b \in Brokers : SocketOK(sock[b]) /\ sock[b] \in Socket
BY DEF IndInv, TypeOK, Socket, Lease, Reservation, SocketOK

\* A step of one broker preserves the invariant.
LEMMA MovesInv ==
    ASSUME IndInv, NEW b \in Brokers, NEW t, Moves(b, t)
    PROVE  IndInv'
<1> USE Types
<1>1. sock' = [sock EXCEPT ![b] = t] /\ t \in Socket
    BY DEF Moves, Put, SocketOK
<1>2. /\ sock' \in [Brokers -> Socket] /\ sock'[b] = t
      /\ \A c \in Brokers \ {b} : sock'[c] = sock[c]
    BY <1>1
<1>3. \A c \in Brokers : SocketOK(sock'[c])
    BY <1>2 DEF Moves
<1>4. lease' \in Lease /\ resv' \in Reservation
    BY DEF Moves, WarmMoves, LeaseMoves
<1>5. TypeOK'
    BY <1>2, <1>3, <1>4 DEF Moves, TypeOK, SocketOK, Socket, Lease, Reservation
<1>6. \A c \in Brokers : sock'[c].at \in Bound => lease'.owner = c /\ Held(sock'[c].at, lease')
    <2> SUFFICES ASSUME NEW c \in Brokers, sock'[c].at \in Bound
                 PROVE  lease'.owner = c /\ Held(sock'[c].at, lease')
        OBVIOUS
    <2>1. CASE c = b
        BY <1>2, <2>1 DEF Moves, LeaseMoves
    <2>2. CASE c # b
        <3>1. sock[c].at \in Bound /\ lease.owner = c /\ Held(sock[c].at, lease)
            BY <1>2, <2>2 DEF IndInv
        <3>2. lease.refs # {} /\ sock[b].at \notin Bound
            BY <3>1, <2>2 DEF Held, Bound, IndInv
        <3>3. lease' = lease
            BY <3>2 DEF Moves, LeaseMoves, LaneFree
        <3> QED
            BY <3>1, <3>3, <1>2, <2>2
    <2> QED
        BY <2>1, <2>2
<1>7. lease'.fate # "unsent" =>
        lease'.owner \in Brokers /\ (sock'[lease'.owner].at \notin Bound => Settled(lease'))
    <2>1. CASE lease' = lease /\ sock[b].at \notin Bound /\ t.at \notin Bound
        BY <1>2, <2>1 DEF IndInv
    <2>2. CASE ~(lease' = lease /\ sock[b].at \notin Bound /\ t.at \notin Bound)
        BY <1>2, <2>2 DEF Moves, LeaseMoves
    <2> QED
        BY <2>1, <2>2
<1>8. WarmIsHeld'
    <2> SUFFICES ASSUME NEW c \in Brokers, sock'[c].warm # "none"
                 PROVE  resv' = [state |-> sock'[c].warm, owner |-> c]
        BY DEF WarmIsHeld
    <2>1. CASE c = b
        BY <1>2, <2>1 DEF Moves, WarmMoves, IndInv, WarmIsHeld
    <2>2. CASE c # b
        <3>1. resv = [state |-> sock[c].warm, owner |-> c] /\ sock[c].warm # "none"
            BY <1>2, <2>2 DEF IndInv, WarmIsHeld
        <3>2. sock[b].warm = "none" /\ resv.state \in LiveReservations
            BY <3>1, <2>2 DEF IndInv, WarmIsHeld, Socket
        <3> QED
            BY <3>1, <3>2, <1>2, <2>2 DEF Moves, WarmMoves
    <2> QED
        BY <2>1, <2>2
<1> QED
    BY <1>3, <1>5, <1>6, <1>7, <1>8 DEF IndInv

-----------------------------------------------------------------------------
(* Plans and sockets.                                                      *)

\* A plan names one or two accounts.
LEMMA PlanAccounts ==
    ASSUME NEW p \in Plans
    PROVE  /\ Len(p.accounts) \in 1..2
           /\ \A i \in 1..Len(p.accounts) : p.accounts[i] \in Accounts
           /\ p.creds \in 0..2 /\ p.refresh \in BOOLEAN /\ p.reset \in 0..1
<1>1. PICK n \in 1..2 : p.accounts \in [1..n -> Accounts]
    BY DEF Plans
<1>2. p.accounts \in Seq(Accounts) /\ Len(p.accounts) = n
    BY <1>1
<1> QED
    BY <1>1, <1>2 DEF Plans

\* Without a plan there is no account to come to.
LEMMA NoPlanEmpty ==
    Len(NoPlan.accounts) = 0 /\ NoPlan.creds = 0 /\ NoPlan.reset = 0 /\ NoPlan.refresh = FALSE
BY DEF NoPlan

\* Every place by name, where the set of them need not be expanded.
LEMMA Places ==
    /\ "new" \in Locations /\ "idle" \in Locations /\ "start" \in Locations
    /\ "planning" \in Locations /\ "account" \in Locations /\ "connect" \in Locations
    /\ "dialing" \in Locations /\ "refused" \in Locations /\ "upgraded" \in Locations
    /\ "reading" \in Locations /\ "relaying" \in Locations /\ "answered" \in Locations
    /\ "warmed" \in Locations /\ "warmReading" \in Locations /\ "left" \in Locations
BY DEF Locations

\* A socket stays one when a field is given a value of its type.
LEMMA Fields ==
    ASSUME NEW s \in Socket
    PROVE  /\ \A v \in Locations : [s EXCEPT !.at = v] \in Socket
           /\ \A v \in BOOLEAN : [s EXCEPT !.gone = v] \in Socket
           /\ \A v \in BOOLEAN : [s EXCEPT !.told = v] \in Socket
           /\ \A v \in {"none", "warm", "create", "continue", "adopt"} :
                [s EXCEPT !.kind = v] \in Socket
           /\ \A v \in Plans : [s EXCEPT !.plan = v] \in Socket
           /\ \A v \in 0..2 : [s EXCEPT !.idx = v] \in Socket
           /\ \A v \in 0..2 : [s EXCEPT !.left = v] \in Socket
           /\ \A v \in 0..3 : [s EXCEPT !.tries = v] \in Socket
           /\ \A v \in BOOLEAN : [s EXCEPT !.considered = v] \in Socket
           /\ \A v \in BOOLEAN : [s EXCEPT !.stale = v] \in Socket
           /\ \A v \in BOOLEAN : [s EXCEPT !.again = v] \in Socket
           /\ \A v \in -1..1 : [s EXCEPT !.retries = v] \in Socket
           /\ \A v \in 0..2 : [s EXCEPT !.open = v] \in Socket
           /\ \A v \in Refusals \cup {"none"} : [s EXCEPT !.refusal = v] \in Socket
           /\ \A v \in Accounts \cup {None} : [s EXCEPT !.conn = v] \in Socket
           /\ \A v \in LiveReservations \cup {"none"} : [s EXCEPT !.warm = v] \in Socket
<1>1. \A v \in Locations : [s EXCEPT !.at = v] \in Socket
    BY Zenon DEF Socket
<1>2. \A v \in BOOLEAN : [s EXCEPT !.gone = v] \in Socket
    BY Zenon DEF Socket
<1>3. \A v \in BOOLEAN : [s EXCEPT !.told = v] \in Socket
    BY Zenon DEF Socket
<1>4. \A v \in {"none", "warm", "create", "continue", "adopt"} : [s EXCEPT !.kind = v] \in Socket
    BY Zenon DEF Socket
<1>5. \A v \in Plans : [s EXCEPT !.plan = v] \in Socket
    BY Zenon DEF Socket
<1>6. \A v \in 0..2 : [s EXCEPT !.idx = v] \in Socket
    BY Zenon DEF Socket
<1>7. \A v \in 0..2 : [s EXCEPT !.left = v] \in Socket
    BY Zenon DEF Socket
<1>8. \A v \in 0..3 : [s EXCEPT !.tries = v] \in Socket
    BY Zenon DEF Socket
<1>9. \A v \in BOOLEAN : [s EXCEPT !.considered = v] \in Socket
    BY Zenon DEF Socket
<1>10. \A v \in BOOLEAN : [s EXCEPT !.stale = v] \in Socket
    BY Zenon DEF Socket
<1>11. \A v \in BOOLEAN : [s EXCEPT !.again = v] \in Socket
    BY Zenon DEF Socket
<1>12. \A v \in -1..1 : [s EXCEPT !.retries = v] \in Socket
    BY Zenon DEF Socket
<1>13. \A v \in 0..2 : [s EXCEPT !.open = v] \in Socket
    BY Zenon DEF Socket
<1>14. \A v \in Refusals \cup {"none"} : [s EXCEPT !.refusal = v] \in Socket
    BY Zenon DEF Socket
<1>15. \A v \in Accounts \cup {None} : [s EXCEPT !.conn = v] \in Socket
    BY Zenon DEF Socket
<1>16. \A v \in LiveReservations \cup {"none"} : [s EXCEPT !.warm = v] \in Socket
    BY Zenon DEF Socket
<1> QED
    BY <1>1, <1>2, <1>3, <1>4, <1>5, <1>6, <1>7, <1>8,
       <1>9, <1>10, <1>11, <1>12, <1>13, <1>14, <1>15, <1>16

\* A socket that no broker serves yet.
LEMMA FreshOK ==
    /\ Fresh \in Socket /\ Fresh.idx = 0 /\ Fresh.open = 0 /\ Fresh.warm = "none"
    /\ Fresh.plan = NoPlan /\ Fresh.at = "new"
BY Places DEF Fresh, Socket

\* The socket that a frame leaves behind, whichever way it ends.
LEMMA DoneOK ==
    ASSUME NEW s \in Socket
    PROVE  SocketOK(Done(s)) /\ Done(s).at = "idle" /\ Done(s).warm = s.warm
<1>1. Done(s) \in Socket
    BY ZenonT(30), FreshOK, Places DEF Socket, Done
<1>2. /\ Done(s).at = "idle" /\ Done(s).warm = s.warm /\ Done(s).idx = 0
      /\ Done(s).open = 0 /\ Done(s).plan = NoPlan
    BY FreshOK DEF Socket, Done
<1> QED
    BY <1>1, <1>2, NoPlanEmpty DEF SocketOK, Bound

\* A socket whose broker has returned.
LEMMA LeftOK == SocketOK(Left) /\ Left.at = "left" /\ Left.warm = "none"
<1>1. /\ Left \in Socket /\ Left.at = "left" /\ Left.warm = "none" /\ Left.idx = 0
      /\ Left.open = 0 /\ Left.plan = NoPlan
    BY FreshOK, Places DEF Socket, Left
<1> QED
    BY <1>1, NoPlanEmpty DEF SocketOK, Bound

\* Closing the upstream leaves the frame where it is.
LEMMA ClosedOK ==
    ASSUME NEW s, SocketOK(s)
    PROVE  /\ SocketOK(Closed(s)) /\ Closed(s) \in Socket
           /\ Closed(s).at = s.at /\ Closed(s).warm = "none"
           /\ Closed(s).plan = s.plan /\ Closed(s).idx = s.idx
           /\ Closed(s).left = s.left /\ Closed(s).tries = s.tries
           /\ Closed(s).open = s.open
BY DEF SocketOK, Socket, Closed

\* The broker forgets its prewarm.
LEMMA ForgetOK ==
    ASSUME NEW s \in Socket
    PROVE  LET f == [s EXCEPT !.warm = "none"] IN
           f \in Socket /\ f.warm = "none" /\ f.open = s.open /\ f.retries = s.retries
<1>1. [s EXCEPT !.warm = "none"] \in Socket
    BY Fields
<1> QED
    BY <1>1 DEF Socket

\* The next account of a plan that has one.
LEMMA RotatedOK ==
    ASSUME NEW s, SocketOK(s), s.idx < Len(s.plan.accounts),
           s.at \notin {"reading", "relaying"}
    PROVE  SocketOK(Rotated(s)) /\ Rotated(s).at = "account" /\ Rotated(s).warm = s.warm
<1>1. s \in Socket /\ s.idx \in 0..2 /\ s.plan \in Plans \cup {NoPlan} /\ s.open = 0
    BY DEF SocketOK, Socket
<1>2. Len(s.plan.accounts) \in 0..2 /\ s.idx + 1 \in 0..2
    BY <1>1, PlanAccounts, NoPlanEmpty
<1>3. Rotated(s) \in Socket
    <2>1. 1 \in 0..3 /\ FALSE \in BOOLEAN
        OBVIOUS
    <2> QED
        BY <1>1, <1>2, <2>1, Places, Fields, Zenon DEF Rotated
<1>4. /\ Rotated(s).at = "account" /\ Rotated(s).warm = s.warm
      /\ Rotated(s).idx = s.idx + 1 /\ Rotated(s).plan = s.plan /\ Rotated(s).open = s.open
    BY <1>1 DEF Socket, Rotated
<1> QED
    BY <1>1, <1>2, <1>3, <1>4 DEF SocketOK, Bound

\* A frame that starts over with a new plan has none of its sends open.
LEMMA ReplannedOK ==
    ASSUME NEW s, SocketOK(s), s.retries > 0, s.at \notin {"reading", "relaying"}
    PROVE  SocketOK(Replanned(s)) /\ Replanned(s).at = "start" /\ Replanned(s).warm = "none"
<1> DEFINE d == Done(Closed(s))
<1>1. s \in Socket /\ s.retries \in -1..1 /\ s.open = 0
    BY DEF SocketOK, Socket
<1>2. d \in Socket /\ d.at = "idle" /\ d.warm = "none" /\ d.idx <= Len(d.plan.accounts)
    BY ClosedOK, DoneOK DEF SocketOK
<1>3. s.retries - 1 \in -1..1
    BY <1>1
<1> HIDE DEF d
<1> DEFINE r == [d EXCEPT !.at = "start", !.kind = s.kind, !.open = s.open,
                          !.retries = s.retries - 1]
<1>4. r \in Socket
    <2>1. s.kind \in {"none", "warm", "create", "continue", "adopt"} /\ s.open \in 0..2
        BY <1>1 DEF Socket
    <2> QED
        BY <1>2, <1>3, <2>1, Places, Fields
<1>5. r.at = "start" /\ r.warm = "none" /\ r.idx = d.idx /\ r.plan = d.plan /\ r.open = 0
    BY <1>1, <1>2 DEF Socket
<1>6. Replanned(s) = r
    BY DEF Replanned, d
<1> HIDE DEF r
<1> QED
    BY <1>2, <1>4, <1>5, <1>6 DEF SocketOK, Bound

\* connect is called for an account of the plan.
LEMMA ConnectingOK ==
    ASSUME NEW s, SocketOK(s), s.at \in Bound, s.open = 0,
           NEW left \in 0..2, NEW considered \in BOOLEAN
    PROVE  LET c == Connecting(s, left, considered)
           IN  SocketOK(c) /\ c.at = "connect" /\ c.warm = s.warm /\ c.tries = s.tries
<1> DEFINE c == Connecting(s, left, considered)
<1>1. s \in Socket
    BY DEF SocketOK
<1>2. c \in Socket
    BY <1>1, Places, Fields DEF Connecting
<1>3. /\ c.at = "connect" /\ c.warm = s.warm /\ c.tries = s.tries
      /\ c.idx = s.idx /\ c.plan = s.plan /\ c.open = s.open
    BY <1>1 DEF Socket, Connecting
<1> HIDE DEF c
<1>4. SocketOK(c)
    BY <1>2, <1>3 DEF SocketOK, Bound
<1> QED
    BY <1>3, <1>4 DEF c

-----------------------------------------------------------------------------
(* How a step changes the reservation and the request.                     *)

\* A broker cancels the reservation it holds and no other.
LEMMA CancelMoves ==
    ASSUME IndInv, NEW b \in Brokers, NEW t, CancelActive(b), t.warm = "none"
    PROVE  WarmMoves(b, t)
<1>1. Cancelled \in Reservation
    BY Types DEF Cancelled, Reservation
<1> QED
    BY <1>1 DEF CancelActive, WarmMoves

\* Serve returns.
LEMMA LeavePuts ==
    ASSUME IndInv, NEW b \in Brokers, Leave(b)
    PROVE  Put(b, Left) /\ SocketOK(Left) /\ Left.at \notin Bound /\ WarmMoves(b, Left)
BY CancelMoves, LeftOK DEF Leave, Bound

\* A frame is answered.
LEMMA ReplyPuts ==
    ASSUME NEW b \in Brokers, NEW s \in Socket, Reply(b, s)
    PROVE  \E t : /\ Put(b, t) /\ SocketOK(t) /\ t.at \notin Bound
                  /\ t.warm \in {s.warm, "none"}
BY DoneOK, LeftOK DEF Reply, Bound

\* What a commit leaves in the lease.
LEMMA CommitLease ==
    ASSUME IndInv, NEW b \in Brokers, NEW attempt, NEW refs, NEW fate,
           Commit(b, attempt, refs, fate),
           attempt \in Terminal \cup {"prepared", "dispatched", "streaming"},
           refs \subseteq Refs, fate \in {"unsent", "sent", "refused", "ended"}
    PROVE  /\ lease' \in Lease /\ lease'.owner = b /\ lease'.attempt = attempt
           /\ lease'.refs = refs /\ lease'.fate = fate
BY Types DEF Commit, Lease, Terminal

\* The next attempt of the broker's request.
LEMMA PrepareMoves ==
    ASSUME IndInv, NEW b \in Brokers, NEW t, sock[b].at \in Bound, Prepare(b),
           t.at \in {"account", "connect"}
    PROVE  LeaseMoves(b, t)
<1>1. /\ lease' \in Lease /\ lease'.owner = b /\ lease'.attempt = "prepared"
      /\ lease'.refs = {"routing"} /\ lease'.fate = "unsent"
    BY CommitLease DEF Prepare, Refs
<1> QED
    BY <1>1 DEF LeaseMoves, Held, Bound

\* The request ends with the broker's place in the frame.
LEMMA ReleaseMoves ==
    ASSUME IndInv, NEW b \in Brokers, NEW t, sock[b].at \in Bound, t.at \notin Bound,
           NEW attempt \in Terminal, NEW fate \in {"unsent", "sent", "refused", "ended"},
           Commit(b, attempt, {}, fate),
           fate = "sent" => attempt = "indeterminate",
           attempt = "completed" => fate = "ended"
    PROVE  LeaseMoves(b, t)
<1>1. /\ lease' \in Lease /\ lease'.owner = b /\ lease'.attempt = attempt
      /\ lease'.refs = {} /\ lease'.fate = fate
    BY CommitLease
<1> QED
    BY <1>1 DEF LeaseMoves, Settled

\* The request as the broker that has it finds it.
LEMMA HeldBy ==
    ASSUME IndInv, NEW b \in Brokers, sock[b].at \in Bound
    PROVE  /\ lease.owner = b /\ Held(sock[b].at, lease)
           /\ lease.fate \in {"unsent", "sent", "refused", "ended"}
BY Types DEF IndInv, Lease

\* A request that was dispatched is settled by cleanupAfterBrokerExit.
LEMMA CleanupMoves ==
    ASSUME IndInv, NEW b \in Brokers, NEW t, t.at \notin Bound, Cleanup(b),
           sock[b].at \in Bound \ {"account", "connect"}
    PROVE  LeaseMoves(b, t)
<1> DEFINE a == IF lease.attempt \in {"dispatched", "streaming"} THEN "indeterminate"
                ELSE lease.attempt
<1>1. /\ a \in Terminal
      /\ lease.fate = "sent" => a = "indeterminate"
      /\ a = "completed" => lease.fate = "ended"
    BY HeldBy DEF Held, Bound, Terminal
<1>2. Commit(b, a, {}, lease.fate)
    BY DEF Cleanup
<1> QED
    BY <1>1, <1>2, HeldBy, ReleaseMoves

\* A prepared attempt is abandoned, or kept when the handle is stale.
LEMMA AbandonMoves ==
    ASSUME IndInv, NEW b \in Brokers, NEW t, t.at \notin Bound, Abandon(b),
           sock[b].at \in {"account", "connect"}
    PROVE  LeaseMoves(b, t)
<1>1. lease.owner = b /\ lease.fate = "unsent" /\ sock[b].at \in Bound
    BY HeldBy DEF Held, Bound
<1>2. CASE sock[b].stale
    BY <1>1, <1>2, Types DEF Abandon, LeaseMoves
<1>3. CASE ~sock[b].stale
    BY <1>1, <1>3, ReleaseMoves DEF Abandon, Terminal
<1> QED
    BY <1>2, <1>3

\* The request stays as it is.
LEMMA KeepMoves ==
    ASSUME IndInv, NEW b \in Brokers, NEW t, lease' = lease,
           t.at \in Bound => sock[b].at \in Bound /\ Held(t.at, lease),
           t.at \notin Bound => sock[b].at \notin Bound \/ lease.fate = "unsent"
    PROVE  LeaseMoves(b, t)
BY HeldBy, Types DEF LeaseMoves

\* The fields of a broker's socket.
LEMMA Given ==
    ASSUME IndInv, NEW b \in Brokers
    PROVE  LET s == sock[b] IN
           /\ SocketOK(s) /\ s \in Socket /\ s.at \in Locations
           /\ s.kind \in {"none", "warm", "create", "continue", "adopt"}
           /\ s.plan \in Plans \cup {NoPlan}
           /\ s.idx \in 0..2 /\ s.left \in 0..2 /\ s.tries \in 0..3 /\ s.retries \in -1..1
           /\ s.open \in 0..2 /\ s.stale \in BOOLEAN
           /\ s.warm \in LiveReservations \cup {"none"}
BY Types DEF Socket

\* The account a broker has come to is one of the plan's.
LEMMA AccountOfPlan ==
    ASSUME IndInv, NEW b \in Brokers, sock[b].at \in Bound \cup {"warmed", "warmReading"}
    PROVE  /\ sock[b].plan.accounts[sock[b].idx] \in Accounts
           /\ Len(sock[b].plan.accounts) \in 1..2 /\ sock[b].plan \in Plans
<1>1. /\ sock[b].idx \in 0..2 /\ sock[b].idx >= 1
      /\ sock[b].idx <= Len(sock[b].plan.accounts)
    BY Given DEF SocketOK
<1>2. sock[b].plan \in Plans
    BY <1>1, Given, NoPlanEmpty
<1> QED
    BY <1>1, <1>2, PlanAccounts

\* The plans of the environment are plans.
LEMMA EnvPlans ==
    ASSUME IndInv
    PROVE  /\ env.plans \subseteq Plans
           /\ env.kinds \subseteq {"warm", "create", "continue", "adopt"}
BY Types, EnvironmentAssumption

-----------------------------------------------------------------------------
(* One lemma per action: sessions, frames and planning.                    *)

\* A session begins, or is refused at the gate.
LEMMA ServeMoves ==
    ASSUME IndInv, NEW b \in Brokers, Serve(b)
    PROVE  \E t : Moves(b, t)
<1> DEFINE t == [Fresh EXCEPT !.at = IF gate.paused THEN "left" ELSE "idle"]
<1>1. t \in Socket
    BY FreshOK, Fields, Places
<1>2. /\ t.at \in {"left", "idle"} /\ t.warm = "none" /\ t.idx = 0 /\ t.open = 0
      /\ t.plan = NoPlan
    BY FreshOK DEF Socket
<1>3. Put(b, t) /\ sock[b].at \notin Bound
    BY DEF Serve, At, Bound
<1> HIDE DEF t
<1>4. SocketOK(t) /\ t.at \notin Bound
    BY <1>1, <1>2, NoPlanEmpty DEF SocketOK, Bound
<1>5. WarmMoves(b, t) /\ LeaseMoves(b, t)
    BY <1>2, <1>3, <1>4 DEF Serve, WarmMoves, LeaseMoves
<1> QED
    BY <1>3, <1>4, <1>5, Types DEF Moves, Serve

\* The client may leave at any place; the request stays as it is.
LEMMA ClientGoesMoves ==
    ASSUME IndInv, NEW b \in Brokers, ClientGoes(b)
    PROVE  \E t : Moves(b, t)
<1> DEFINE t == [sock[b] EXCEPT !.gone = TRUE]
<1>1. t \in Socket
    BY Given, Fields
<1>2. /\ t.at = sock[b].at /\ t.warm = sock[b].warm /\ t.idx = sock[b].idx
      /\ t.open = sock[b].open /\ t.plan = sock[b].plan
    BY Given DEF Socket
<1>3. Put(b, t)
    BY DEF ClientGoes
<1> HIDE DEF t
<1>4. SocketOK(t)
    BY <1>1, <1>2, Given DEF SocketOK
<1>5. WarmMoves(b, t) /\ LeaseMoves(b, t)
    BY <1>2, HeldBy, KeepMoves DEF ClientGoes, WarmMoves
<1> QED
    BY <1>3, <1>4, <1>5, Types DEF Moves, ClientGoes

\* An idle session ends, and cancels the prewarm it holds.
LEMMA SessionEndsMoves ==
    ASSUME IndInv, NEW b \in Brokers, SessionEnds(b)
    PROVE  \E t : Moves(b, t)
<1>1. LeaseMoves(b, Left)
    BY LeftOK DEF SessionEnds, LeaseMoves, At, Bound
<1> QED
    BY <1>1, LeavePuts, Types DEF SessionEnds, Moves

\* A frame is taken, or the session ends at the paused gate.
LEMMA AcceptMoves ==
    ASSUME IndInv, NEW b \in Brokers, NEW kind \in env.kinds, Accept(b, kind)
    PROVE  \E t : Moves(b, t)
<1>0. frames' \in Nat /\ sock[b].at \notin Bound
    BY Types DEF Accept, At, Bound
<1>1. CASE gate.paused
    <2>1. LeaseMoves(b, Left)
        BY <1>0, LeftOK DEF Accept, LeaseMoves, Bound
    <2> QED
        BY <1>0, <1>1, <2>1, LeavePuts DEF Accept, Moves
<1>2. CASE ~gate.paused
    <2> DEFINE t == [sock[b] EXCEPT !.at = "start", !.kind = kind, !.retries = -1]
    <2>1. t \in Socket
        <3>1. kind \in {"none", "warm", "create", "continue", "adopt"} /\ -1 \in -1..1
            BY EnvPlans
        <3> QED
            BY <3>1, Given, Fields, Places, Zenon
    <2>2. /\ t.at = "start" /\ t.warm = sock[b].warm /\ t.idx = sock[b].idx
          /\ t.open = sock[b].open /\ t.plan = sock[b].plan
        BY Given DEF Socket
    <2>3. Put(b, t)
        BY <1>2 DEF Accept
    <2> HIDE DEF t
    <2>4. SocketOK(t) /\ t.at \notin Bound
        BY <1>0, <2>1, <2>2, Given DEF SocketOK, Bound
    <2>5. WarmMoves(b, t) /\ LeaseMoves(b, t)
        BY <1>0, <1>2, <2>2, <2>4 DEF Accept, WarmMoves, LeaseMoves
    <2> QED
        BY <1>0, <2>3, <2>4, <2>5 DEF Moves, Accept
<1> QED
    BY <1>1, <1>2

\* The frame that starts over keeps its socket, without the upstream.
LEMMA CloseMoves ==
    ASSUME IndInv, NEW b \in Brokers, Put(b, Closed(sock[b])),
           UNCHANGED <<lease, resv, gate, env, frames>>
    PROVE  \E t : Moves(b, t)
<1> DEFINE t == Closed(sock[b])
<1>1. SocketOK(t) /\ t.at = sock[b].at /\ t.warm = "none"
    BY Given, ClosedOK
<1> HIDE DEF t
<1>2. WarmMoves(b, t) /\ LeaseMoves(b, t)
    BY <1>1, HeldBy, KeepMoves DEF WarmMoves
<1> QED
    BY <1>1, <1>2, Types DEF Moves, t

\* A frame without a request of its own is answered.
LEMMA ReplyOffLane ==
    ASSUME IndInv, NEW b \in Brokers, sock[b].at \notin Bound, Reply(b, Closed(sock[b])),
           resv' = resv \/ CancelActive(b), UNCHANGED <<lease, gate, env, frames>>
    PROVE  \E t : Moves(b, t)
<1>1. Closed(sock[b]) \in Socket /\ Closed(sock[b]).warm = "none"
    BY Given, ClosedOK
<1>2. PICK t : Put(b, t) /\ SocketOK(t) /\ t.at \notin Bound /\ t.warm = "none"
    BY <1>1, ReplyPuts
<1>3. WarmMoves(b, t)
    BY <1>2, CancelMoves DEF WarmMoves
<1>4. LeaseMoves(b, t)
    BY <1>2 DEF LeaseMoves
<1> QED
    BY <1>2, <1>3, <1>4, Types DEF Moves

\* The idle upstream closed before the frame started.
LEMMA IdleClosedMoves ==
    ASSUME IndInv, NEW b \in Brokers, IdleClosed(b)
    PROVE  \E t : Moves(b, t)
<1>1. sock[b].at \notin Bound
    BY DEF IdleClosed, At, Bound
<1>2. Reply(b, Closed(sock[b])) \/ Put(b, Closed(sock[b]))
    BY DEF IdleClosed
<1> QED
    BY <1>1, <1>2, ReplyOffLane, CloseMoves DEF IdleClosed

\* A continued turn is sent back to the client.
LEMMA RedistributeMoves ==
    ASSUME IndInv, NEW b \in Brokers, Redistribute(b)
    PROVE  \E t : Moves(b, t)
BY ReplyOffLane DEF Redistribute, At, Bound

\* A step that changes nothing of the socket that the invariant looks at, but
\* the place.
LEMMA StepTo ==
    ASSUME IndInv, NEW b \in Brokers, NEW t \in Socket, Put(b, t),
           t.idx = sock[b].idx, t.plan = sock[b].plan, t.warm \in {sock[b].warm, "none"},
           t.open = IF t.at \in {"reading", "relaying"} THEN 1 ELSE 0,
           t.at \in Bound => sock[b].at \in Bound,
           t.at \in {"warmed", "warmReading"} => sock[b].at \in {"warmed", "warmReading"},
           LeaseMoves(b, t), UNCHANGED <<resv, gate, env, frames>>
    PROVE  \E u : Moves(b, u)
<1>1. SocketOK(t)
    BY Given DEF SocketOK
<1>2. WarmMoves(b, t)
    BY DEF WarmMoves
<1> QED
    BY <1>1, <1>2, Types DEF Moves

\* Planning begins, without a request yet.
LEMMA StartRequestMoves ==
    ASSUME IndInv, NEW b \in Brokers, StartRequest(b)
    PROVE  \E t : Moves(b, t)
<1> DEFINE t == [sock[b] EXCEPT !.at = "planning"]
<1>1. t \in Socket
    BY Given, Fields, Places
<1>2. /\ t.at = "planning" /\ t.warm = sock[b].warm /\ t.idx = sock[b].idx
      /\ t.open = sock[b].open /\ t.plan = sock[b].plan
    BY Given DEF Socket
<1>3. Put(b, t) /\ sock[b].at = "start"
    BY DEF StartRequest, At
<1> HIDE DEF t
<1>4. LeaseMoves(b, t)
    BY <1>2, <1>3 DEF StartRequest, LeaseMoves, Bound
<1>5. t.open = 0
    BY <1>2, <1>3, Given DEF SocketOK
<1> QED
    BY <1>1, <1>2, <1>3, <1>4, <1>5, StepTo DEF StartRequest, Bound

\* The lane is free and the broker begins a request on it.
LEMMA BegunMoves ==
    ASSUME IndInv, NEW b \in Brokers, NEW p \in env.plans, At(b, "planning"), LaneFree,
           Begun(b, p, [sock[b] EXCEPT !.warm = "none"]),
           resv' \in Reservation, sock[b].warm # "none" \/ resv' = resv,
           UNCHANGED <<gate, env, frames>>
    PROVE  \E t : Moves(b, t)
<1> DEFINE s == [sock[b] EXCEPT !.warm = "none"]
<1>1. s \in Socket /\ s.warm = "none" /\ s.open = sock[b].open /\ s.retries \in -1..1
    BY Given, ForgetOK
<1>2. p \in Plans /\ Len(p.accounts) \in 1..2 /\ p.reset \in 0..1
    BY EnvPlans, PlanAccounts
<1>3. s.open = 0
    BY <1>1, Given DEF SocketOK, At
<1>4. Begun(b, p, s)
    OBVIOUS
<1> HIDE DEF s
<1> DEFINE r == IF s.retries < 0 THEN p.reset ELSE s.retries
           t == [s EXCEPT !.at = "account", !.plan = p, !.idx = 1, !.tries = 1,
                          !.retries = r]
<1>5. r \in -1..1 /\ 1 \in 0..2 /\ 1 \in 0..3
    BY <1>1, <1>2
<1>6. Put(b, t)
    BY <1>4 DEF Begun
<1> HIDE DEF r
<1>7. t \in Socket
    BY <1>1, <1>2, <1>5, Fields, Places, Zenon
<1>8. t.at = "account" /\ t.plan = p /\ t.idx = 1 /\ t.open = 0 /\ t.warm = "none"
    BY <1>1, <1>3 DEF Socket
<1> HIDE DEF t
<1>9. SocketOK(t)
    <2>1. Len(t.plan.accounts) = Len(p.accounts)
        BY <1>8, Zenon
    <2>2. PICK n \in 1..2 : Len(t.plan.accounts) = n
        BY <1>2, <2>1, Zenon
    <2>3. t.idx = 1 /\ t.open = 0 /\ t.at = "account"
        BY <1>8
    <2>4. t.idx <= Len(t.plan.accounts)
        BY <2>2, <2>3
    <2> QED
        BY <2>3, <2>4, <1>7 DEF SocketOK
<1>10. WarmMoves(b, t)
    BY <1>8 DEF WarmMoves
<1>11. PICK ever \in {FALSE, lease.ever} :
         lease' = [owner |-> b, refs |-> {"routing"}, ever |-> ever,
                   attempt |-> "prepared", fate |-> "unsent"]
    BY <1>4 DEF Begun
<1>12. /\ lease' \in Lease /\ lease'.owner = b /\ lease'.attempt = "prepared"
       /\ lease'.refs = {"routing"} /\ lease'.fate = "unsent"
    BY <1>11, Types DEF Lease, Refs
<1>13. LeaseMoves(b, t)
    BY <1>8, <1>12 DEF LeaseMoves, Held, Bound
<1> QED
    BY <1>6, <1>9, <1>10, <1>13, Types DEF Moves

\* A plan of its own, after cancelling a prewarm not continued.
LEMMA BuildMoves ==
    ASSUME IndInv, NEW b \in Brokers, NEW p \in env.plans, Build(b, p)
    PROVE  \E t : Moves(b, t)
<1>1. Cancelled \in Reservation
    BY Types DEF Cancelled, Reservation
<1>2. resv' \in Reservation /\ (sock[b].warm # "none" \/ resv' = resv)
    BY <1>1, Types DEF Build, CancelActive
<1> QED
    BY <1>2, BegunMoves DEF Build

\* The prewarm is adopted by the broker that holds it.
LEMMA AdoptMoves ==
    ASSUME IndInv, NEW b \in Brokers, NEW p \in env.plans, Adopt(b, p)
    PROVE  \E t : Moves(b, t)
<1>1. resv' \in Reservation
    BY Types DEF Adopt, Reservation
<1>2. sock[b].warm # "none"
    BY DEF Adopt, Adopting
<1> QED
    BY <1>1, <1>2, BegunMoves DEF Adopt

\* A plan out of bounds sends the frame back.
LEMMA PlanRefusedMoves ==
    ASSUME IndInv, NEW b \in Brokers, PlanRefused(b)
    PROVE  \E t : Moves(b, t)
BY ReplyOffLane DEF PlanRefused, At, Bound

\* Planning fails before there is a request.
LEMMA PlanFailsMoves ==
    ASSUME IndInv, NEW b \in Brokers, PlanFails(b)
    PROVE  \E t : Moves(b, t)
<1>0. sock[b].at \notin Bound
    BY DEF PlanFails, At, Bound
<1>1. CASE Leave(b)
    <2>1. LeaseMoves(b, Left)
        BY <1>0, LeftOK DEF PlanFails, LeaseMoves, Bound
    <2> QED
        BY <1>1, <2>1, LeavePuts, Types DEF PlanFails, Moves
<1>2. CASE CancelActive(b) /\ Put(b, Done([sock[b] EXCEPT !.warm = "none"]))
    <2> DEFINE s == [sock[b] EXCEPT !.warm = "none"]
    <2>1. s \in Socket /\ s.warm = "none"
        BY Given, ForgetOK
    <2>2. Put(b, Done(s))
        BY <1>2
    <2> HIDE DEF s
    <2>3. SocketOK(Done(s)) /\ Done(s).at \notin Bound /\ Done(s).warm = "none"
        BY <2>1, DoneOK DEF Bound
    <2>4. WarmMoves(b, Done(s)) /\ LeaseMoves(b, Done(s))
        BY <1>0, <1>2, <2>3, CancelMoves DEF PlanFails, LeaseMoves
    <2> QED
        BY <2>2, <2>3, <2>4, Types DEF PlanFails, Moves
<1> QED
    BY <1>1, <1>2 DEF PlanFails

\* The broker leaves the frame in answering it, and its request is over.
LEMMA ReplyMoves ==
    ASSUME IndInv, NEW b \in Brokers, NEW s \in Socket, s.warm \in {sock[b].warm, "none"},
           Reply(b, s), \A t : t.at \notin Bound => LeaseMoves(b, t),
           UNCHANGED <<resv, gate, env, frames>>
    PROVE  \E t : Moves(b, t)
<1>1. PICK t : Put(b, t) /\ SocketOK(t) /\ t.at \notin Bound /\ t.warm \in {s.warm, "none"}
    BY ReplyPuts
<1> QED
    BY <1>1, Types DEF Moves, WarmMoves

\* The broker leaves Serve, and its request is over or was never sent.
LEMMA LeaveMoves ==
    ASSUME IndInv, NEW b \in Brokers, Leave(b), \A t : t.at \notin Bound => LeaseMoves(b, t),
           UNCHANGED <<gate, env, frames>>
    PROVE  \E t : Moves(b, t)
BY LeavePuts, Types DEF Moves

\* The upstream closed under the plan: nothing was sent yet.
LEMMA IdleClosedPlannedMoves ==
    ASSUME IndInv, NEW b \in Brokers, IdleClosedPlanned(b)
    PROVE  \E t : Moves(b, t)
<1>1. CASE Portable(b)
    BY <1>1, CloseMoves DEF IdleClosedPlanned
<1>2. CASE ~Portable(b)
    <2>1. \A t : t.at \notin Bound => LeaseMoves(b, t)
        BY <1>2, AbandonMoves DEF IdleClosedPlanned, At
    <2> QED
        BY <1>2, <2>1, Given, ClosedOK, ReplyMoves DEF IdleClosedPlanned
<1> QED
    BY <1>1, <1>2

-----------------------------------------------------------------------------
(* The accounts of the plan, and connect.                                  *)

\* The places from which an account is given up: nothing of the request is
\* under way at the provider.
GivesUp == {"account", "connect", "dialing", "refused", "answered"}

\* An account is recorded as unavailable.
LEMMA UnavailableMoves ==
    ASSUME IndInv, NEW b \in Brokers, sock[b].at \in GivesUp, RecordUnavailable(b)
    PROVE  /\ HasNext(b) => Prepare(b)
           /\ ~HasNext(b) => \A t : t.at \notin Bound => LeaseMoves(b, t)
<1>1. sock[b].at \in Bound
    BY DEF GivesUp, Bound
<1>2. lease.fate \in {"unsent", "refused"}
    BY <1>1, HeldBy DEF GivesUp, Held
<1> QED
    BY <1>1, <1>2, ReleaseMoves DEF RecordUnavailable, Terminal

\* The next account.
LEMMA RotateMoves ==
    ASSUME IndInv, NEW b \in Brokers, NEW s \in {sock[b], Closed(sock[b])},
           sock[b].at \in GivesUp, HasNext(b), Prepare(b), Put(b, Rotated(s)),
           UNCHANGED <<resv, gate, env, frames>>
    PROVE  \E t : Moves(b, t)
<1>1. SocketOK(s) /\ s.plan = sock[b].plan /\ s.idx = sock[b].idx /\ s.at = sock[b].at
      /\ s.warm \in {sock[b].warm, "none"}
    BY Given, ClosedOK
<1>2. s.idx < Len(s.plan.accounts)
    BY <1>1 DEF HasNext
<1>3. SocketOK(Rotated(s)) /\ Rotated(s).at = "account" /\ Rotated(s).warm = s.warm
    BY <1>1, <1>2, RotatedOK DEF GivesUp
<1>4. LeaseMoves(b, Rotated(s))
    BY <1>3, PrepareMoves DEF GivesUp, Bound
<1>5. WarmMoves(b, Rotated(s))
    BY <1>1, <1>3 DEF WarmMoves
<1> QED
    BY <1>3, <1>4, <1>5, Types DEF Moves

\* A new plan for the same frame.
LEMMA ReplanMoves ==
    ASSUME IndInv, NEW b \in Brokers, sock[b].at \in GivesUp, CanReplan(b),
           Put(b, Replanned(sock[b])), \A t : t.at \notin Bound => LeaseMoves(b, t),
           UNCHANGED <<resv, gate, env, frames>>
    PROVE  \E t : Moves(b, t)
<1> DEFINE t == Replanned(sock[b])
<1>1. SocketOK(t) /\ t.at = "start" /\ t.warm = "none"
    BY Given, ReplannedOK DEF GivesUp, CanReplan
<1> HIDE DEF t
<1>2. LeaseMoves(b, t) /\ WarmMoves(b, t)
    BY <1>1 DEF Bound, WarmMoves
<1> QED
    BY <1>1, <1>2, Types DEF Moves, t

\* connect is called, for the attempt that is prepared.
LEMMA ConnectMoves ==
    ASSUME IndInv, NEW b \in Brokers, NEW t, SocketOK(t), t.at = "connect",
           t.warm \in {sock[b].warm, "none"}, Put(b, t), sock[b].at \in Bound,
           Prepare(b) \/ (sock[b].at \in {"account", "connect"} /\ UNCHANGED lease),
           UNCHANGED <<resv, gate, env, frames>>
    PROVE  \E u : Moves(b, u)
<1>1. LeaseMoves(b, t)
    <2>1. CASE Prepare(b)
        BY <2>1, PrepareMoves
    <2>2. CASE sock[b].at \in {"account", "connect"} /\ UNCHANGED lease
        BY <2>2, HeldBy, KeepMoves DEF Held, Bound
    <2> QED
        BY <2>1, <2>2
<1> QED
    BY <1>1, Types DEF Moves, WarmMoves

\* connect is called for the account of the plan.
LEMMA PrepareAccountMoves ==
    ASSUME IndInv, NEW b \in Brokers, PrepareAccount(b)
    PROVE  \E t : Moves(b, t)
<1> DEFINE left == IF sock[b].plan.creds = 2 THEN 1 ELSE 0
           t == Connecting(sock[b], left, FALSE)
<1>1. sock[b].at = "account" /\ sock[b].at \in Bound /\ sock[b].open = 0 /\ left \in 0..2
    BY Given DEF PrepareAccount, At, Bound, SocketOK
<1>2. Put(b, t)
    BY DEF PrepareAccount
<1> HIDE DEF left
<1>3. SocketOK(t) /\ t.at = "connect" /\ t.warm = sock[b].warm
    BY <1>1, Given, ConnectingOK
<1> HIDE DEF t
<1> QED
    BY <1>1, <1>2, <1>3, ConnectMoves DEF PrepareAccount

\* The request was never sent, and the broker walks away from it.
LEMMA ForsakeMoves ==
    ASSUME IndInv, NEW b \in Brokers, Leave(b), UNCHANGED <<lease, gate, env, frames>>,
           sock[b].at \in {"account", "connect", "dialing"}
    PROVE  \E t : Moves(b, t)
<1>1. lease.fate = "unsent"
    BY HeldBy DEF Held, Bound
<1> QED
    BY <1>1, KeepMoves, LeaveMoves

\* No credential for the account: the next one, or an end without a send.
LEMMA PrepareFailsMoves ==
    ASSUME IndInv, NEW b \in Brokers, PrepareFails(b)
    PROVE  \E t : Moves(b, t)
<1>1. sock[b].at = "account" /\ sock[b].at \in GivesUp
    BY DEF PrepareFails, At, GivesUp
<1>2. CASE ~Alive(b)
    BY <1>1, <1>2, ForsakeMoves DEF PrepareFails
<1>3. CASE Alive(b) /\ HasNext(b)
    BY <1>1, <1>3, UnavailableMoves, RotateMoves DEF PrepareFails
<1>4. CASE Alive(b) /\ ~HasNext(b)
    <2>1. \A t : t.at \notin Bound => LeaseMoves(b, t)
        BY <1>1, <1>4, UnavailableMoves DEF PrepareFails
    <2>2. CASE ~Portable(b) /\ sock[b].plan.reset # 0
        BY <1>4, <2>1, <2>2, Given, ClosedOK, ReplyMoves DEF PrepareFails
    <2>3. CASE ~(~Portable(b) /\ sock[b].plan.reset # 0)
        BY <1>4, <2>1, <2>3, LeaveMoves DEF PrepareFails
    <2> QED
        BY <2>2, <2>3
<1> QED
    BY <1>2, <1>3, <1>4

\* A reserve protects the account, before or after the dispatch is marked.
LEMMA ReserveLimitMoves ==
    ASSUME IndInv, NEW b \in Brokers, ReserveLimit(b)
    PROVE  \E t : Moves(b, t)
<1> DEFINE marked == At(b, "dialing")
<1>1. /\ sock[b].at \in {"connect", "dialing"} /\ sock[b].at \in GivesUp
      /\ sock[b].at \in Bound
      /\ ~marked => sock[b].at = "connect"
      /\ marked => sock[b].at = "dialing"
    BY DEF ReserveLimit, At, GivesUp, Bound
<1>2. lease.fate = "unsent"
    BY <1>1, HeldBy DEF Held
<1>3. UNCHANGED <<gate, env, frames>>
    BY DEF ReserveLimit
<1>4. CASE sock[b].again
    <2>1. Leave(b) /\ (IF marked THEN Cleanup(b) ELSE Abandon(b))
        BY <1>4 DEF ReserveLimit
    <2>2. ASSUME NEW t, t.at \notin Bound PROVE LeaseMoves(b, t)
        <3>1. CASE marked
            BY <1>1, <2>1, <2>2, <3>1, CleanupMoves
        <3>2. CASE ~marked
            BY <1>1, <2>1, <2>2, <3>2, AbandonMoves
        <3> QED
            BY <3>1, <3>2
    <2> QED
        BY <1>3, <2>1, <2>2, LeaveMoves
<1>5. CASE ~sock[b].again /\ ~Portable(b)
    <2>1. Leave(b) /\ (IF marked THEN Commit(b, "failed", {}, lease.fate) ELSE Abandon(b))
        BY <1>5 DEF ReserveLimit
    <2>2. ASSUME NEW t, t.at \notin Bound PROVE LeaseMoves(b, t)
        <3>1. CASE marked
            BY <1>1, <1>2, <2>1, <2>2, <3>1, ReleaseMoves DEF Terminal
        <3>2. CASE ~marked
            BY <1>1, <2>1, <2>2, <3>2, AbandonMoves
        <3> QED
            BY <3>1, <3>2
    <2> QED
        BY <1>3, <2>1, <2>2, LeaveMoves
<1>6. CASE ~sock[b].again /\ Portable(b) /\ ~Alive(b)
    BY <1>1, <1>3, <1>6, ForsakeMoves DEF ReserveLimit
<1>7. CASE ~sock[b].again /\ Portable(b) /\ Alive(b)
    <2>1. RecordUnavailable(b)
        BY <1>7 DEF ReserveLimit
    <2>2. CASE HasNext(b)
        BY <1>1, <1>7, <2>1, <2>2, UnavailableMoves, RotateMoves DEF ReserveLimit
    <2>3. CASE ~HasNext(b)
        <3>1. \A t : t.at \notin Bound => LeaseMoves(b, t)
            BY <1>1, <2>1, <2>3, UnavailableMoves
        <3>2. CASE CanReplan(b)
            BY <1>1, <1>3, <1>7, <2>3, <3>1, <3>2, ReplanMoves DEF ReserveLimit
        <3>3. CASE ~CanReplan(b)
            BY <1>3, <1>7, <2>3, <3>1, <3>3, LeaveMoves DEF ReserveLimit
        <3> QED
            BY <3>2, <3>3
    <2> QED
        BY <2>2, <2>3
<1> QED
    BY <1>4, <1>5, <1>6, <1>7

\* The open socket is reused: dispatched, and not sent.
LEMMA ReuseMoves ==
    ASSUME IndInv, NEW b \in Brokers, Reuse(b)
    PROVE  \E t : Moves(b, t)
<1> DEFINE t == [sock[b] EXCEPT !.at = "upgraded"]
<1>1. t \in Socket
    BY Given, Fields, Places
<1>2. /\ t.at = "upgraded" /\ t.warm = sock[b].warm /\ t.idx = sock[b].idx
      /\ t.open = sock[b].open /\ t.plan = sock[b].plan
    BY Given DEF Socket
<1>3. Put(b, t) /\ sock[b].at = "connect" /\ sock[b].at \in Bound
    BY DEF Reuse, At, Bound
<1> HIDE DEF t
<1>4. /\ lease' \in Lease /\ lease'.owner = b /\ lease'.attempt = "dispatched"
      /\ lease'.refs = {"routing"} /\ lease'.fate = "unsent"
    BY CommitLease DEF Reuse, Refs
<1>5. LeaseMoves(b, t)
    BY <1>2, <1>3, <1>4 DEF LeaseMoves, Bound, Held
<1>6. t.open = 0
    BY <1>2, <1>3, Given DEF SocketOK
<1> QED
    BY <1>1, <1>2, <1>3, <1>5, <1>6, StepTo DEF Reuse

\* The dispatch is marked before the dial.
LEMMA MarkDispatchedMoves ==
    ASSUME IndInv, NEW b \in Brokers, MarkDispatched(b)
    PROVE  \E t : Moves(b, t)
<1> DEFINE s == Closed(sock[b])
           t == [s EXCEPT !.at = "dialing", !.stale = TRUE]
<1>1. /\ s \in Socket /\ s.warm = "none" /\ s.idx = sock[b].idx
      /\ s.open = sock[b].open /\ s.plan = sock[b].plan
    BY Given, ClosedOK
<1>2. Put(b, t) /\ sock[b].at = "connect" /\ sock[b].at \in Bound
    BY DEF MarkDispatched, At, Bound
<1> HIDE DEF s
<1>3. t \in Socket
    BY <1>1, Fields, Places
<1>4. /\ t.at = "dialing" /\ t.warm = s.warm /\ t.idx = s.idx
      /\ t.open = s.open /\ t.plan = s.plan
    BY <1>1 DEF Socket
<1> HIDE DEF t
<1>5. /\ lease' \in Lease /\ lease'.owner = b /\ lease'.attempt = "dispatched"
      /\ lease'.refs = {"routing"} /\ lease'.fate = "unsent"
    BY CommitLease DEF MarkDispatched, Refs
<1>6. LeaseMoves(b, t)
    BY <1>2, <1>4, <1>5 DEF LeaseMoves, Bound, Held
<1>7. t.open = 0
    BY <1>1, <1>2, <1>4, Given DEF SocketOK
<1> QED
    BY <1>1, <1>2, <1>3, <1>4, <1>6, <1>7, StepTo DEF MarkDispatched

\* The mark fails with the client gone.
LEMMA MarkFailsMoves ==
    ASSUME IndInv, NEW b \in Brokers, MarkFails(b)
    PROVE  \E t : Moves(b, t)
<1>1. \A t : t.at \notin Bound => LeaseMoves(b, t)
    BY AbandonMoves DEF MarkFails, At
<1> QED
    BY <1>1, LeaveMoves DEF MarkFails

\* A step within connect, or from it to the open socket, with the request
\* dispatched and not sent.
LEMMA DialMoves ==
    ASSUME IndInv, NEW b \in Brokers, NEW t \in Socket, Put(b, t),
           t.idx = sock[b].idx, t.plan = sock[b].plan, t.warm = sock[b].warm,
           t.open = sock[b].open,
           sock[b].at \in {"dialing", "refused"}, t.at \in {"refused", "upgraded"},
           UNCHANGED <<lease, resv, gate, env, frames>>
    PROVE  \E u : Moves(b, u)
<1>1. LeaseMoves(b, t)
    BY HeldBy, KeepMoves DEF Held, Bound
<1>2. t.open = 0
    BY Given DEF SocketOK
<1> QED
    BY <1>1, <1>2, StepTo DEF Bound

\* The handshake succeeds.
LEMMA DialledMoves ==
    ASSUME IndInv, NEW b \in Brokers, Dialled(b)
    PROVE  \E t : Moves(b, t)
<1> DEFINE c == sock[b].plan.accounts[sock[b].idx]
           t == [sock[b] EXCEPT !.at = "upgraded", !.conn = c]
<1>1. sock[b].at = "dialing" /\ Put(b, t)
    BY DEF Dialled, At
<1>2. c \in Accounts
    BY <1>1, AccountOfPlan DEF Bound
<1> HIDE DEF c
<1>3. t \in Socket
    BY <1>2, Given, Fields, Places
<1>4. /\ t.at = "upgraded" /\ t.warm = sock[b].warm /\ t.idx = sock[b].idx
      /\ t.open = sock[b].open /\ t.plan = sock[b].plan
    BY Given DEF Socket
<1> HIDE DEF t
<1> QED
    BY <1>1, <1>3, <1>4, DialMoves DEF Dialled

\* The handshake is refused.
LEMMA DialRefusedMoves ==
    ASSUME IndInv, NEW b \in Brokers, NEW refusal \in Refusals, DialRefused(b, refusal)
    PROVE  \E t : Moves(b, t)
<1> DEFINE t == [sock[b] EXCEPT !.at = "refused", !.refusal = refusal]
<1>1. sock[b].at = "dialing" /\ Put(b, t)
    BY DEF DialRefused, At
<1>2. t \in Socket
    BY Given, Fields, Places
<1>3. /\ t.at = "refused" /\ t.warm = sock[b].warm /\ t.idx = sock[b].idx
      /\ t.open = sock[b].open /\ t.plan = sock[b].plan
    BY Given DEF Socket
<1> HIDE DEF t
<1> QED
    BY <1>1, <1>2, <1>3, DialMoves DEF DialRefused

\* The request is left in doubt, or as it ended, and the broker leaves.
LEMMA DoubtMoves ==
    ASSUME IndInv, NEW b \in Brokers, sock[b].at \in Bound \ {"account", "connect"},
           Cleanup(b), Leave(b), UNCHANGED <<gate, env, frames>>
    PROVE  \E t : Moves(b, t)
<1>1. \A t : t.at \notin Bound => LeaseMoves(b, t)
    BY CleanupMoves
<1> QED
    BY <1>1, LeaveMoves

\* The dial fails without an answer: in doubt, though nothing was sent.
LEMMA DialFailsMoves ==
    ASSUME IndInv, NEW b \in Brokers, DialFails(b)
    PROVE  \E t : Moves(b, t)
BY DoubtMoves DEF DialFails, At, Bound

\* One refresh after an authentication failure.
LEMMA RefreshRefusedMoves ==
    ASSUME IndInv, NEW b \in Brokers, RefreshRefused(b)
    PROVE  \E t : Moves(b, t)
<1> DEFINE t1 == [sock[b] EXCEPT !.considered = TRUE, !.left = 1]
           t2 == [sock[b] EXCEPT !.considered = TRUE]
<1>1. sock[b].at = "refused" /\ (Put(b, t1) \/ Put(b, t2))
    BY DEF RefreshRefused, At
<1>2. t1 \in Socket /\ t2 \in Socket
    <2>1. 1 \in 0..2
        OBVIOUS
    <2> QED
        BY <2>1, Given, Fields, Zenon
<1>3. /\ t1.at = sock[b].at /\ t1.warm = sock[b].warm /\ t1.idx = sock[b].idx
      /\ t1.open = sock[b].open /\ t1.plan = sock[b].plan
    BY Given DEF Socket
<1>4. /\ t2.at = sock[b].at /\ t2.warm = sock[b].warm /\ t2.idx = sock[b].idx
      /\ t2.open = sock[b].open /\ t2.plan = sock[b].plan
    BY Given DEF Socket
<1> HIDE DEF t1, t2
<1>5. CASE Put(b, t1)
    BY <1>1, <1>2, <1>3, <1>5, DialMoves DEF RefreshRefused
<1>6. CASE Put(b, t2)
    BY <1>1, <1>2, <1>4, <1>6, DialMoves DEF RefreshRefused
<1> QED
    BY <1>1, <1>5, <1>6

\* The slots of an account: at most two credentials and one refreshed.
LEMMA SlotsBound ==
    ASSUME NEW p \in Plans, NEW n \in 0..3, n < Slots(p)
    PROVE  n + 1 \in 0..3
<1>1. PICK c \in 0..2 : p.creds = c
    BY PlanAccounts
<1>2. Slots(p) \in 0..3
    BY <1>1 DEF Slots
<1> QED
    BY <1>2

\* The next slot of the account.
LEMMA RejectAndPrepareMoves ==
    ASSUME IndInv, NEW b \in Brokers, RejectAndPrepare(b)
    PROVE  \E t : Moves(b, t)
<1> DEFINE left == sock[b].left - 1
           tries == sock[b].tries + 1
           t == [sock[b] EXCEPT !.at = "connect", !.left = left, !.tries = tries,
                                !.refusal = "none"]
<1>1. /\ sock[b].at = "refused" /\ sock[b].at \in Bound /\ sock[b].left > 0
      /\ Put(b, t) /\ Prepare(b) /\ sock[b].tries < Slots(sock[b].plan)
    BY DEF RejectAndPrepare, CanRejectAndPrepare, At, Bound
<1>2. left \in 0..2
    BY <1>1, Given
<1>3. tries \in 0..3
    <2>1. sock[b].plan \in Plans /\ sock[b].tries \in 0..3
        BY <1>1, Given, AccountOfPlan
    <2> QED
        BY <1>1, <2>1, SlotsBound
<1> HIDE DEF left, tries
<1>4. t \in Socket
    BY <1>2, <1>3, Given, Fields, Places
<1>5. /\ t.at = "connect" /\ t.warm = sock[b].warm /\ t.idx = sock[b].idx
      /\ t.open = sock[b].open /\ t.plan = sock[b].plan
    BY Given DEF Socket
<1> HIDE DEF t
<1>6. SocketOK(t)
    BY <1>1, <1>4, <1>5, Given DEF SocketOK, Bound
<1> QED
    BY <1>1, <1>5, <1>6, ConnectMoves DEF RejectAndPrepare

\* After the last account of the plan: a new plan, or the answer.
LEMMA AnswerMoves ==
    ASSUME IndInv, NEW b \in Brokers, NEW s \in {sock[b], Closed(sock[b])},
           sock[b].at \in GivesUp, RecordUnavailable(b), ~HasNext(b),
           Reply(b, s) \/ (CanReplan(b) /\ Put(b, Replanned(sock[b]))),
           UNCHANGED <<resv, gate, env, frames>>
    PROVE  \E t : Moves(b, t)
<1>1. \A t : t.at \notin Bound => LeaseMoves(b, t)
    BY UnavailableMoves
<1>2. s \in Socket /\ s.warm \in {sock[b].warm, "none"}
    BY Given, ClosedOK
<1> QED
    BY <1>1, <1>2, ReplanMoves, ReplyMoves

\* A refused handshake rotates, replans or is relayed, and nothing is open.
LEMMA FinishHandshakeFailureMoves ==
    ASSUME IndInv, NEW b \in Brokers, FinishHandshakeFailure(b)
    PROVE  \E t : Moves(b, t)
<1>1. /\ sock[b].at = "refused" /\ sock[b].at \in GivesUp
      /\ sock[b].at \in Bound \ {"account", "connect"}
    BY DEF FinishHandshakeFailure, ConnectRefused, At, GivesUp, Bound
<1>2. UNCHANGED <<gate, env, frames>>
    BY DEF FinishHandshakeFailure
<1>3. CASE sock[b].refusal = "other"
    <2>1. Commit(b, "failed", {}, lease.fate) /\ Reply(b, sock[b]) /\ UNCHANGED resv
        BY <1>3 DEF FinishHandshakeFailure
    <2>2. lease.fate = "unsent"
        BY <1>1, HeldBy DEF Held
    <2>3. \A t : t.at \notin Bound => LeaseMoves(b, t)
        BY <1>1, <2>1, <2>2, ReleaseMoves DEF Terminal
    <2> QED
        BY <1>2, <2>1, <2>3, Given, ReplyMoves
<1>4. CASE sock[b].refusal # "other" /\ ~Alive(b)
    BY <1>1, <1>2, <1>4, DoubtMoves DEF FinishHandshakeFailure
<1>5. CASE sock[b].refusal # "other" /\ Alive(b) /\ HasNext(b)
    BY <1>1, <1>2, <1>5, UnavailableMoves, RotateMoves DEF FinishHandshakeFailure
<1>6. CASE sock[b].refusal # "other" /\ Alive(b) /\ ~HasNext(b)
    BY <1>1, <1>2, <1>6, AnswerMoves DEF FinishHandshakeFailure
<1> QED
    BY <1>3, <1>4, <1>5, <1>6

-----------------------------------------------------------------------------
(* The request on the upstream socket.                                     *)

\* Admission changes the attempt and not the send.
LEMMA AdmitMoves ==
    ASSUME IndInv, NEW b \in Brokers, Admit(b)
    PROVE  \E t : Moves(b, t)
<1>1. /\ sock[b].at \in {"upgraded", "reading"}
      /\ sock[b].at \in Bound \ {"account", "connect"}
    BY DEF Admit, At, Bound
<1>2. CASE ~Alive(b)
    BY <1>1, <1>2, DoubtMoves DEF Admit, Doubt
<1>3. CASE Alive(b)
    <2>1. /\ lease' = [lease EXCEPT !.attempt = "streaming", !.refs = Refs, !.ever = TRUE]
          /\ UNCHANGED <<sock, resv, gate, env, frames>>
        BY <1>3 DEF Admit
    <2>2. /\ lease' \in Lease /\ lease'.owner = lease.owner /\ lease'.attempt = "streaming"
          /\ lease'.refs = Refs /\ lease'.fate = lease.fate
        BY <2>1, Types DEF Lease
    <2>3. LeaseMoves(b, sock[b])
        BY <1>1, <2>2, HeldBy DEF LeaseMoves, Held, Refs
    <2>4. Put(b, sock[b])
        BY <2>1, Types DEF Put
    <2> QED
        BY <2>1, <2>3, <2>4, Given, Types DEF Moves, WarmMoves
<1> QED
    BY <1>2, <1>3

\* The frame is sent: the one open send, for none was open before.
LEMMA SendMoves ==
    ASSUME IndInv, NEW b \in Brokers, Send(b)
    PROVE  \E t : Moves(b, t)
<1> DEFINE n == sock[b].open + 1
           t == [sock[b] EXCEPT !.at = "reading", !.open = n]
<1>1. sock[b].at = "upgraded" /\ sock[b].at \in Bound /\ Put(b, t)
    BY DEF Send, At, Bound
<1>2. n = 1
    BY <1>1, Given DEF SocketOK
<1> HIDE DEF n
<1>3. t \in Socket
    <2>1. n \in 0..2
        BY <1>2
    <2> QED
        BY <2>1, Given, Fields, Places
<1>4. /\ t.at = "reading" /\ t.warm = sock[b].warm /\ t.idx = sock[b].idx
      /\ t.open = n /\ t.plan = sock[b].plan
    BY Given DEF Socket
<1> HIDE DEF t
<1>5. /\ lease' \in Lease /\ lease'.owner = lease.owner /\ lease'.attempt = lease.attempt
      /\ lease'.refs = lease.refs /\ lease'.fate = "sent"
    BY Types DEF Send, Lease
<1>6. LeaseMoves(b, t)
    BY <1>1, <1>4, <1>5, HeldBy DEF LeaseMoves, Held, Bound
<1> QED
    BY <1>1, <1>2, <1>3, <1>4, <1>6, StepTo DEF Send

\* A failed write may have delivered the frame.
LEMMA SendFailsMoves ==
    ASSUME IndInv, NEW b \in Brokers, SendFails(b)
    PROVE  \E t : Moves(b, t)
BY DoubtMoves DEF SendFails, Doubt, At, Bound

\* A silent provider leaves the request in doubt.
LEMMA ReadFailsMoves ==
    ASSUME IndInv, NEW b \in Brokers, ReadFails(b)
    PROVE  \E t : Moves(b, t)
BY DoubtMoves DEF ReadFails, Doubt, At, Bound

\* The relay fails after the end: the outcome stands.
LEMMA RelayFailsMoves ==
    ASSUME IndInv, NEW b \in Brokers, RelayFails(b)
    PROVE  \E t : Moves(b, t)
BY DoubtMoves DEF RelayFails, Doubt, At, Bound

\* A frame too big was rejected, not run.
LEMMA TooBigMoves ==
    ASSUME IndInv, NEW b \in Brokers, TooBig(b)
    PROVE  \E t : Moves(b, t)
<1>1. \A t : t.at \notin Bound => LeaseMoves(b, t)
    BY ReleaseMoves DEF TooBig, At, Bound, Terminal
<1> QED
    BY <1>1, LeaveMoves DEF TooBig

\* The response ends, and the observer stays for the relay.
LEMMA EndsMoves ==
    ASSUME IndInv, NEW b \in Brokers, NEW attempt \in {"completed", "failed"}, Ends(b, attempt)
    PROVE  \E t : Moves(b, t)
<1> DEFINE t == [sock[b] EXCEPT !.at = "relaying"]
<1>1. sock[b].at = "reading" /\ sock[b].at \in Bound /\ Put(b, t)
    BY DEF Ends, At, Bound
<1>2. t \in Socket
    BY Given, Fields, Places
<1>3. /\ t.at = "relaying" /\ t.warm = sock[b].warm /\ t.idx = sock[b].idx
      /\ t.open = sock[b].open /\ t.plan = sock[b].plan
    BY Given DEF Socket
<1> HIDE DEF t
<1>4. t.open = 1
    BY <1>1, <1>3, Given DEF SocketOK
<1>5. /\ lease' \in Lease /\ lease'.owner = b /\ lease'.attempt = attempt
      /\ lease'.refs = {"observer"} /\ lease'.fate = "ended"
    BY CommitLease DEF Ends, Refs, Terminal
<1>6. LeaseMoves(b, t)
    BY <1>1, <1>3, <1>5 DEF LeaseMoves, Held, Bound
<1> QED
    BY <1>1, <1>2, <1>3, <1>4, <1>6, StepTo DEF Ends

\* The relay lets go of the request.
LEMMA RelayMoves ==
    ASSUME IndInv, NEW b \in Brokers, Relay(b)
    PROVE  \E t : Moves(b, t)
<1> DEFINE t == Done(sock[b])
<1>1. sock[b].at = "relaying" /\ sock[b].at \in Bound /\ Put(b, t)
    BY DEF Relay, At, Bound
<1>2. SocketOK(t) /\ t.at = "idle" /\ t.warm = sock[b].warm
    BY Given, DoneOK
<1> HIDE DEF t
<1>3. lease.attempt \in {"completed", "failed"} /\ lease.fate = "ended"
    BY <1>1, HeldBy DEF Held
<1>4. LeaseMoves(b, t)
    BY <1>1, <1>2, <1>3, ReleaseMoves DEF Relay, Terminal, Bound
<1> QED
    BY <1>1, <1>2, <1>4, Types DEF Moves, WarmMoves, Relay

\* An admitted response ends at a limit of the account.
LEMMA EndsUnavailableMoves ==
    ASSUME IndInv, NEW b \in Brokers, EndsUnavailable(b)
    PROVE  \E t : Moves(b, t)
<1>1. sock[b].at = "reading" /\ sock[b].at \in Bound \ {"account", "connect"}
    BY DEF EndsUnavailable, At, Bound
<1>2. CASE ~Alive(b)
    BY <1>1, <1>2, DoubtMoves DEF EndsUnavailable, Doubt
<1>3. CASE Alive(b)
    <2>1. \A t : t.at \notin Bound => LeaseMoves(b, t)
        BY <1>1, <1>3, ReleaseMoves DEF EndsUnavailable, Terminal
    <2> QED
        BY <1>3, <2>1, Given, ClosedOK, ReplyMoves DEF EndsUnavailable
<1> QED
    BY <1>2, <1>3

\* A refusal before admission closes the open send.
LEMMA RefuseMoves ==
    ASSUME IndInv, NEW b \in Brokers, NEW refusal \in Refusals, Refuse(b, refusal)
    PROVE  \E t : Moves(b, t)
<1> DEFINE n == sock[b].open - 1
           t == [sock[b] EXCEPT !.at = "answered", !.refusal = refusal, !.open = n]
<1>1. sock[b].at = "reading" /\ sock[b].at \in Bound /\ Put(b, t)
    BY DEF Refuse, At, Bound
<1>2. n = 0
    BY <1>1, Given DEF SocketOK
<1> HIDE DEF n
<1>3. t \in Socket
    <2>1. n \in 0..2
        BY <1>2
    <2> QED
        BY <2>1, Given, Fields, Places
<1>4. /\ t.at = "answered" /\ t.warm = sock[b].warm /\ t.idx = sock[b].idx
      /\ t.open = n /\ t.plan = sock[b].plan
    BY Given DEF Socket
<1> HIDE DEF t
<1>5. /\ lease' \in Lease /\ lease'.owner = lease.owner /\ lease'.attempt = lease.attempt
      /\ lease'.refs = lease.refs /\ lease'.fate = "refused"
    BY Types DEF Refuse, Lease
<1>6. LeaseMoves(b, t)
    BY <1>1, <1>4, <1>5, HeldBy DEF LeaseMoves, Held, Bound, Refuse, Admitted
<1> QED
    BY <1>1, <1>2, <1>3, <1>4, <1>6, StepTo DEF Refuse

\* A retry takes a slot while no send is open.
LEMMA AuthRetryMoves ==
    ASSUME IndInv, NEW b \in Brokers, AuthRetry(b)
    PROVE  \E t : Moves(b, t)
<1>1. sock[b].at = "answered" /\ sock[b].at \in Bound \ {"account", "connect"}
    BY DEF AuthRetry, At, Bound
<1>2. CASE ~CanRejectAndPrepare(b)
    BY <1>1, <1>2, DoubtMoves DEF AuthRetry, Doubt
<1>3. CASE CanRejectAndPrepare(b)
    <2> DEFINE s == Closed(sock[b])
               left == IF sock[b].left > 0 THEN sock[b].left - 1 ELSE 0
               considered == sock[b].left = 0
               c == Connecting(s, left, considered)
               tries == c.tries + 1
               t == [c EXCEPT !.tries = tries, !.again = TRUE]
    <2>1. Prepare(b) /\ Put(b, t) /\ UNCHANGED <<resv, gate, env, frames>>
        BY <1>3 DEF AuthRetry
    <2>2. left \in 0..2 /\ considered \in BOOLEAN
        BY Given
    <2>3. /\ SocketOK(s) /\ s.at = sock[b].at /\ s.open = 0 /\ s.warm = "none"
          /\ s.tries = sock[b].tries
        BY <1>1, Given, ClosedOK DEF SocketOK
    <2> HIDE DEF s, left, considered
    <2>4. SocketOK(c) /\ c.at = "connect" /\ c.warm = "none" /\ c.tries = sock[b].tries
        BY <1>1, <2>2, <2>3, ConnectingOK
    <2>5. tries \in 0..3
        <3>1. sock[b].plan \in Plans /\ sock[b].tries \in 0..3
            BY <1>1, Given, AccountOfPlan
        <3>2. sock[b].tries < Slots(sock[b].plan)
            BY <1>3 DEF CanRejectAndPrepare
        <3> QED
            BY <2>4, <3>1, <3>2, SlotsBound
    <2>6. c \in Socket
        BY <2>4 DEF SocketOK
    <2> HIDE DEF c, tries
    <2>7. t \in Socket
        BY <2>5, <2>6, Fields
    <2>8. /\ t.at = c.at /\ t.warm = c.warm /\ t.idx = c.idx
          /\ t.open = c.open /\ t.plan = c.plan
        BY <2>6 DEF Socket
    <2> HIDE DEF t
    <2>9. SocketOK(t)
        BY <2>4, <2>7, <2>8 DEF SocketOK
    <2> QED
        BY <1>1, <2>1, <2>4, <2>8, <2>9, ConnectMoves
<1> QED
    BY <1>2, <1>3

\* A refused frame rotates, replans or is relayed, and nothing is open.
LEMMA FinishRefusedMoves ==
    ASSUME IndInv, NEW b \in Brokers, FinishRefused(b)
    PROVE  \E t : Moves(b, t)
<1>1. /\ sock[b].at = "answered" /\ sock[b].at \in GivesUp
      /\ sock[b].at \in Bound \ {"account", "connect"}
    BY DEF FinishRefused, At, GivesUp, Bound
<1>2. CASE sock[b].refusal = "other"
    <2>1. \A t : t.at \notin Bound => LeaseMoves(b, t)
        BY <1>1, <1>2, ReleaseMoves DEF FinishRefused, Terminal
    <2> QED
        BY <1>2, <2>1, Given, ClosedOK, ReplyMoves DEF FinishRefused
<1>3. CASE sock[b].refusal # "other" /\ ~Alive(b)
    BY <1>1, <1>3, DoubtMoves DEF FinishRefused, Doubt
<1>4. CASE sock[b].refusal # "other" /\ Alive(b) /\ HasNext(b)
    BY <1>1, <1>4, UnavailableMoves, RotateMoves DEF FinishRefused
<1>5. CASE sock[b].refusal # "other" /\ Alive(b) /\ ~HasNext(b)
    BY <1>1, <1>5, AnswerMoves DEF FinishRefused
<1> QED
    BY <1>2, <1>3, <1>4, <1>5

-----------------------------------------------------------------------------
(* Prewarm.                                                                *)

\* A reservation is made on a lane without a live one.
LEMMA StartPrewarmMoves ==
    ASSUME IndInv, NEW b \in Brokers, NEW p \in env.plans, StartPrewarm(b, p)
    PROVE  \E t : Moves(b, t)
<1> DEFINE t == [sock[b] EXCEPT !.at = "warmed", !.plan = p, !.idx = 1, !.warm = "creating"]
<1>1. sock[b].at = "start" /\ sock[b].at \notin Bound /\ Put(b, t)
    BY DEF StartPrewarm, At, Bound
<1>2. p \in Plans /\ 1 \in 0..2 /\ "creating" \in LiveReservations
    BY EnvPlans DEF LiveReservations
<1>3. t \in Socket
    BY <1>2, Given, Fields, Places, Zenon
<1>4. t.at = "warmed" /\ t.plan = p /\ t.idx = 1 /\ t.open = sock[b].open /\ t.warm = "creating"
    BY Given DEF Socket
<1> HIDE DEF t
<1>5. SocketOK(t)
    <2>1. Len(t.plan.accounts) = Len(p.accounts)
        BY <1>4, Zenon
    <2>2. PICK n \in 1..2 : Len(t.plan.accounts) = n
        BY <1>2, <2>1, PlanAccounts, Zenon
    <2>3. t.idx = 1 /\ t.at = "warmed" /\ t.open = 0
        BY <1>1, <1>4, Given DEF SocketOK
    <2>4. t.idx <= Len(t.plan.accounts)
        BY <2>2, <2>3
    <2> QED
        BY <1>3, <2>3, <2>4 DEF SocketOK
<1>6. WarmMoves(b, t)
    <2>1. resv' = [state |-> "creating", owner |-> b] /\ resv.state \notin LiveReservations
        BY DEF StartPrewarm, CanReserve
    <2>2. resv' \in Reservation
        BY <1>2, <2>1 DEF Reservation
    <2> QED
        BY <1>4, <2>1, <2>2 DEF WarmMoves
<1>7. LeaseMoves(b, t)
    BY <1>1, <1>4 DEF StartPrewarm, LeaseMoves, Bound
<1> QED
    BY <1>1, <1>5, <1>6, <1>7, Types DEF Moves, StartPrewarm

\* A broker without a request leaves.
LEMMA LeaveOffLane ==
    ASSUME IndInv, NEW b \in Brokers, sock[b].at \notin Bound, Leave(b),
           UNCHANGED <<lease, gate, env, frames>>
    PROVE  \E t : Moves(b, t)
<1>1. \A t : t.at \notin Bound => LeaseMoves(b, t)
    BY DEF LeaseMoves
<1> QED
    BY <1>1, LeaveMoves

\* No plan, or the lane is reserved by another.
LEMMA PrewarmFailsMoves ==
    ASSUME IndInv, NEW b \in Brokers, PrewarmFails(b)
    PROVE  \E t : Moves(b, t)
BY LeaveOffLane DEF PrewarmFails, At, Bound

\* The prewarm fails and the session with it.
LEMMA WarmFailsMoves ==
    ASSUME IndInv, NEW b \in Brokers, WarmFails(b)
    PROVE  \E t : Moves(b, t)
BY LeaveOffLane DEF WarmFails, At, Bound

\* The prewarm times out and the session goes on.
LEMMA WarmTimesOutMoves ==
    ASSUME IndInv, NEW b \in Brokers, WarmTimesOut(b)
    PROVE  \E t : Moves(b, t)
BY ReplyOffLane DEF WarmTimesOut, At, Bound

\* The prewarm frame is sent, outside the lease.
LEMMA WarmSendMoves ==
    ASSUME IndInv, NEW b \in Brokers, WarmSend(b)
    PROVE  \E t : Moves(b, t)
<1> DEFINE c == sock[b].plan.accounts[sock[b].idx]
           t == [sock[b] EXCEPT !.at = "warmReading", !.conn = c]
<1>1. sock[b].at = "warmed" /\ Put(b, t)
    BY DEF WarmSend, At
<1>2. c \in Accounts
    BY <1>1, AccountOfPlan
<1> HIDE DEF c
<1>3. t \in Socket
    BY <1>2, Given, Fields, Places
<1>4. /\ t.at = "warmReading" /\ t.warm = sock[b].warm /\ t.idx = sock[b].idx
      /\ t.open = sock[b].open /\ t.plan = sock[b].plan
    BY Given DEF Socket
<1> HIDE DEF t
<1>5. t.open = 0
    BY <1>1, <1>4, Given DEF SocketOK
<1>6. LeaseMoves(b, t)
    BY <1>1, <1>4 DEF WarmSend, LeaseMoves, Bound
<1> QED
    BY <1>1, <1>3, <1>4, <1>5, <1>6, StepTo DEF WarmSend, Bound

\* A refused prewarm tries the next account or is cancelled.
LEMMA WarmRefusedMoves ==
    ASSUME IndInv, NEW b \in Brokers, NEW refusal \in Refusals, WarmRefused(b, refusal)
    PROVE  \E t : Moves(b, t)
<1> DEFINE rotate == refusal # "other" /\ MoreAccounts(sock[b]) /\ sock[b].warm = "creating"
<1>1. sock[b].at \in {"warmed", "warmReading"} /\ sock[b].at \notin Bound
    BY DEF WarmRefused, Bound
<1>2. CASE ~rotate
    BY <1>1, <1>2, ReplyOffLane DEF WarmRefused
<1>3. CASE rotate
    <2> DEFINE i == sock[b].idx + 1
               t == [sock[b] EXCEPT !.at = "warmed", !.idx = i, !.conn = None]
    <2>1. Put(b, t) /\ UNCHANGED <<lease, resv, gate, env, frames>>
        BY <1>3 DEF WarmRefused
    <2>2. PICK n \in 1..2 : Len(sock[b].plan.accounts) = n
        BY <1>1, AccountOfPlan
    <2>3. i \in 0..2 /\ i <= n /\ i >= 1
        BY <1>3, <2>2, Given DEF MoreAccounts
    <2> HIDE DEF i
    <2>4. t \in Socket
        BY <2>3, Given, Fields, Places
    <2>5. /\ t.at = "warmed" /\ t.warm = sock[b].warm /\ t.idx = i
          /\ t.open = sock[b].open /\ t.plan = sock[b].plan
        BY Given DEF Socket
    <2> HIDE DEF t
    <2>6. SocketOK(t)
        <3>1. t.open = 0
            BY <1>1, <2>5, Given DEF SocketOK
        <3>2. Len(t.plan.accounts) = n
            BY <2>2, <2>5
        <3> QED
            BY <2>3, <2>4, <2>5, <3>1, <3>2 DEF SocketOK
    <2>7. WarmMoves(b, t) /\ LeaseMoves(b, t)
        BY <1>1, <2>1, <2>5 DEF WarmMoves, LeaseMoves, Bound
    <2> QED
        BY <2>1, <2>6, <2>7, Types DEF Moves
<1> QED
    BY <1>2, <1>3

\* The reservation is bound by its holder.
LEMMA WarmBoundMoves ==
    ASSUME IndInv, NEW b \in Brokers, WarmBound(b)
    PROVE  \E t : Moves(b, t)
<1> DEFINE t == [sock[b] EXCEPT !.warm = "bound"]
<1>1. sock[b].at = "warmReading" /\ sock[b].warm # "none" /\ Put(b, t)
    BY DEF WarmBound, At
<1>2. "bound" \in LiveReservations
    BY DEF LiveReservations
<1>3. t \in Socket
    BY <1>2, Given, Fields
<1>4. /\ t.at = sock[b].at /\ t.warm = "bound" /\ t.idx = sock[b].idx
      /\ t.open = sock[b].open /\ t.plan = sock[b].plan
    BY Given DEF Socket
<1> HIDE DEF t
<1>5. SocketOK(t)
    BY <1>3, <1>4, Given DEF SocketOK
<1>6. WarmMoves(b, t)
    <2>1. resv = [state |-> sock[b].warm, owner |-> b]
        BY <1>1 DEF IndInv, WarmIsHeld
    <2>2. resv' = [state |-> "bound", owner |-> b]
        BY <2>1 DEF WarmBound
    <2>3. resv' \in Reservation
        BY <1>2, <2>2 DEF Reservation
    <2> QED
        BY <1>1, <1>4, <2>2, <2>3 DEF WarmMoves
<1>7. LeaseMoves(b, t)
    BY <1>1, <1>4 DEF WarmBound, LeaseMoves, Bound
<1> QED
    BY <1>1, <1>5, <1>6, <1>7, Types DEF Moves, WarmBound

\* The reservation is ready, and its holder idle.
LEMMA WarmReadyMoves ==
    ASSUME IndInv, NEW b \in Brokers, WarmReady(b)
    PROVE  \E t : Moves(b, t)
<1> DEFINE s == [sock[b] EXCEPT !.warm = "ready"]
           t == Done(s)
<1>1. sock[b].at = "warmReading" /\ sock[b].warm # "none" /\ Put(b, t)
    BY DEF WarmReady, At
<1>2. "ready" \in LiveReservations
    BY DEF LiveReservations
<1>3. s \in Socket
    BY <1>2, Given, Fields
<1>4. s.warm = "ready"
    BY Given DEF Socket
<1> HIDE DEF s
<1>5. SocketOK(t) /\ t.at = "idle" /\ t.warm = "ready"
    BY <1>3, <1>4, DoneOK
<1> HIDE DEF t
<1>6. WarmMoves(b, t)
    <2>1. resv = [state |-> sock[b].warm, owner |-> b]
        BY <1>1 DEF IndInv, WarmIsHeld
    <2>2. resv' = [state |-> "ready", owner |-> b]
        BY <2>1 DEF WarmReady
    <2>3. resv' \in Reservation
        BY <1>2, <2>2 DEF Reservation
    <2> QED
        BY <1>1, <1>5, <2>2, <2>3 DEF WarmMoves
<1>7. LeaseMoves(b, t)
    BY <1>1, <1>5 DEF WarmReady, LeaseMoves, Bound
<1> QED
    BY <1>1, <1>5, <1>6, <1>7, Types DEF Moves, WarmReady

-----------------------------------------------------------------------------
(* The gate, and the invariant.                                            *)

\* A pause tells the sessions and touches nothing else of them.
LEMMA PauseInv ==
    ASSUME IndInv, Pause
    PROVE  IndInv'
<1> DEFINE told(s) == [s EXCEPT !.told = TRUE]
<1>1. \A b \in Brokers : sock'[b] = sock[b] \/ sock'[b] = told(sock[b])
    BY DEF Pause
<1>2. ASSUME NEW s \in Socket
      PROVE  /\ told(s) \in Socket /\ told(s).at = s.at /\ told(s).idx = s.idx
             /\ told(s).plan = s.plan /\ told(s).open = s.open /\ told(s).warm = s.warm
    <2>1. told(s) \in Socket
        BY Fields
    <2> QED
        BY <2>1 DEF Socket
<1> HIDE DEF told
<1>3. ASSUME NEW b \in Brokers
      PROVE  /\ sock'[b] \in Socket /\ sock'[b].at = sock[b].at /\ sock'[b].idx = sock[b].idx
             /\ sock'[b].plan = sock[b].plan /\ sock'[b].open = sock[b].open
             /\ sock'[b].warm = sock[b].warm
    BY <1>1, <1>2, Given
<1>4. sock' \in [Brokers -> Socket]
    <2>1. sock' = [b \in Brokers |-> sock'[b]]
        BY DEF Pause
    <2> QED
        BY <1>3, <2>1
<1>5. \A b \in Brokers : SocketOK(sock'[b])
    BY <1>3, Given DEF SocketOK
<1>6. TypeOK'
    BY <1>4, <1>5, Types DEF Pause, TypeOK, SocketOK, Socket, Lease, Reservation
<1>7. WarmIsHeld'
    BY <1>3 DEF IndInv, WarmIsHeld, Pause
<1> QED
    BY <1>3, <1>5, <1>6, <1>7 DEF IndInv, Pause

\* Ending a pause touches the gate alone.
LEMMA ResumeInv ==
    ASSUME IndInv, Resume
    PROVE  IndInv'
<1>1. TypeOK'
    BY ZenonT(30), Types DEF Resume, TypeOK, IndInv
<1> QED
    BY <1>1 DEF IndInv, Resume, WarmIsHeld

\* Every step of a broker is one the invariant allows.
LEMMA StepMoves ==
    ASSUME IndInv, NEW b \in Brokers, Step(b)
    PROVE  \E t : Moves(b, t)
BY SessionEndsMoves, IdleClosedMoves, RedistributeMoves, StartRequestMoves, BuildMoves,
   AdoptMoves, StartPrewarmMoves, PlanRefusedMoves, PlanFailsMoves, IdleClosedPlannedMoves,
   PrepareAccountMoves, PrepareFailsMoves, ReserveLimitMoves, ReuseMoves,
   MarkDispatchedMoves, MarkFailsMoves, DialFailsMoves, RefreshRefusedMoves,
   RejectAndPrepareMoves, FinishHandshakeFailureMoves, SendMoves, SendFailsMoves,
   ReadFailsMoves, RelayMoves, RelayFailsMoves, AuthRetryMoves, FinishRefusedMoves,
   PrewarmFailsMoves, WarmSendMoves, WarmFailsMoves, WarmTimesOutMoves DEF Step

\* So is every answer of the provider.
LEMMA AnswersMove ==
    ASSUME IndInv, NEW b \in Brokers, Answer(b)
    PROVE  \E t : Moves(b, t)
BY DialledMoves, AdmitMoves, TooBigMoves, EndsUnavailableMoves, EndsMoves, DialRefusedMoves,
   RefuseMoves, WarmRefusedMoves, WarmBoundMoves, WarmReadyMoves DEF Answer

\* No broker serves and the lane is free.
LEMMA InitInv == Init => IndInv
<1> SUFFICES ASSUME Init PROVE IndInv
    OBVIOUS
<1>1. \A b \in Brokers : sock[b] = Fresh
    BY DEF Init
<1>2. SocketOK(Fresh)
    BY FreshOK, NoPlanEmpty DEF SocketOK, Bound
<1>3. sock \in [Brokers -> Socket]
    BY FreshOK DEF Init
<1>4. /\ lease \in Lease /\ lease.fate = "unsent" /\ resv \in Reservation
      /\ gate \in [paused : BOOLEAN, pauses : Nat] /\ frames \in Nat /\ env \in Environments
    BY DEF Init, Lease, Reservation
<1>5. TypeOK
    BY <1>1, <1>2, <1>3, <1>4 DEF TypeOK, Socket, Lease, Reservation, SocketOK
<1> QED
    BY <1>1, <1>2, <1>4, <1>5, FreshOK DEF IndInv, WarmIsHeld, Bound

\* No step leaves the invariant.
LEMMA NextInv == IndInv /\ [Next]_vars => IndInv'
<1> SUFFICES ASSUME IndInv, [Next]_vars PROVE IndInv'
    OBVIOUS
<1>1. CASE Next
    <2>1. CASE Pause \/ Resume
        BY <2>1, PauseInv, ResumeInv
    <2>2. ASSUME NEW b \in Brokers,
                 \/ Serve(b) \/ ClientGoes(b) \/ Step(b) \/ Answer(b)
                 \/ \E kind \in env.kinds : Accept(b, kind)
          PROVE  IndInv'
        <3>1. \E t : Moves(b, t)
            BY <2>2, ServeMoves, ClientGoesMoves, StepMoves, AnswersMove, AcceptMoves
        <3> QED
            BY <3>1, MovesInv
    <2> QED
        BY <1>1, <2>1, <2>2 DEF Next
<1>2. CASE UNCHANGED vars
    BY <1>2 DEF IndInv, vars, TypeOK, WarmIsHeld
<1> QED
    BY <1>1, <1>2

-----------------------------------------------------------------------------
(* Results.                                                                *)

\* Whatever clients, provider and upgrades do, every broker stands where the
\* invariant says, and the lane's request is in the state that place needs.
THEOREM BrokerInvariant == Spec => []IndInv
BY InitInv, NextInv, PTL DEF Spec

\* The variables have their types: above all a frame never uses more than the
\* slots, accounts and replans its plan allows.
THEOREM BrokerTypeCorrect == Spec => []TypeOK
<1>1. IndInv => TypeOK
    BY DEF IndInv
<1> QED
    BY <1>1, BrokerInvariant, PTL

\* Over every credential, account and plan a frame is tried on, at most one of
\* its sends is one that the provider ran or may still run.
THEOREM FrameRunsOnce == Spec => []RunsOnce
<1>1. IndInv => RunsOnce
    BY Given DEF RunsOnce, SocketOK
<1> QED
    BY <1>1, BrokerInvariant, PTL

\* A broker that is through with a frame it sent has drained the request, and
\* has put it in doubt unless the provider answered.
THEOREM SentRequestIsSettled == Spec => []SentIsSettled
<1>1. IndInv => SentIsSettled
    BY DEF IndInv, SentIsSettled, Settled, InFrame, Bound
<1> QED
    BY <1>1, BrokerInvariant, PTL

\* The reservation a broker believes it holds is the lane's, and in the state
\* it believes.
THEOREM PrewarmIsHeld == Spec => []WarmIsHeld
<1>1. IndInv => WarmIsHeld
    BY DEF IndInv
<1> QED
    BY <1>1, BrokerInvariant, PTL

LaneExclusive ==
    \A b, c \in Brokers : sock[b].at \in Bound /\ sock[c].at \in Bound => b = c

\* At most one broker has a request on the lane between its plan and its end:
\* a session that took over from another never sends beside it.
THEOREM LaneIsExclusive == Spec => []LaneExclusive
<1>1. IndInv => LaneExclusive
    BY DEF IndInv, LaneExclusive
<1> QED
    BY <1>1, BrokerInvariant, PTL

-----------------------------------------------------------------------------
(* The lane of LaneRequest.                                                *)

\* The lease as LaneRequest sees it.
User == IF lease.refs = {} THEN None ELSE lease.owner
Call == CallOf(lease.fate)
Judged == Verdict(lease.attempt)

\* The steps of LaneRequest, of the lease.
LaneStep == [Lane!Next]_(Lane!vars)

\* The lease stays, or what LaneRequest sees of it does.
LEMMA SameLane ==
    ASSUME User' = User, Call' = Call, Judged' = Judged
    PROVE  LaneStep
BY DEF LaneStep, Lane!vars, User, Call, Judged

\* How fates and attempts appear.
LEMMA Views ==
    /\ CallOf("unsent") = "none" /\ CallOf("sent") = "open"
    /\ CallOf("refused") = "refused" /\ CallOf("ended") = "answered"
    /\ Verdict("indeterminate") = "doubt"
    /\ \A a \in Terminal \ {"indeterminate"} : Verdict(a) = "settled"
    /\ \A a : a \notin Terminal => Verdict(a) = "none"
BY DEF CallOf, Verdict, Terminal

\* A request begins on a free lane.
LEMMA BeginLane ==
    ASSUME NEW b \in Brokers, LaneFree, lease'.owner = b, lease'.refs # {},
           lease'.fate = "unsent", lease'.attempt = "prepared"
    PROVE  LaneStep
<1>1. Lane!Begin(b)
    BY Views DEF Lane!Begin, LaneFree, Terminal
<1> QED
    BY <1>1 DEF LaneStep, Lane!Next

\* The broker that has the lane: it is the user, and nothing is on record yet.
LEMMA UserIs ==
    ASSUME NEW b \in Brokers, lease.owner = b, lease.refs # {}
    PROVE  User = b /\ User # None
BY EnvironmentAssumption DEF User

\* Another attempt of the same request, which was not sent or was refused.
LEMMA RetryLane ==
    ASSUME NEW b \in Brokers, lease.owner = b, lease.refs # {},
           lease.attempt \notin Terminal, lease.fate \in {"unsent", "refused"},
           lease'.owner = b, lease'.refs # {},
           lease'.attempt \notin Terminal, lease'.fate = "unsent"
    PROVE  LaneStep
<1>1. /\ User' = User /\ User # None
      /\ Judged = "none" /\ Judged' = "none" /\ Call' = "none"
    BY UserIs, Views DEF User, Judged, Call
<1>2. CASE lease.fate = "unsent"
    BY <1>1, <1>2, SameLane, Views DEF Call
<1>3. CASE lease.fate = "refused"
  <2>1. Lane!Retry
      BY <1>1, <1>3, Views DEF Lane!Retry, User, Judged, Call
  <2> QED
      BY <2>1 DEF LaneStep, Lane!Next
<1> QED
    BY <1>2, <1>3

\* The request ends; an answer may come in with it.
LEMMA ConcludeLane ==
    ASSUME NEW b \in Brokers, lease.owner = b, lease.refs # {},
           lease.attempt \notin Terminal, lease'.attempt \in Terminal,
           lease'.owner = b,
           \/ lease'.fate = lease.fate
           \/ lease.fate = "sent" /\ lease'.fate \in {"refused", "ended"},
           lease.fate \in {"unsent", "sent", "refused", "ended"},
           lease'.fate = "sent" => lease'.attempt = "indeterminate"
    PROVE  LaneStep
<1>1. User # None /\ User' \in {User, None} /\ Judged = "none"
    BY UserIs, Views DEF User, Judged
<1>2. Call' = Call \/ (Call = "open" /\ Call' \in {"refused", "answered"})
    BY Views DEF Call
<1>3. Judged' \in (IF Call' = "open" THEN {"doubt"} ELSE {"doubt", "settled"})
  <2>1. CASE lease'.fate = "sent"
      BY <2>1, Views DEF Call, Judged
  <2>2. CASE lease'.fate \in {"unsent", "refused", "ended"}
      BY <2>2, Views DEF Call, Judged
  <2> QED
      BY <2>1, <2>2
<1>4. Lane!Conclude
    BY <1>1, <1>2, <1>3 DEF Lane!Conclude, User, Call, Judged
<1> QED
    BY <1>4 DEF LaneStep, Lane!Next

\* A request that has ended lets go.
LEMMA ReleaseLane ==
    ASSUME NEW b \in Brokers, lease.owner = b, lease.refs # {}, lease.attempt \in Terminal,
           lease'.refs = {}, lease'.attempt = lease.attempt, lease'.fate = lease.fate
    PROVE  LaneStep
<1>1. User # None /\ User' = None /\ Judged # "none" /\ Judged' = Judged /\ Call' = Call
    BY UserIs, Views DEF User, Judged, Call
<1>2. Lane!Release
    BY <1>1 DEF Lane!Release, User, Judged, Call
<1> QED
    BY <1>2 DEF LaneStep, Lane!Next

-----------------------------------------------------------------------------
(* The lane in the steps of a broker.                                      *)

\* The lane of a broker between its plan and its end.
LEMMA BoundLane ==
    ASSUME IndInv, NEW b \in Brokers, sock[b].at \in Bound
    PROVE  /\ lease.owner = b /\ lease.refs # {} /\ Held(sock[b].at, lease)
           /\ lease.fate \in {"unsent", "sent", "refused", "ended"}
           /\ sock[b].at # "relaying" => lease.attempt \notin Terminal
BY HeldBy DEF Held, Bound, Terminal

\* cleanupAfterBrokerExit.
LEMMA CleanupLane ==
    ASSUME IndInv, NEW b \in Brokers, Cleanup(b), sock[b].at \in Bound \ {"account", "connect"}
    PROVE  LaneStep
<1>1. /\ lease'.owner = b /\ lease'.refs = {} /\ lease'.fate = lease.fate
      /\ lease'.attempt = IF lease.attempt \in {"dispatched", "streaming"}
                          THEN "indeterminate" ELSE lease.attempt
    BY Types DEF Cleanup, Commit, Lease
<1>2. CASE sock[b].at = "relaying"
    BY <1>1, <1>2, BoundLane, ReleaseLane DEF Held, Terminal
<1>3. CASE sock[b].at # "relaying"
  <2>1. lease'.attempt = "indeterminate"
      BY <1>1, <1>3, BoundLane DEF Held, Bound
  <2> QED
      BY <1>1, <1>3, <2>1, BoundLane, ConcludeLane DEF Terminal
<1> QED
    BY <1>2, <1>3

\* AbandonBeforeDispatch, with a handle that may be stale.
LEMMA AbandonLane ==
    ASSUME IndInv, NEW b \in Brokers, Abandon(b), sock[b].at \in {"account", "connect"}
    PROVE  LaneStep
<1>1. sock[b].at \in Bound
    BY DEF Bound
<1>2. CASE sock[b].stale
    BY <1>2, SameLane DEF Abandon, User, Call, Judged
<1>3. CASE ~sock[b].stale
  <2>1. /\ lease'.owner = b /\ lease'.fate = lease.fate /\ lease'.attempt = "abandoned"
      BY <1>3, Types DEF Abandon, Commit, Lease
  <2>2. lease.fate = "unsent"
      BY <1>1, BoundLane DEF Held
  <2> QED
      BY <1>1, <2>1, <2>2, BoundLane, ConcludeLane DEF Terminal
<1> QED
    BY <1>2, <1>3

\* The end of a request without a send that is open.
LEMMA EndLane ==
    ASSUME IndInv, NEW b \in Brokers, sock[b].at \in GivesUp,
           NEW attempt \in Terminal, NEW refs, Commit(b, attempt, refs, lease.fate)
    PROVE  LaneStep
<1>1. sock[b].at \in Bound /\ sock[b].at # "relaying"
    BY DEF GivesUp, Bound
<1>2. lease'.owner = b /\ lease'.fate = lease.fate /\ lease'.attempt = attempt
    BY Types DEF Commit, Lease
<1>3. lease.fate # "sent"
    BY <1>1, BoundLane DEF GivesUp, Held
<1> QED
    BY <1>1, <1>2, <1>3, BoundLane, ConcludeLane

\* The next slot of the plan.
LEMMA PrepareLane ==
    ASSUME IndInv, NEW b \in Brokers, sock[b].at \in GivesUp, Prepare(b)
    PROVE  LaneStep
<1>1. sock[b].at \in Bound /\ sock[b].at # "relaying"
    BY DEF GivesUp, Bound
<1>2. /\ lease'.owner = b /\ lease'.fate = "unsent" /\ lease'.attempt = "prepared"
      /\ lease'.refs = {"routing"}
    BY Types DEF Prepare, Commit, Lease
<1>3. lease.fate \in {"unsent", "refused"}
    BY <1>1, BoundLane DEF GivesUp, Held
<1> QED
    BY <1>1, <1>2, <1>3, BoundLane, RetryLane DEF Terminal

\* The account is recorded as unavailable.
LEMMA UnavailableLane ==
    ASSUME IndInv, NEW b \in Brokers, sock[b].at \in GivesUp, RecordUnavailable(b)
    PROVE  LaneStep
BY PrepareLane, EndLane DEF RecordUnavailable, Terminal

\* An attempt that is not sent yet is marked or admitted.
LEMMA MarkLane ==
    ASSUME IndInv, NEW b \in Brokers, sock[b].at \in Bound, sock[b].at # "relaying",
           lease'.owner = lease.owner, lease'.refs # {}, lease'.fate = lease.fate,
           lease'.attempt \notin Terminal
    PROVE  LaneStep
BY BoundLane, SameLane, Views DEF User, Call, Judged

-----------------------------------------------------------------------------
(* One lemma for the actions of a kind.                                    *)

\* Planning: a plan begins a request, and what fails leaves the lane alone.
LEMMA PlanLane ==
    ASSUME IndInv, NEW b \in Brokers,
           \/ \E p \in env.plans : Build(b, p) \/ Adopt(b, p)
           \/ PlanRefused(b) \/ PlanFails(b) \/ IdleClosedPlanned(b)
    PROVE  LaneStep
<1>1. ASSUME NEW p \in env.plans, Build(b, p) \/ Adopt(b, p) PROVE LaneStep
  <2>1. LaneFree /\ \E s : Begun(b, p, s)
      BY <1>1 DEF Build, Adopt
  <2>2. /\ lease'.owner = b /\ lease'.refs = {"routing"} /\ lease'.attempt = "prepared"
        /\ lease'.fate = "unsent"
      BY <2>1 DEF Begun
  <2> QED
      BY <2>1, <2>2, BeginLane
<1>2. CASE PlanRefused(b) \/ PlanFails(b)
    BY <1>2, SameLane DEF PlanRefused, PlanFails, User, Call, Judged
<1>3. CASE IdleClosedPlanned(b)
  <2>1. CASE Portable(b)
      BY <1>3, <2>1, SameLane DEF IdleClosedPlanned, User, Call, Judged
  <2>2. CASE ~Portable(b)
      BY <1>3, <2>2, AbandonLane DEF IdleClosedPlanned, At
  <2> QED
      BY <2>1, <2>2
<1> QED
    BY <1>1, <1>2, <1>3

\* An account without a credential, or protected by a reserve.
LEMMA AccountLane ==
    ASSUME IndInv, NEW b \in Brokers, PrepareAccount(b) \/ PrepareFails(b) \/ ReserveLimit(b)
    PROVE  LaneStep
<1>1. CASE PrepareAccount(b)
    BY <1>1, SameLane DEF PrepareAccount, User, Call, Judged
<1>2. CASE PrepareFails(b)
  <2>1. CASE ~Alive(b)
      BY <1>2, <2>1, SameLane DEF PrepareFails, User, Call, Judged
  <2>2. CASE Alive(b)
      BY <1>2, <2>2, UnavailableLane DEF PrepareFails, At, GivesUp
  <2> QED
      BY <2>1, <2>2
<1>3. CASE ReserveLimit(b)
  <2> DEFINE marked == At(b, "dialing")
  <2>1. /\ sock[b].at \in GivesUp
        /\ marked => sock[b].at = "dialing" /\ sock[b].at \in Bound
        /\ ~marked => sock[b].at = "connect"
      BY <1>3 DEF ReserveLimit, At, GivesUp, Bound
  <2>2. \/ marked /\ Cleanup(b)
        \/ ~marked /\ Abandon(b)
        \/ Commit(b, "failed", {}, lease.fate)
        \/ UNCHANGED lease
        \/ RecordUnavailable(b)
      BY <1>3 DEF ReserveLimit
  <2>3. CASE marked /\ Cleanup(b)
      BY <2>1, <2>3, CleanupLane
  <2>4. CASE ~marked /\ Abandon(b)
      BY <2>1, <2>4, AbandonLane
  <2>5. CASE Commit(b, "failed", {}, lease.fate)
      BY <2>1, <2>5, EndLane DEF Terminal
  <2>6. CASE UNCHANGED lease
      BY <2>6, SameLane DEF User, Call, Judged
  <2>7. CASE RecordUnavailable(b)
      BY <2>1, <2>7, UnavailableLane
  <2> QED
      BY <2>2, <2>3, <2>4, <2>5, <2>6, <2>7
<1> QED
    BY <1>1, <1>2, <1>3

\* connect, up to the open socket.
LEMMA ConnectLane ==
    ASSUME IndInv, NEW b \in Brokers,
           \/ Reuse(b) \/ MarkDispatched(b) \/ MarkFails(b) \/ Dialled(b) \/ DialFails(b)
           \/ \E refusal \in Refusals : DialRefused(b, refusal)
    PROVE  LaneStep
<1>1. CASE Reuse(b) \/ MarkDispatched(b)
  <2>1. /\ sock[b].at = "connect" /\ sock[b].at \in Bound
        /\ Commit(b, "dispatched", {"routing"}, "unsent")
      BY <1>1 DEF Reuse, MarkDispatched, At, Bound
  <2>2. /\ lease'.owner = b /\ lease'.fate = "unsent" /\ lease'.attempt = "dispatched"
        /\ lease'.refs = {"routing"}
      BY <2>1, Types DEF Commit, Lease
  <2>3. lease.owner = b /\ lease.fate = "unsent"
      BY <2>1, BoundLane DEF Held
  <2> QED
      BY <2>1, <2>2, <2>3, MarkLane DEF Terminal
<1>2. CASE MarkFails(b)
    BY <1>2, AbandonLane DEF MarkFails, At
<1>3. CASE DialFails(b)
    BY <1>3, CleanupLane DEF DialFails, At, Bound
<1>4. CASE Dialled(b) \/ \E refusal \in Refusals : DialRefused(b, refusal)
    BY <1>4, SameLane DEF Dialled, DialRefused, User, Call, Judged
<1> QED
    BY <1>1, <1>2, <1>3, <1>4

\* A refused handshake.
LEMMA HandshakeLane ==
    ASSUME IndInv, NEW b \in Brokers,
           RefreshRefused(b) \/ RejectAndPrepare(b) \/ FinishHandshakeFailure(b)
    PROVE  LaneStep
<1>1. CASE RefreshRefused(b)
    BY <1>1, SameLane DEF RefreshRefused, User, Call, Judged
<1>2. CASE RejectAndPrepare(b)
    BY <1>2, PrepareLane DEF RejectAndPrepare, At, GivesUp
<1>3. CASE FinishHandshakeFailure(b)
  <2>1. sock[b].at \in GivesUp /\ sock[b].at \in Bound \ {"account", "connect"}
      BY <1>3 DEF FinishHandshakeFailure, ConnectRefused, At, GivesUp, Bound
  <2>2. \/ Commit(b, "failed", {}, lease.fate)
        \/ Cleanup(b)
        \/ RecordUnavailable(b)
      BY <1>3 DEF FinishHandshakeFailure
  <2> QED
      BY <2>1, <2>2, EndLane, CleanupLane, UnavailableLane DEF Terminal
<1> QED
    BY <1>1, <1>2, <1>3

\* The request is sent and admitted, or is in doubt.
LEMMA SendLane ==
    ASSUME IndInv, NEW b \in Brokers,
           Send(b) \/ SendFails(b) \/ Admit(b) \/ ReadFails(b) \/ RelayFails(b)
    PROVE  LaneStep
<1>1. CASE Send(b)
  <2>1. /\ lease'.owner = lease.owner /\ lease'.fate = "sent"
        /\ lease'.attempt = lease.attempt /\ lease'.refs = lease.refs
      BY <1>1, Types DEF Send, Lease
  <2>2. sock[b].at = "upgraded" /\ sock[b].at \in Bound
      BY <1>1 DEF Send, At, Bound
  <2>3. /\ lease.owner = b /\ lease.refs # {} /\ lease.fate = "unsent"
        /\ lease.attempt \notin Terminal
      BY <2>2, BoundLane DEF Held
  <2>4. /\ User # None /\ User' = User /\ Judged = "none" /\ Judged' = "none"
        /\ Call = "none" /\ Call' = "open"
      BY <2>1, <2>3, UserIs, Views DEF User, Judged, Call
  <2>5. Lane!Send
      BY <2>4 DEF Lane!Send, User, Judged, Call
  <2> QED
      BY <2>5 DEF LaneStep, Lane!Next
<1>2. CASE Admit(b)
  <2>1. /\ sock[b].at \in Bound \ {"account", "connect"} /\ sock[b].at # "relaying"
      BY <1>2 DEF Admit, At, Bound
  <2>2. CASE Alive(b)
    <3>1. lease' = [lease EXCEPT !.attempt = "streaming", !.refs = Refs, !.ever = TRUE]
        BY <1>2, <2>2 DEF Admit
    <3>2. /\ lease'.owner = lease.owner /\ lease'.fate = lease.fate
          /\ lease'.attempt = "streaming" /\ lease'.refs = Refs
        BY <3>1, Types DEF Lease
    <3> QED
        BY <2>1, <3>2, MarkLane DEF Refs, Terminal
  <2>3. CASE ~Alive(b)
      BY <1>2, <2>1, <2>3, CleanupLane DEF Admit, Doubt
  <2> QED
      BY <2>2, <2>3
<1>3. CASE SendFails(b) \/ ReadFails(b) \/ RelayFails(b)
    BY <1>3, CleanupLane DEF SendFails, ReadFails, RelayFails, Doubt, At, Bound
<1> QED
    BY <1>1, <1>2, <1>3

\* The provider's answer, and the end of its relay.
LEMMA AnswerLane ==
    ASSUME IndInv, NEW b \in Brokers,
           \/ TooBig(b) \/ EndsUnavailable(b) \/ Relay(b)
           \/ \E attempt \in {"completed", "failed"} : Ends(b, attempt)
           \/ \E refusal \in Refusals : Refuse(b, refusal)
    PROVE  LaneStep
<1>1. ASSUME NEW attempt \in {"failed", "unavailable", "completed"},
             NEW fate \in {"refused", "ended"}, NEW refs,
             At(b, "reading"), Commit(b, attempt, refs, fate)
      PROVE  LaneStep
  <2>1. lease'.owner = b /\ lease'.fate = fate /\ lease'.attempt = attempt
      BY <1>1, Types DEF Commit, Lease
  <2>2. sock[b].at = "reading" /\ sock[b].at \in Bound
      BY <1>1 DEF At, Bound
  <2>3. lease.fate = "sent"
      BY <2>2, BoundLane DEF Held
  <2> QED
      BY <2>1, <2>2, <2>3, BoundLane, ConcludeLane DEF Terminal
<1>2. CASE TooBig(b)
    BY <1>1, <1>2 DEF TooBig
<1>3. CASE EndsUnavailable(b)
  <2>1. CASE Alive(b)
      BY <1>1, <1>3, <2>1 DEF EndsUnavailable
  <2>2. CASE ~Alive(b)
      BY <1>3, <2>2, CleanupLane DEF EndsUnavailable, Doubt, At, Bound
  <2> QED
      BY <2>1, <2>2
<1>4. ASSUME NEW attempt \in {"completed", "failed"}, Ends(b, attempt)
      PROVE  LaneStep
    BY <1>1, <1>4 DEF Ends
<1>5. CASE Relay(b)
  <2>1. sock[b].at = "relaying" /\ sock[b].at \in Bound
      BY <1>5 DEF Relay, At, Bound
  <2>2. lease'.refs = {} /\ lease'.fate = lease.fate /\ lease'.attempt = lease.attempt
      BY <1>5, Types DEF Relay, Commit, Lease
  <2>3. lease.owner = b /\ lease.refs # {} /\ lease.attempt \in Terminal
      BY <2>1, BoundLane DEF Held, Terminal
  <2> QED
      BY <2>2, <2>3, ReleaseLane
<1>6. ASSUME NEW refusal \in Refusals, Refuse(b, refusal)
      PROVE  LaneStep
  <2>1. sock[b].at = "reading" /\ sock[b].at \in Bound
      BY <1>6 DEF Refuse, At, Bound
  <2>2. /\ lease'.owner = lease.owner /\ lease'.fate = "refused"
        /\ lease'.attempt = lease.attempt /\ lease'.refs = lease.refs
      BY <1>6, Types DEF Refuse, Lease
  <2>3. lease.fate = "sent"
      BY <2>1, BoundLane DEF Held
  <2>4. /\ User' = User /\ Judged' = Judged /\ Call = "open" /\ Call' = "refused"
      BY <2>2, <2>3, Views DEF User, Judged, Call
  <2>5. Lane!Decide
      BY <2>4 DEF Lane!Decide, User, Judged, Call
  <2> QED
      BY <2>5 DEF LaneStep, Lane!Next
<1> QED
    BY <1>2, <1>3, <1>4, <1>5, <1>6

\* After a refusal: another credential, another account, or the end.
LEMMA RefusedLane ==
    ASSUME IndInv, NEW b \in Brokers, AuthRetry(b) \/ FinishRefused(b)
    PROVE  LaneStep
<1>1. /\ sock[b].at = "answered" /\ sock[b].at \in GivesUp
      /\ sock[b].at \in Bound \ {"account", "connect"}
    BY DEF AuthRetry, FinishRefused, At, GivesUp, Bound
<1>2. lease.fate = "refused"
    BY <1>1, BoundLane DEF Held
<1>3. \/ Prepare(b) \/ Cleanup(b) \/ RecordUnavailable(b)
      \/ Commit(b, "failed", {}, "refused")
    BY DEF AuthRetry, FinishRefused, Doubt
<1> QED
    BY <1>1, <1>2, <1>3, PrepareLane, CleanupLane, UnavailableLane, EndLane DEF Terminal

\* Sessions, the gate and prewarms leave the request alone.
LEMMA OtherLane ==
    ASSUME NEW b \in Brokers,
           \/ Pause \/ Resume \/ Serve(b) \/ ClientGoes(b) \/ SessionEnds(b)
           \/ IdleClosed(b) \/ Redistribute(b) \/ StartRequest(b)
           \/ \E kind \in env.kinds : Accept(b, kind)
           \/ \E p \in env.plans : StartPrewarm(b, p)
           \/ PrewarmFails(b) \/ WarmSend(b) \/ WarmFails(b) \/ WarmTimesOut(b)
           \/ \E refusal \in Refusals : WarmRefused(b, refusal)
           \/ WarmBound(b) \/ WarmReady(b)
    PROVE  LaneStep
<1>1. lease' = lease
    BY DEF Pause, Resume, Serve, ClientGoes, SessionEnds, IdleClosed, Redistribute,
           StartRequest, Accept, StartPrewarm, PrewarmFails, WarmSend, WarmFails,
           WarmTimesOut, WarmRefused, WarmBound, WarmReady
<1> QED
    BY <1>1, SameLane DEF User, Call, Judged

\* Every step of the brokers is one of LaneRequest, or none.
LEMMA NextLane == IndInv /\ [Next]_vars => LaneStep
<1> SUFFICES ASSUME IndInv, [Next]_vars PROVE LaneStep
    OBVIOUS
<1>1. CASE UNCHANGED vars
    BY <1>1, SameLane DEF vars, User, Call, Judged
<1>2. CASE Pause \/ Resume
  <2>1. lease' = lease
      BY <1>2 DEF Pause, Resume
  <2> QED
      BY <2>1, SameLane DEF User, Call, Judged
<1>3. ASSUME NEW b \in Brokers, Step(b) PROVE LaneStep
    BY <1>3, OtherLane, PlanLane, AccountLane, ConnectLane, HandshakeLane, SendLane,
       AnswerLane, RefusedLane DEF Step
<1>4. ASSUME NEW b \in Brokers, Answer(b) PROVE LaneStep
    BY <1>4, OtherLane, ConnectLane, SendLane, AnswerLane DEF Answer
<1>5. ASSUME NEW b \in Brokers, Serve(b) \/ ClientGoes(b) PROVE LaneStep
    BY <1>5, OtherLane
<1>6. ASSUME NEW b \in Brokers, NEW kind \in env.kinds, Accept(b, kind) PROVE LaneStep
    BY <1>6, OtherLane
<1> QED
    BY <1>1, <1>2, <1>3, <1>4, <1>5, <1>6 DEF Next

\* The brokers keep LaneRequest's promise to each other and to the client: a request
\* is sent again only after a refusal, ends in doubt unless the provider has answered
\* or was never asked, and lets go of the lane only then.
THEOREM BrokersImplementLane == Spec => ImplementsLaneRequest
<1>1. Init => Lane!Init
    BY Views DEF Init, Lane!Init, Terminal
<1>2. IndInv /\ [Next]_vars => [Lane!Next]_(Lane!vars)
    BY NextLane DEF LaneStep
<1> QED
    BY <1>1, <1>2, BrokerInvariant, PTL DEF Spec, ImplementsLaneRequest, Lane!Spec
=============================================================================
