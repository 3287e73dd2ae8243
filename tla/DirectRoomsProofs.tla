------------------------- MODULE DirectRoomsProofs --------------------------
(***************************************************************************)
(* Theorems about DirectRooms, for any users, calls, overlaps, failures    *)
(* and changes of status.                                                  *)
(***************************************************************************)
EXTENDS DirectRooms, TLAPS

-----------------------------------------------------------------------------
(* What a call has established at each of its points.                      *)

Opening(r) == op[r].kind = "open"
Leaving(r) == op[r].kind = "leave"

\* An open that got past its check is about two users, who were once ACTIVE together; it counts
\* on a room from the conflict on, and has founded none until it is in.
OpenPoint(r) ==
  /\ pc[r] \in {"check", "find", "create", "winner", "revive", "view"} => Opening(r)
  /\ pc[r] \in {"find", "create", "winner", "revive", "view"} => Key(r) \in Keys
  /\ pc[r] \in {"find", "create", "winner", "revive"} => r \in vetted
  /\ pc[r] \in {"winner", "revive", "view"} => Exists(Key(r))

\* A removal that got past the guard has a room, and one past Target is a leave.
LeavePoint(r) ==
  /\ pc[r] \in {"guard", "target", "out", "audience"} => ~Opening(r)
  /\ pc[r] \in {"target", "out", "audience"} => Exists(Key(r))
  /\ pc[r] \in {"out", "audience"} => Leaving(r)

\* What both tell is told of a room, by its founder or by the one who left.
TellPoint(r) ==
  /\ pc[r] \in {"event", "emit"} => Exists(Key(r)) /\ (r \in creates \/ Leaving(r))
  /\ pc[r] = "answer" => Exists(Key(r)) /\ (Opening(r) \/ Leaving(r))

\* A founder is an open that is in, whose room stays.
FounderPoint(r) ==
  r \in creates => /\ Opening(r) /\ Exists(Key(r))
                   /\ pc[r] \in {"view", "event", "emit", "answer", "done"}

\* The history keeps every call at work whose two users are ACTIVE now.
VettedPoint(r) == r \in InFlight /\ BothActive(r) => r \in vetted

CallOK(r) ==
  OpenPoint(r) /\ LeavePoint(r) /\ TellPoint(r) /\ FounderPoint(r) /\ VettedPoint(r)

DirectInv == TypeOK /\ \A r \in Requests : CallOK(r)

\* The members of a room were told of it as RoomIsSeen says.
Seen(k) ==
  /\ \A u \in k \ inside[k] : u \notin shown[k][u]
  /\ \E u \in k : inside[k] # {} => u \in inside[k] /\ shown[k][u] = inside[k]

\* r has let both in, and has not told it yet.
Entering(r) ==
  /\ Opening(r)
  /\ pc[r] \in {"view", "event", "emit", "answer"}
  /\ inside[Key(r)] = Key(r)
  /\ pc[r] # "view" => reply[r] = Key(r)
  /\ pc[r] \in {"event", "emit"} => audience[r] = Key(r)
  /\ pc[r] = "emit" => event[r] = Key(r)

\* r has left, and has not told it yet.
Parting(r) ==
  /\ Leaving(r)
  /\ pc[r] \in {"audience", "event", "emit"}
  /\ op[r].actor \notin inside[Key(r)]
  /\ \A u \in Key(r) \ inside[Key(r)] : u # op[r].actor => u \notin shown[Key(r)][u]
  /\ pc[r] \in {"event", "emit"} => audience[r] = Recipients(r)
  /\ pc[r] = "emit" => event[r] = inside[Key(r)]

UnsettledPoint(r) ==
  \/ Opening(r) /\ pc[r] \in {"view", "event", "emit", "answer"}
  \/ Leaving(r) /\ pc[r] \in {"audience", "event", "emit"}
Underway(r) == Entering(r) \/ Parting(r)

\* While the calls come one after the other: one at most is at work, and every room was seen or
\* is the one this call is about to tell of.
OneAtWork == \A r, q \in InFlight : r = q
TellsItAll == \A r \in Requests : UnsettledPoint(r) => Underway(r)
SeenOrUnsettled ==
  \A k \in Keys : Exists(k) => Seen(k) \/ \E r \in InFlight : Key(r) = k /\ UnsettledPoint(r)
SeenInv == Undisturbed => OneAtWork /\ TellsItAll /\ SeenOrUnsettled

-----------------------------------------------------------------------------
(* Keys.                                                                   *)

LEMMA KeyFacts ==
  ASSUME TypeOK, NEW r \in Requests
  PROVE  /\ op[r] \in [kind : Kinds, actor : Users, other : Users]
         /\ op[r].kind \in Kinds /\ op[r].actor \in Users /\ op[r].other \in Users
         /\ op[r].actor \in Key(r) /\ Key(r) \subseteq Users
         /\ op[r].actor # op[r].other => Key(r) \in Keys
<1>1. op[r] \in [kind : Kinds, actor : Users, other : Users]
  BY DEF TypeOK
<1>2. op[r].kind \in Kinds /\ op[r].actor \in Users /\ op[r].other \in Users
  BY <1>1
<1>3. op[r].actor \in Key(r) /\ Key(r) \subseteq Users
  BY <1>2 DEF Key, DirectKey
<1>4. ASSUME op[r].actor # op[r].other PROVE Key(r) \in Keys
  BY <1>2, <1>4 DEF Key, DirectKey, Keys
<1> QED
  BY <1>1, <1>2, <1>3, <1>4

LEMMA RoomFacts ==
  ASSUME TypeOK, NEW k \in Keys
  PROVE  /\ k \subseteq Users /\ k # {}
         /\ inside[k] \subseteq k /\ inside[k] \subseteq Users
         /\ createdBy[k] \in Users \cup {Nobody}
<1>1. PICK a \in Users, b \in Users : k = {a, b}
  BY DEF Keys, DirectKey
<1>2. k \subseteq Users /\ k # {}
  BY <1>1
<1>3. inside[k] \subseteq k /\ createdBy[k] \in Users \cup {Nobody}
  BY DEF TypeOK
<1> QED
  BY <1>2, <1>3

\* A room stays once it is there: nothing takes its createdBy away.
LEMMA RoomsStay ==
  ASSUME TypeOK, NEW r \in Requests, [Next]_vars, NEW k, Exists(k)
  PROVE  Exists(k)'
<1>1. ASSUME NEW q \in Requests, Create(q) PROVE Exists(k)'
  <2>1. op[q].actor \in Users
    BY KeyFacts
  <2>2. createdBy' = createdBy \/ createdBy' = [createdBy EXCEPT ![Key(q)] = op[q].actor]
    BY <1>1 DEF Create, rooms
  <2> QED
    BY <2>1, <2>2, DirectAssumption DEF Exists, TypeOK
<1>2. CASE UNCHANGED createdBy
  BY <1>2 DEF Exists
<1>3. createdBy' = createdBy \/ \E q \in Requests : Create(q)
  BY DEF Next, Step, vars, rooms, Arrive, Check, Find, Winner, Reactivate, ReadView, Guard, Target,
     Out, ReadAudience, ReadEvent, Emit, Answer, Fail, SetStatus, Finished, Refuse, Answered
<1> QED
  BY <1>1, <1>2, <1>3

-----------------------------------------------------------------------------
(* What every step keeps.                                                  *)

\* A call that does not step keeps what it has established.
LEMMA OthersKeep ==
  ASSUME NEW q \in Requests, CallOK(q),
         pc'[q] = pc[q], op'[q] = op[q], q \in creates' <=> q \in creates,
         Exists(Key(q)) => Exists(Key(q))',
         vetted \subseteq vetted', registered' = registered
  PROVE  CallOK(q)'
<1>1. Key(q)' = Key(q) /\ Keys' = Keys
  BY DEF Key, DirectKey, Keys
<1>2. OpenPoint(q)'
  BY <1>1 DEF CallOK, OpenPoint, Opening
<1>3. LeavePoint(q)'
  BY <1>1 DEF CallOK, LeavePoint, Opening, Leaving
<1>4. TellPoint(q)'
  BY <1>1 DEF CallOK, TellPoint, Opening, Leaving
<1>5. FounderPoint(q)'
  BY <1>1 DEF CallOK, FounderPoint, Opening
<1>6. VettedPoint(q)'
  BY DEF CallOK, VettedPoint, BothActive, InFlight
<1> QED
  BY <1>2, <1>3, <1>4, <1>5, <1>6 DEF CallOK

-----------------------------------------------------------------------------
(* The inductive invariant.                                                *)

\* A step of r alone, which takes nothing out of the table of rooms, keeps the invariant when
\* the types and what r itself has established are kept.
LEMMA StepKeeps ==
  ASSUME DirectInv, NEW r \in Requests, [Next]_vars,
         NEW p, pc' = [pc EXCEPT ![r] = p],
         \A q \in Requests : q # r => op'[q] = op[q] /\ (q \in creates' <=> q \in creates),
         vetted \subseteq vetted', registered' = registered,
         TypeOK', CallOK(r)'
  PROVE  DirectInv'
<1>1. ASSUME NEW q \in Requests, q # r PROVE CallOK(q)'
  <2>1. pc'[q] = pc[q]
    BY <1>1 DEF DirectInv, TypeOK
  <2>2. Exists(Key(q)) => Exists(Key(q))'
    <3>1. Key(q)' = Key(q)
      BY <1>1 DEF Key, DirectKey
    <3>2. \A k : Exists(k) => Exists(k)'
      BY RoomsStay DEF DirectInv
    <3> QED
      BY <3>1, <3>2 DEF Exists, Keys
  <2> QED
    BY <1>1, <2>1, <2>2, OthersKeep DEF DirectInv
<1> QED
  BY <1>1 DEF DirectInv

LEMMA InvInit == Init => DirectInv
<1> SUFFICES ASSUME Init PROVE DirectInv
  OBVIOUS
<1>1. PICK v \in Users : op = [r \in Requests |-> [kind |-> "open", actor |-> v, other |-> v]]
  BY DEF Init
<1>2. TypeOK
  BY <1>1, DirectAssumption DEF Init, TypeOK, Kinds, Points
<1>3. ASSUME NEW r \in Requests PROVE CallOK(r)
  BY <1>3 DEF Init, CallOK, OpenPoint, LeavePoint, TellPoint, FounderPoint, VettedPoint, InFlight
<1> QED
  BY <1>2, <1>3 DEF DirectInv

\* An answer of any kind: the call has nothing left to do.
LEMMA AnsweredKeeps ==
  ASSUME DirectInv, [Next]_vars, NEW r \in InFlight, NEW o \in {"ok", "refused", "failed"},
         Answered(r, o), shown' \in [Keys -> [Users -> SUBSET Users]],
         failures' \in 0..MaxFailures
  PROVE  DirectInv'
<1>1. r \in Requests
  BY DEF InFlight
<1>2. TypeOK'
  BY <1>1 DEF Answered, DirectInv, TypeOK, Go, rooms, history, Points, Exists, Key, DirectKey
<1>3. Exists(Key(r)) => Exists(Key(r))'
  BY DEF Answered, Exists, rooms, Key, DirectKey
<1>4. CallOK(r)'
  BY <1>1, <1>3 DEF Answered, Go, DirectInv, TypeOK, CallOK, OpenPoint, LeavePoint, TellPoint,
     FounderPoint, VettedPoint, InFlight, Opening
<1> QED
  BY <1>1, <1>2, <1>4, StepKeeps DEF Answered, Go, history

LEMMA InvArrive ==
  ASSUME DirectInv, [Next]_vars, NEW r \in Requests, Arrive(r)
  PROVE  DirectInv'
<1> USE DEF Arrive, rooms, local
<1>1. PICK k \in Kinds, a \in Users, b \in Users :
        /\ op' = [op EXCEPT ![r] = [kind |-> k, actor |-> a, other |-> b]]
        /\ Go(r, IF k = "open" THEN "check" ELSE "guard")
        /\ vetted' = IF {a, b} \subseteq registered THEN vetted \cup {r} ELSE vetted
  OBVIOUS
<1>2. PICK p \in {"check", "guard"} :
        pc' = [pc EXCEPT ![r] = p] /\ (p = "check" <=> k = "open")
  BY <1>1 DEF Go
<1>3. /\ pc'[r] = p /\ op'[r] = [kind |-> k, actor |-> a, other |-> b]
      /\ \A q \in Requests : q # r => op'[q] = op[q]
  BY <1>1, <1>2 DEF DirectInv, TypeOK
<1>4. r \notin creates
  BY DEF DirectInv, CallOK, FounderPoint
<1>5. TypeOK'
  <2>1. \A q, s \in creates' : Key(q)' = Key(s)' => q = s
    <3>1. \A q \in creates : q # r /\ op'[q] = op[q]
      BY <1>3, <1>4 DEF DirectInv, TypeOK
    <3>2. \A q \in creates : Key(q)' = Key(q)
      BY <3>1 DEF Key, DirectKey
    <3> QED
      BY <3>2 DEF DirectInv, TypeOK
  <2>2. \A k1 \in Keys : inside'[k1] \subseteq k1 /\ (inside'[k1] # {} => Exists(k1)')
    BY DEF DirectInv, TypeOK, Exists
  <2>3. overlaps' \in 0..MaxOverlaps
    BY DirectAssumption DEF DirectInv, TypeOK
  <2> QED
    BY <1>1, <1>2, <2>1, <2>2, <2>3 DEF DirectInv, TypeOK, Points
<1>6. CallOK(r)'
  <2>1. OpenPoint(r)' /\ LeavePoint(r)' /\ TellPoint(r)' /\ FounderPoint(r)'
    BY <1>2, <1>3, <1>4 DEF OpenPoint, LeavePoint, TellPoint, FounderPoint, Opening
  <2>2. VettedPoint(r)'
    BY <1>1, <1>3 DEF VettedPoint, BothActive
  <2> QED
    BY <2>1, <2>2 DEF CallOK
<1> QED
  BY <1>1, <1>2, <1>3, <1>5, <1>6, StepKeeps

\* A step that changes none of the rooms and nothing that a call is known by.
LEMMA QuietStep ==
  ASSUME DirectInv, [Next]_vars, NEW r \in Requests, NEW p \in Points, Goes(r, p),
         UNCHANGED rooms, UNCHANGED creates,
         {reply', event', audience'} \subseteq [Requests -> SUBSET Users],
         CallOK(r)'
  PROVE  DirectInv'
<1> USE DEF Goes, Go, rooms, history, bounds
<1>1. TypeOK'
  BY DEF DirectInv, TypeOK, Exists, Key, DirectKey
<1> QED
  BY <1>1, StepKeeps

LEMMA GoesFacts ==
  ASSUME TypeOK, NEW r \in Requests, NEW p, Goes(r, p)
  PROVE  /\ pc' = [pc EXCEPT ![r] = p] /\ pc'[r] = p
         /\ op' = op /\ Key(r)' = Key(r) /\ vetted' = vetted /\ registered' = registered
  BY DEF Goes, Go, history, TypeOK, Key, DirectKey

\* A call at work that goes on stays vetted.
LEMMA VettedKept ==
  ASSUME DirectInv, NEW r \in InFlight, NEW p, Goes(r, p)
  PROVE  VettedPoint(r)'
<1>1. r \in Requests
  BY DEF InFlight
<1>2. BothActive(r)' => BothActive(r)
  BY <1>1, GoesFacts DEF BothActive, DirectInv
<1> QED
  BY <1>1, <1>2, GoesFacts DEF VettedPoint, CallOK, DirectInv

LEMMA AtWork ==
  ASSUME NEW r \in Requests, pc[r] \notin {"idle", "done"}
  PROVE  r \in InFlight
  BY DEF InFlight

LEMMA InvCheck ==
  ASSUME DirectInv, [Next]_vars, NEW r \in Requests, Check(r)
  PROVE  DirectInv'
<1>1. CASE MayOpen(r) /\ Goes(r, "find") /\ UNCHANGED <<rooms, local>>
  <2>1. Key(r) \in Keys /\ r \in vetted /\ Opening(r) /\ r \notin creates
    BY <1>1, KeyFacts DEF Check, MayOpen, DirectInv, CallOK, VettedPoint, InFlight, OpenPoint,
       FounderPoint
  <2>2. /\ pc'[r] = "find" /\ op' = op /\ creates' = creates /\ vetted' = vetted
        /\ Key(r)' = Key(r) /\ registered' = registered
    BY <1>1 DEF Goes, Go, local, history, DirectInv, TypeOK, Key, DirectKey
  <2>3. CallOK(r)'
    BY <2>1, <2>2 DEF CallOK, OpenPoint, LeavePoint, TellPoint, FounderPoint, VettedPoint, Opening
  <2> QED
    BY <1>1, <2>3, QuietStep DEF local, Points, DirectInv, TypeOK
<1>2. CASE Refuse(r)
  BY <1>2, AnsweredKeeps DEF Refuse, Check, InFlight, DirectInv, TypeOK
<1> QED
  BY <1>1, <1>2 DEF Check

LEMMA InvFind ==
  ASSUME DirectInv, [Next]_vars, NEW r \in Requests, Find(r)
  PROVE  DirectInv'
<1>1. PICK p \in {"revive", "create"} : Goes(r, p) /\ (p = "revive" => Exists(Key(r)))
  BY DEF Find
<1>2. /\ pc'[r] = p /\ op' = op /\ creates' = creates /\ vetted' = vetted
      /\ Key(r)' = Key(r) /\ registered' = registered /\ Exists(Key(r))' = Exists(Key(r))
  BY <1>1 DEF Find, Goes, Go, local, rooms, history, DirectInv, TypeOK, Key, DirectKey, Exists
<1>3. CallOK(r)'
  BY <1>1, <1>2 DEF Find, DirectInv, CallOK, OpenPoint, LeavePoint, TellPoint, FounderPoint,
     VettedPoint, Opening
<1> QED
  BY <1>1, <1>3, QuietStep DEF Find, local, Points, DirectInv, TypeOK

LEMMA InvCreate ==
  ASSUME DirectInv, [Next]_vars, NEW r \in Requests, Create(r)
  PROVE  DirectInv'
<1> DEFINE k == Key(r)
<1>1. k \in Keys /\ Opening(r) /\ r \in vetted /\ r \notin creates /\ op[r].actor \in Users
  BY KeyFacts DEF Create, DirectInv, CallOK, OpenPoint, FounderPoint
<1>2. CASE /\ ~Taken(k)
           /\ createdBy' = [createdBy EXCEPT ![k] = op[r].actor]
           /\ inside' = [inside EXCEPT ![k] = k]
           /\ creates' = creates \cup {r}
           /\ Goes(r, "view")
           /\ UNCHANGED <<reply, event, audience>>
  <2>1. /\ pc' = [pc EXCEPT ![r] = "view"] /\ pc'[r] = "view" /\ op' = op
        /\ Key(r)' = Key(r) /\ vetted' = vetted /\ registered' = registered
    BY <1>2, GoesFacts DEF DirectInv
  <2>2. Exists(k)'
    BY <1>1, <1>2, <2>1, DirectAssumption DEF Exists, DirectInv, TypeOK
  <2>3. CallOK(r)'
    BY <1>1, <2>1, <2>2 DEF CallOK, OpenPoint, LeavePoint, TellPoint, FounderPoint, VettedPoint,
       Opening
  <2>4. \A q \in creates : Key(q) # k /\ Key(q)' = Key(q)
    BY <1>2, <2>1 DEF Taken, DirectInv, TypeOK, CallOK, FounderPoint, Key, DirectKey
  <2>5. \A q, s \in creates' : Key(q)' = Key(s)' => q = s
    BY <1>2, <2>1, <2>4 DEF DirectInv, TypeOK
  <2>6. \A j \in Keys : inside'[j] \subseteq j /\ (inside'[j] # {} => Exists(j)')
    <3> SUFFICES ASSUME NEW j \in Keys
                 PROVE  inside'[j] \subseteq j /\ (inside'[j] # {} => Exists(j)')
      OBVIOUS
    <3>1. CASE j = k
      BY <1>1, <1>2, <2>1, <2>2, <3>1 DEF DirectInv, TypeOK, Exists
    <3>2. CASE j # k
      BY <1>2, <3>2 DEF DirectInv, TypeOK, Exists
    <3> QED
      BY <3>1, <3>2
  <2>7. TypeOK'
    BY <1>1, <1>2, <2>1, <2>5, <2>6, RoomFacts
    DEF Goes, Go, history, bounds, DirectInv, TypeOK, Points
  <2> QED
    BY <1>2, <2>1, <2>3, <2>7, StepKeeps
<1>3. CASE Taken(k) /\ Goes(r, "winner") /\ UNCHANGED <<rooms, local>>
  <2>1. CallOK(r)'
    <3>1. Exists(Key(r))'
      BY <1>3, GoesFacts DEF Taken, DirectInv, Exists, rooms
    <3> QED
      BY <1>1, <1>3, <3>1, GoesFacts DEF DirectInv, CallOK, OpenPoint, LeavePoint, TellPoint,
         FounderPoint, VettedPoint, Opening, local
  <2> QED
    BY <1>3, <2>1, QuietStep DEF local, Points, DirectInv, TypeOK
<1> QED
  BY <1>2, <1>3 DEF Create

LEMMA InvWinner ==
  ASSUME DirectInv, [Next]_vars, NEW r \in Requests, Winner(r)
  PROVE  DirectInv' /\ AfterConflict(r) = "revive"
<1>1. /\ Exists(Key(r)) /\ Key(r) \in Keys /\ Opening(r) /\ r \in vetted /\ r \notin creates
  BY DEF Winner, DirectInv, CallOK, OpenPoint, FounderPoint
<1>2. AfterConflict(r) = "revive" /\ Goes(r, "revive") /\ UNCHANGED <<rooms, local>>
  BY <1>1 DEF Winner, AfterConflict
<1>3. Exists(Key(r))'
  BY <1>1, <1>2, GoesFacts DEF DirectInv, Exists, rooms
<1>4. CallOK(r)'
  BY <1>1, <1>2, <1>3, GoesFacts DEF DirectInv, CallOK, OpenPoint, LeavePoint, TellPoint,
     FounderPoint, VettedPoint, Opening, local
<1> QED
  BY <1>2, <1>4, QuietStep DEF local, Points, DirectInv, TypeOK

\* inside is written at the key of a room that is there, within the pair.
LEMMA InsideWritten ==
  ASSUME DirectInv, [Next]_vars, NEW r \in Requests, NEW p \in Points, Goes(r, p),
         NEW S \in SUBSET Key(r), Exists(Key(r)),
         inside' = [inside EXCEPT ![Key(r)] = S], UNCHANGED createdBy, UNCHANGED local,
         CallOK(r)'
  PROVE  DirectInv'
<1>1. \A j \in Keys : inside'[j] \subseteq j /\ (inside'[j] # {} => Exists(j)')
  <2> SUFFICES ASSUME NEW j \in Keys
               PROVE  inside'[j] \subseteq j /\ (inside'[j] # {} => Exists(j)')
    OBVIOUS
  <2>1. CASE j = Key(r)
    BY <2>1 DEF DirectInv, TypeOK, Exists
  <2>2. CASE j # Key(r)
    BY <2>2 DEF DirectInv, TypeOK, Exists
  <2> QED
    BY <2>1, <2>2
<1>2. inside' \in [Keys -> SUBSET Users]
  BY KeyFacts DEF DirectInv, TypeOK
<1>3. TypeOK'
  BY <1>1, <1>2 DEF Goes, Go, history, bounds, local, DirectInv, TypeOK, Key, DirectKey
<1> QED
  BY <1>3, GoesFacts, StepKeeps DEF DirectInv, local

LEMMA InvReactivate ==
  ASSUME DirectInv, [Next]_vars, NEW r \in Requests, Reactivate(r)
  PROVE  DirectInv' /\ inside' = [inside EXCEPT ![Key(r)] = Key(r)]
<1>1. Exists(Key(r)) /\ Key(r) \in Keys /\ Opening(r) /\ r \in vetted /\ r \notin creates
  BY DEF Reactivate, DirectInv, CallOK, OpenPoint, FounderPoint
<1>2. inside[Key(r)] \cup Revived(r) = Key(r)
  BY <1>1 DEF Revived, DirectInv, TypeOK
<1>3. /\ inside' = [inside EXCEPT ![Key(r)] = Key(r)]
      /\ Goes(r, "view") /\ UNCHANGED createdBy /\ UNCHANGED local
  BY <1>2 DEF Reactivate
<1>4. CallOK(r)'
  <2>1. Exists(Key(r))'
    BY <1>1, <1>3, GoesFacts DEF DirectInv, Exists
  <2> QED
    BY <1>1, <1>3, <2>1, GoesFacts DEF DirectInv, CallOK, OpenPoint, LeavePoint, TellPoint,
       FounderPoint, VettedPoint, Opening, local
<1> QED
  BY <1>1, <1>3, <1>4, InsideWritten DEF Points

LEMMA InvReadView ==
  ASSUME DirectInv, [Next]_vars, NEW r \in Requests, ReadView(r)
  PROVE  DirectInv'
<1>1. Exists(Key(r)) /\ Key(r) \in Keys /\ Opening(r)
  BY DEF ReadView, DirectInv, CallOK, OpenPoint
<1>2. PICK p \in {"event", "answer"} : Goes(r, p) /\ (p = "event" <=> r \in creates)
  BY DEF ReadView, AfterView
<1>3. CallOK(r)'
  <2>1. Exists(Key(r))'
    BY <1>1, <1>2, GoesFacts DEF ReadView, DirectInv, Exists, rooms
  <2> QED
    BY <1>1, <1>2, <2>1, GoesFacts, VettedKept, AtWork DEF ReadView, DirectInv, CallOK, OpenPoint, LeavePoint,
       TellPoint, FounderPoint, Opening
<1>4. {reply', event', audience'} \subseteq [Requests -> SUBSET Users]
  <2>1. inside[Key(r)] \subseteq Users /\ Key(r) \subseteq Users
    BY <1>1, RoomFacts DEF DirectInv
  <2> QED
    BY <2>1 DEF ReadView, DirectInv, TypeOK
<1> QED
  BY <1>2, <1>3, <1>4, QuietStep DEF ReadView, Points

LEMMA InvGuard ==
  ASSUME DirectInv, [Next]_vars, NEW r \in Requests, Guard(r)
  PROVE  DirectInv'
<1>1. CASE Exists(Key(r)) /\ Goes(r, "target") /\ UNCHANGED <<rooms, local>>
  <2>1. ~Opening(r) /\ r \notin creates
    BY DEF Guard, DirectInv, CallOK, LeavePoint, FounderPoint
  <2>2. Exists(Key(r))'
    BY <1>1, GoesFacts DEF DirectInv, Exists, rooms
  <2>3. CallOK(r)'
    BY <1>1, <2>1, <2>2, GoesFacts, VettedKept, AtWork DEF Guard, local, DirectInv, CallOK, OpenPoint, LeavePoint,
       TellPoint, FounderPoint, Opening
  <2> QED
    BY <1>1, <2>3, QuietStep DEF local, Points, DirectInv, TypeOK
<1>2. CASE Refuse(r)
  BY <1>2, AnsweredKeeps DEF Refuse, Guard, InFlight, DirectInv, TypeOK
<1> QED
  BY <1>1, <1>2 DEF Guard

LEMMA InvTarget ==
  ASSUME DirectInv, [Next]_vars, NEW r \in Requests, Target(r)
  PROVE  DirectInv'
<1>1. CASE Leaving(r) /\ Goes(r, "out") /\ UNCHANGED <<rooms, local>>
  <2>1. Exists(Key(r)) /\ ~Opening(r) /\ r \notin creates
    BY DEF Target, DirectInv, CallOK, LeavePoint, FounderPoint
  <2>2. Exists(Key(r))'
    BY <1>1, <2>1, GoesFacts DEF DirectInv, Exists, rooms
  <2>3. CallOK(r)'
    BY <1>1, <2>1, <2>2, GoesFacts, VettedKept, AtWork DEF Target, local, DirectInv, CallOK, OpenPoint, LeavePoint,
       TellPoint, FounderPoint, Opening, Leaving
  <2> QED
    BY <1>1, <2>3, QuietStep DEF local, Points, DirectInv, TypeOK
<1>2. CASE Refuse(r)
  BY <1>2, AnsweredKeeps DEF Refuse, Target, InFlight, DirectInv, TypeOK
<1> QED
  BY <1>1, <1>2 DEF Target, Leaving

LEMMA InvOut ==
  ASSUME DirectInv, [Next]_vars, NEW r \in Requests, Out(r)
  PROVE  DirectInv'
<1>1. Exists(Key(r)) /\ Leaving(r) /\ r \notin creates
  BY DEF Out, DirectInv, CallOK, LeavePoint, FounderPoint
<1>2. Goes(r, "audience") /\ UNCHANGED createdBy /\ UNCHANGED local
  BY DEF Out
<1>3. CallOK(r)'
  <2>1. Exists(Key(r))'
    BY <1>1, <1>2, GoesFacts DEF DirectInv, Exists
  <2> QED
    BY <1>1, <1>2, <2>1, GoesFacts, VettedKept, AtWork DEF Out, local, DirectInv, CallOK, OpenPoint, LeavePoint,
       TellPoint, FounderPoint, Opening, Leaving
<1>4. inside[Key(r)] \ {op[r].actor} \in SUBSET Key(r)
  BY <1>1 DEF Exists, DirectInv, TypeOK
<1>5. inside' = [inside EXCEPT ![Key(r)] = inside[Key(r)] \ {op[r].actor}]
  BY DEF Out
<1> QED
  BY <1>1, <1>2, <1>3, <1>4, <1>5, InsideWritten DEF Points

LEMMA InvReadAudience ==
  ASSUME DirectInv, [Next]_vars, NEW r \in Requests, ReadAudience(r)
  PROVE  DirectInv'
<1>1. Exists(Key(r)) /\ Leaving(r) /\ r \notin creates
  BY DEF ReadAudience, DirectInv, CallOK, LeavePoint, FounderPoint
<1>2. Goes(r, "event") /\ UNCHANGED <<rooms, creates>>
  BY DEF ReadAudience
<1>3. CallOK(r)'
  <2>1. Exists(Key(r))'
    BY <1>1, <1>2, GoesFacts DEF DirectInv, Exists, rooms
  <2> QED
    BY <1>1, <1>2, <2>1, GoesFacts, VettedKept, AtWork DEF ReadAudience, DirectInv, CallOK, OpenPoint, LeavePoint,
       TellPoint, FounderPoint, Opening, Leaving
<1>4. {reply', event', audience'} \subseteq [Requests -> SUBSET Users]
  <2>1. Recipients(r) \in SUBSET Users
    BY <1>1, RoomFacts, KeyFacts DEF Recipients, Exists, DirectInv
  <2> QED
    BY <2>1 DEF ReadAudience, DirectInv, TypeOK
<1> QED
  BY <1>2, <1>3, <1>4, QuietStep DEF Points

LEMMA InvReadEvent ==
  ASSUME DirectInv, [Next]_vars, NEW r \in Requests, ReadEvent(r)
  PROVE  DirectInv'
<1>1. Exists(Key(r)) /\ (r \in creates \/ Leaving(r)) /\ (r \in creates => Opening(r))
  BY DEF ReadEvent, DirectInv, CallOK, TellPoint, FounderPoint
<1>2. Goes(r, "emit") /\ UNCHANGED <<rooms, creates>>
  BY DEF ReadEvent
<1>3. CallOK(r)'
  <2>1. Exists(Key(r))'
    BY <1>1, <1>2, GoesFacts DEF DirectInv, Exists, rooms
  <2> QED
    BY <1>1, <1>2, <2>1, GoesFacts, VettedKept, AtWork DEF ReadEvent, DirectInv, CallOK, OpenPoint, LeavePoint,
       TellPoint, FounderPoint, Opening, Leaving
<1>4. {reply', event', audience'} \subseteq [Requests -> SUBSET Users]
  <2>1. inside[Key(r)] \in SUBSET Users
    BY <1>1, RoomFacts DEF Exists, DirectInv
  <2> QED
    BY <2>1 DEF ReadEvent, DirectInv, TypeOK
<1> QED
  BY <1>2, <1>3, <1>4, QuietStep DEF Points

LEMMA InvEmit ==
  ASSUME DirectInv, [Next]_vars, NEW r \in Requests, Emit(r)
  PROVE  DirectInv'
<1> USE DEF Emit, Go, rooms, local, bounds
<1>1. Exists(Key(r)) /\ (r \in creates \/ Leaving(r)) /\ (r \in creates => Opening(r))
  BY DEF DirectInv, CallOK, TellPoint, FounderPoint
<1>2. pc' = [pc EXCEPT ![r] = "answer"] /\ pc'[r] = "answer" /\ op' = op /\ Key(r)' = Key(r)
  BY DEF DirectInv, TypeOK, Key, DirectKey
<1>3. Exists(Key(r))'
  BY <1>1, <1>2 DEF Exists
<1>4. CallOK(r)'
  <2>1. VettedPoint(r)'
    BY <1>2, AtWork DEF VettedPoint, BothActive, DirectInv, CallOK
  <2> QED
    BY <1>1, <1>2, <1>3, <2>1 DEF DirectInv, CallOK, OpenPoint, LeavePoint, TellPoint,
       FounderPoint, Opening, Leaving
<1>5. TypeOK'
  <2>1. Key(r) \in Keys /\ audience[r] \in SUBSET Users /\ event[r] \in SUBSET Users
    BY <1>1 DEF Exists, DirectInv, TypeOK
  <2>2. shown' \in [Keys -> [Users -> SUBSET Users]]
    BY <2>1 DEF DirectInv, TypeOK
  <2>3. announced' \subseteq Keys
    BY <2>1 DEF DirectInv, TypeOK
  <2>4. \A q, t \in creates' : Key(q)' = Key(t)' => q = t
    <3>1. \A q : Key(q)' = Key(q)
      BY <1>2 DEF Key, DirectKey
    <3> QED
      BY <3>1 DEF DirectInv, TypeOK
  <2>5. \A j \in Keys : inside'[j] \subseteq j /\ (inside'[j] # {} => Exists(j)')
    BY DEF DirectInv, TypeOK, Exists
  <2> QED
    BY <1>2, <2>2, <2>3, <2>4, <2>5 DEF DirectInv, TypeOK, Points
<1> QED
  BY <1>2, <1>4, <1>5, StepKeeps

LEMMA InvAnswer ==
  ASSUME DirectInv, [Next]_vars, NEW r \in Requests, Answer(r)
  PROVE  DirectInv'
<1>1. Key(r) \in Keys /\ op[r].actor \in Users /\ reply[r] \in SUBSET Users
  BY KeyFacts DEF Answer, DirectInv, TypeOK, CallOK, TellPoint, Exists
<1>2. shown' \in [Keys -> [Users -> SUBSET Users]]
  BY <1>1 DEF Answer, DirectInv, TypeOK
<1> QED
  BY <1>2, AtWork, AnsweredKeeps DEF Answer, DirectInv, TypeOK

LEMMA InvFail ==
  ASSUME DirectInv, [Next]_vars, NEW r \in Requests, Fail(r)
  PROVE  DirectInv'
<1>1. failures' \in 0..MaxFailures /\ shown' \in [Keys -> [Users -> SUBSET Users]]
  BY DirectAssumption DEF Fail, DirectInv, TypeOK
<1> QED
  BY <1>1, AnsweredKeeps DEF Fail

LEMMA InvSetStatus ==
  ASSUME DirectInv, [Next]_vars, NEW u \in Users, SetStatus(u)
  PROVE  DirectInv'
<1> USE DEF SetStatus, rooms, local
<1>1. TypeOK'
  <2>1. vetted' \subseteq Requests
    BY DEF DirectInv, TypeOK, InFlight
  <2>2. changes' \in 0..MaxChanges
    BY DirectAssumption DEF DirectInv, TypeOK
  <2> QED
    BY <2>1, <2>2 DEF DirectInv, TypeOK, Exists, Key, DirectKey
<1>2. ASSUME NEW r \in Requests PROVE CallOK(r)'
  <2>1. Key(r)' = Key(r) /\ Exists(Key(r))' = Exists(Key(r)) /\ vetted \subseteq vetted'
    BY DEF Key, DirectKey, Exists
  <2>2. VettedPoint(r)'
    BY DEF VettedPoint, BothActive, InFlight
  <2> QED
    BY <2>1, <2>2 DEF DirectInv, CallOK, OpenPoint, LeavePoint, TellPoint, FounderPoint, Opening,
       Leaving
<1> QED
  BY <1>1, <1>2 DEF DirectInv

LEMMA InvStutter == DirectInv /\ UNCHANGED vars => DirectInv'
<1> SUFFICES ASSUME DirectInv, UNCHANGED vars PROVE DirectInv'
  OBVIOUS
<1> USE DEF vars, rooms, local, history, bounds
<1>1. TypeOK'
  BY DEF DirectInv, TypeOK, Exists, Key, DirectKey
<1>2. ASSUME NEW r \in Requests PROVE CallOK(r)'
  <2>1. Exists(Key(r))' = Exists(Key(r))
    BY DEF Key, DirectKey, Exists
  <2> QED
    BY <1>2, <2>1, OthersKeep DEF DirectInv
<1> QED
  BY <1>1, <1>2 DEF DirectInv

LEMMA InvNext == DirectInv /\ [Next]_vars => DirectInv'
<1> SUFFICES ASSUME DirectInv, [Next]_vars PROVE DirectInv'
  OBVIOUS
<1>1. ASSUME NEW r \in Requests, Step(r) PROVE DirectInv'
  BY <1>1, InvCheck, InvFind, InvCreate, InvWinner, InvReactivate, InvReadView, InvGuard,
     InvTarget, InvOut, InvReadAudience, InvReadEvent, InvEmit, InvAnswer DEF Step
<1> QED
  BY <1>1, InvArrive, InvFail, InvSetStatus, InvStutter DEF Next, Finished

LEMMA InvAlways == Spec => []DirectInv
  BY InvInit, InvNext, PTL DEF Spec

\* Every step keeps the types: a room has no one in it but its pair, nobody is in a room that is
\* not there, and no two calls create one room, whatever the race between them.
THEOREM TypeCorrect == Spec => []TypeOK
<1>1. DirectInv => TypeOK
  BY DEF DirectInv
<1> QED
  BY <1>1, InvAlways, PTL

-----------------------------------------------------------------------------
(* Who is let in.                                                          *)

\* Nobody is put into a room but by a Create or a Reactivate of its pair.
LEMMA WhoEnters ==
  ASSUME DirectInv, [Next]_vars, NEW k \in Keys, inside'[k] \ inside[k] # {}
  PROVE  \E r \in Requests : Key(r) = k /\ (Create(r) \/ Reactivate(r))
<1>1. PICK r \in Requests : Create(r) \/ Reactivate(r) \/ Out(r)
  BY DEF Next, Step, vars, rooms, Arrive, Check, Find, Winner, ReadView, Guard, Target,
     ReadAudience, ReadEvent, Emit, Answer, Fail, SetStatus, Finished, Refuse, Answered
<1>2. CASE Out(r)
  BY <1>2 DEF Out, DirectInv, TypeOK
<1>3. CASE Create(r) \/ Reactivate(r)
  <2>1. \E S : inside' = [inside EXCEPT ![Key(r)] = S] \/ inside' = inside
    BY <1>3 DEF Create, Reactivate, rooms
  <2>2. Key(r) = k
    BY <2>1 DEF DirectInv, TypeOK
  <2> QED
    BY <1>3, <2>2
<1> QED
  BY <1>1, <1>2, <1>3

\* However long ago createDirect read the two statuses, whoever it puts into a room is put there
\* by a call during which both users were ACTIVE at one time.
THEOREM BothActiveOnce == Spec => BothWereActive
<1>1. ASSUME DirectInv, [Next]_vars
      PROVE  \A k \in Keys : inside'[k] \ inside[k] # {} =>
               \E r \in vetted : Key(r) = k /\ pc[r] \in {"create", "revive"}
  <2> TAKE k \in Keys
  <2> HAVE inside'[k] \ inside[k] # {}
  <2>1. PICK r \in Requests : Key(r) = k /\ (Create(r) \/ Reactivate(r))
    BY <1>1, WhoEnters
  <2>2. r \in vetted /\ pc[r] \in {"create", "revive"}
    BY <1>1, <2>1 DEF Create, Reactivate, DirectInv, CallOK, OpenPoint
  <2> QED
    BY <2>1, <2>2
<1> QED
  BY <1>1, InvAlways, PTL DEF Spec, BothWereActive

-----------------------------------------------------------------------------
(* The refinement: what the rooms promise.                                 *)

LEMMA PairsAreKeys == Pair!Pairs = Keys
<1>1. ASSUME NEW p \in Pair!Pairs PROVE p \in Keys
  <2>1. PICK a \in Users, b \in Users : a # b /\ p = {a, b}
    BY <1>1 DEF Pair!Pairs
  <2> QED
    BY <2>1 DEF Keys, DirectKey
<1>2. ASSUME NEW p \in Keys PROVE p \in Pair!Pairs
  <2>1. PICK a \in Users, b \in Users : p = {a, b} /\ a # b
    BY <1>2 DEF Keys, DirectKey
  <2> QED
    BY <2>1 DEF Pair!Pairs
<1> QED
  BY <1>1, <1>2

LEMMA PairIsKey == ASSUME NEW r PROVE Pair!PairOf(r) = Key(r)
  BY DEF Pair!PairOf, Key, DirectKey

\* The phase of a call is moved by its own steps alone.
LEMMA PhaseMoves ==
  ASSUME DirectInv, NEW r \in Requests, NEW p, pc' = [pc EXCEPT ![r] = p],
         \A q \in Requests : q # r => (q \in creates' <=> q \in creates)
  PROVE  Pair!Becomes(r, Phase(r)')
<1>1. \A q \in Requests : q # r => Phase(q)' = Phase(q)
  BY DEF Phase, DirectInv, TypeOK
<1>2. [q \in Requests |-> Phase(q)]' = [[q \in Requests |-> Phase(q)] EXCEPT ![r] = Phase(r)']
  BY <1>1
<1> QED
  BY <1>2 DEF Pair!Becomes

\* And it stays where it is with the point of the call and its being a founder.
LEMMA PhaseStays ==
  ASSUME DirectInv, NEW r \in Requests, NEW p, pc' = [pc EXCEPT ![r] = p],
         UNCHANGED creates, Phase(r)' = Phase(r)
  PROVE  [q \in Requests |-> Phase(q)]' = [q \in Requests |-> Phase(q)]
<1>1. \A q \in Requests : q # r => Phase(q)' = Phase(q)
  BY DEF Phase, DirectInv, TypeOK
<1> QED
  BY <1>1

LEMMA RefinesInit == Init => Pair!PairInit
<1> SUFFICES ASSUME Init PROVE Pair!PairInit
  OBVIOUS
<1>1. op \in [Requests -> Pair!Calls]
  BY DEF Init, Pair!Calls
<1>2. [r \in Requests |-> Phase(r)] = [r \in Requests |-> "new"]
  BY DEF Init, Phase
<1> QED
  BY <1>1, <1>2, PairsAreKeys DEF Init, Pair!PairInit

\* The steps between what the abstract system does: it does not see them.
LEMMA HiddenSteps ==
  ASSUME DirectInv, NEW r \in Requests, NEW p,
         Goes(r, p), UNCHANGED rooms, UNCHANGED creates, Phase(r)' = Phase(r)
  PROVE  UNCHANGED Pair!pairVars
<1>1. [q \in Requests |-> Phase(q)]' = [q \in Requests |-> Phase(q)]
  BY PhaseStays DEF Goes, Go
<1> QED
  BY <1>1 DEF Pair!pairVars, Goes, rooms, history, bounds

LEMMA Refusals ==
  ASSUME DirectInv, NEW r \in Requests, Refuse(r), Phase(r) = "working"
  PROVE  Pair!Refuse(r)
<1>1. Phase(r)' = "answered"
  BY DEF Refuse, Answered, Go, DirectInv, TypeOK, Phase
<1>2. Pair!Becomes(r, "answered")
  BY <1>1, PhaseMoves DEF Refuse, Answered, Go
<1> QED
  BY <1>2 DEF Refuse, Answered, rooms, history, Pair!Refuse, Pair!Ends

\* Opening a room is one abstract step, though it may be found, created or found after all.
LEMMA RefinesOpening ==
  ASSUME DirectInv, [Next]_vars, NEW r \in Requests,
         Check(r) \/ Find(r) \/ Create(r) \/ Winner(r) \/ Reactivate(r) \/ ReadView(r)
  PROVE  Pair!PairNext \/ UNCHANGED Pair!pairVars
<1>0. CallOK(r)
  BY DEF DirectInv
<1>1. CASE Check(r)
  <2>1. Phase(r) = "working"
    BY <1>1 DEF Check, Phase
  <2>2. CASE Refuse(r)
    BY <2>1, <2>2, Refusals DEF Pair!PairNext
  <2>3. CASE Goes(r, "find") /\ UNCHANGED <<rooms, local>>
    <3>1. Phase(r)' = "working"
      BY <2>3, GoesFacts DEF DirectInv, Phase
    <3> QED
      BY <2>1, <2>3, <3>1, HiddenSteps DEF local
  <2> QED
    BY <1>1, <2>2, <2>3 DEF Check
<1>2. CASE Find(r)
  <2>1. PICK p \in {"revive", "create"} : Goes(r, p)
    BY <1>2 DEF Find
  <2>2. Phase(r) = "working" /\ Phase(r)' = "working"
    BY <1>2, <2>1, GoesFacts DEF Find, DirectInv, Phase
  <2> QED
    BY <1>2, <2>1, <2>2, HiddenSteps DEF Find, local
<1>3. CASE Create(r)
  <2>1. Phase(r) = "working" /\ Opening(r) /\ Key(r) \in Keys
    BY <1>0, <1>3 DEF Create, Phase, CallOK, OpenPoint
  <2>2. CASE Taken(Key(r)) /\ Goes(r, "winner") /\ UNCHANGED <<rooms, local>>
    <3>1. Phase(r)' = "working"
      BY <2>2, GoesFacts DEF DirectInv, Phase
    <3> QED
      BY <2>1, <2>2, <3>1, HiddenSteps DEF local
  <2>3. CASE /\ ~Taken(Key(r))
             /\ createdBy' = [createdBy EXCEPT ![Key(r)] = op[r].actor]
             /\ inside' = [inside EXCEPT ![Key(r)] = Key(r)]
             /\ creates' = creates \cup {r}
             /\ Goes(r, "view")
    <3>1. Phase(r)' = "founding"
      BY <2>3, GoesFacts DEF DirectInv, Phase
    <3>2. Pair!Becomes(r, "founding")
      BY <2>3, <3>1, PhaseMoves, GoesFacts DEF DirectInv
    <3>3. createdBy[Key(r)] = Nobody
      BY <2>1, <2>3 DEF Taken, Exists
    <3>4. Pair!Open(r)
      BY <2>1, <2>3, <3>2, <3>3, PairsAreKeys, PairIsKey
      DEF Pair!Open, Opening, Goes, history, bounds
    <3> QED
      BY <3>4 DEF Pair!PairNext
  <2> QED
    BY <1>3, <2>2, <2>3 DEF Create
<1>4. CASE Winner(r)
  <2>1. Goes(r, "revive") /\ UNCHANGED <<rooms, local>>
    BY <1>4, InvWinner DEF Winner
  <2>2. Phase(r) = "working" /\ Phase(r)' = "working"
    BY <1>4, <2>1, GoesFacts DEF Winner, DirectInv, Phase
  <2> QED
    BY <2>1, <2>2, HiddenSteps DEF local
<1>5. CASE Reactivate(r)
  <2>1. /\ Phase(r) = "working" /\ Opening(r) /\ Key(r) \in Keys /\ createdBy[Key(r)] # Nobody
        /\ r \notin creates
    BY <1>0, <1>5 DEF Reactivate, Phase, CallOK, OpenPoint, FounderPoint, Exists
  <2>2. /\ inside' = [inside EXCEPT ![Key(r)] = Key(r)]
        /\ Goes(r, "view") /\ UNCHANGED createdBy /\ UNCHANGED creates
    BY <1>5, InvReactivate DEF Reactivate, local
  <2>3. Phase(r)' = "done"
    BY <2>1, <2>2, GoesFacts DEF DirectInv, Phase
  <2>4. Pair!Becomes(r, "done")
    BY <2>2, <2>3, PhaseMoves, GoesFacts DEF DirectInv
  <2>5. Pair!Open(r)
    BY <2>1, <2>2, <2>4, PairsAreKeys, PairIsKey DEF Pair!Open, Opening, Goes, history, bounds
  <2> QED
    BY <2>5 DEF Pair!PairNext
<1>6. CASE ReadView(r)
  <2>1. PICK p \in {"event", "answer"} : Goes(r, p) /\ (p = "event" <=> r \in creates)
    BY <1>6 DEF ReadView, AfterView
  <2>2. UNCHANGED creates /\ UNCHANGED rooms
    BY <1>6 DEF ReadView
  <2>3. Phase(r)' = Phase(r)
    BY <1>6, <2>1, <2>2, GoesFacts DEF ReadView, DirectInv, Phase
  <2> QED
    BY <2>1, <2>2, <2>3, HiddenSteps
<1> QED
  BY <1>1, <1>2, <1>3, <1>4, <1>5, <1>6

\* Leaving is one as well, and it is done before anyone is told.
LEMMA RefinesLeaving ==
  ASSUME DirectInv, [Next]_vars, NEW r \in Requests,
         Guard(r) \/ Target(r) \/ Out(r) \/ ReadAudience(r) \/ ReadEvent(r) \/ Emit(r)
  PROVE  Pair!PairNext \/ UNCHANGED Pair!pairVars
<1>0. CallOK(r)
  BY DEF DirectInv
<1>1. CASE Guard(r) \/ Target(r)
  <2>1. Phase(r) = "working" /\ r \notin creates
    BY <1>0, <1>1 DEF Guard, Target, Phase, CallOK, FounderPoint
  <2>2. CASE Refuse(r)
    BY <2>1, <2>2, Refusals DEF Pair!PairNext
  <2>3. ASSUME NEW p \in {"target", "out"}, Goes(r, p), UNCHANGED <<rooms, local>>
        PROVE  UNCHANGED Pair!pairVars
    <3>1. pc'[r] = "target" \/ pc'[r] = "out"
      BY <2>3, GoesFacts DEF DirectInv
    <3>2. Phase(r)' = "working"
      BY <3>1 DEF Phase
    <3> QED
      BY <2>1, <2>3, <3>2, HiddenSteps DEF local
  <2> QED
    BY <1>1, <2>2, <2>3 DEF Guard, Target
<1>2. CASE Out(r)
  <2>1. /\ Phase(r) = "working" /\ Leaving(r) /\ Key(r) \in Keys /\ createdBy[Key(r)] # Nobody
        /\ r \notin creates
    BY <1>0, <1>2 DEF Out, Phase, CallOK, LeavePoint, FounderPoint, Exists
  <2>2. Goes(r, "audience") /\ UNCHANGED createdBy /\ UNCHANGED creates
    BY <1>2 DEF Out, local
  <2>3. Phase(r)' = "done"
    BY <2>1, <2>2, GoesFacts DEF DirectInv, Phase
  <2>4. Pair!Becomes(r, "done")
    BY <2>2, <2>3, PhaseMoves, GoesFacts DEF DirectInv
  <2>5. Pair!Leave(r)
    BY <1>2, <2>1, <2>2, <2>4, PairsAreKeys, PairIsKey
    DEF Out, Pair!Leave, Leaving, Goes, history, bounds
  <2> QED
    BY <2>5 DEF Pair!PairNext
<1>3. CASE ReadAudience(r) \/ ReadEvent(r)
  <2>1. PICK p \in {"event", "emit"} : Goes(r, p)
    BY <1>3 DEF ReadAudience, ReadEvent
  <2>2. UNCHANGED creates /\ UNCHANGED rooms
    BY <1>3 DEF ReadAudience, ReadEvent
  <2>3. pc[r] = "audience" => r \notin creates
    BY <1>0 DEF CallOK, FounderPoint
  <2>4. Phase(r)' = Phase(r)
    BY <1>3, <2>1, <2>2, <2>3, GoesFacts DEF ReadAudience, ReadEvent, DirectInv, Phase
  <2> QED
    BY <2>1, <2>2, <2>4, HiddenSteps
<1>4. CASE Emit(r)
  <2>1. /\ pc' = [pc EXCEPT ![r] = "answer"] /\ UNCHANGED creates
        /\ UNCHANGED <<createdBy, inside, op, outcome, failures>>
    BY <1>4 DEF Emit, Go, rooms, local, bounds
  <2>2. Phase(r)' = "done"
    BY <2>1 DEF DirectInv, TypeOK, Phase
  <2>3. CASE r \in creates
    <3>1. Phase(r) = "founding"
      BY <1>4, <2>3 DEF Emit, Phase
    <3>4. announced' = announced \cup {Key(r)}
      BY <1>4, <2>3 DEF Emit
    <3>2. Pair!Becomes(r, "done")
      BY <2>1, <2>2, PhaseMoves
    <3>3. Pair!Announce(r)
      BY <2>1, <3>1, <3>2, <3>4, PairIsKey DEF Pair!Announce
    <3> QED
      BY <3>3 DEF Pair!PairNext
  <2>4. CASE r \notin creates
    <3>1. Phase(r) = "done" /\ announced' = announced
      BY <1>4, <2>4 DEF Emit, Phase
    <3>2. [q \in Requests |-> Phase(q)]' = [q \in Requests |-> Phase(q)]
      BY <2>1, <2>2, <3>1, PhaseStays
    <3> QED
      BY <2>1, <3>1, <3>2 DEF Pair!pairVars
  <2> QED
    BY <2>3, <2>4
<1> QED
  BY <1>1, <1>2, <1>3, <1>4

LEMMA RefinesEnds ==
  ASSUME DirectInv, [Next]_vars, NEW r \in Requests, Arrive(r) \/ Answer(r) \/ Fail(r)
  PROVE  Pair!PairNext
<1>0. CallOK(r)
  BY DEF DirectInv
<1>1. CASE Arrive(r)
  <2>1. PICK k \in Kinds, a \in Users, b \in Users :
          /\ op' = [op EXCEPT ![r] = [kind |-> k, actor |-> a, other |-> b]]
          /\ pc' = [pc EXCEPT ![r] = IF k = "open" THEN "check" ELSE "guard"]
    BY <1>1 DEF Arrive, Go
  <2>2. [kind |-> k, actor |-> a, other |-> b] \in Pair!Calls
    BY DEF Pair!Calls, Kinds
  <2>3. Phase(r) = "new"
    BY <1>1 DEF Arrive, Phase
  <2>4. pc'[r] \in {"check", "guard"}
    BY <2>1 DEF DirectInv, TypeOK
  <2>5. Phase(r)' = "working"
    BY <2>4 DEF Phase
  <2>6. Pair!Becomes(r, "working")
    BY <1>1, <2>1, <2>5, PhaseMoves DEF Arrive, local
  <2>7. Pair!Ask(r)
    BY <1>1, <2>1, <2>2, <2>3, <2>6 DEF Arrive, rooms, local, Pair!Ask
  <2> QED
    BY <2>7 DEF Pair!PairNext
<1>2. ASSUME pc[r] \notin {"idle", "done"}, NEW o, Answered(r, o)
      PROVE  Pair!Ends(r, o)
  <2>1. Phase(r)' = "answered"
    BY <1>2 DEF Answered, Go, DirectInv, TypeOK, Phase
  <2>2. Pair!Becomes(r, "answered")
    BY <1>2, <2>1, PhaseMoves DEF Answered, Go
  <2> QED
    BY <1>2, <2>2 DEF Answered, rooms, history, Pair!Ends
<1>3. CASE Answer(r)
  <2>1. Phase(r) = "done"
    BY <1>0, <1>3 DEF Answer, Phase
  <2>2. Pair!Answer(r)
    BY <1>2, <1>3, <2>1 DEF Answer, Pair!Answer
  <2> QED
    BY <2>2 DEF Pair!PairNext
<1>4. CASE Fail(r)
  <2>1. pc[r] \notin {"idle", "done"}
    BY <1>4 DEF Fail, InFlight
  <2>2. Phase(r) \in {"working", "founding", "done"}
    BY <2>1 DEF Phase
  <2>3. Pair!Break(r)
    BY <1>2, <1>4, <2>1, <2>2 DEF Fail, Pair!Break
  <2> QED
    BY <2>3 DEF Pair!PairNext
<1> QED
  BY <1>1, <1>3, <1>4

LEMMA RefinesNext == DirectInv /\ [Next]_vars => [Pair!PairNext]_(Pair!pairVars)
<1> SUFFICES ASSUME DirectInv, [Next]_vars
             PROVE  Pair!PairNext \/ UNCHANGED Pair!pairVars
  OBVIOUS
<1>1. ASSUME NEW u \in Users, SetStatus(u) PROVE UNCHANGED Pair!pairVars
  BY <1>1 DEF SetStatus, rooms, local, Pair!pairVars, Phase
<1>2. CASE UNCHANGED vars
  BY <1>2 DEF vars, rooms, local, history, bounds, Pair!pairVars, Phase
<1> QED
  BY <1>1, <1>2, RefinesOpening, RefinesLeaving, RefinesEnds DEF Next, Step, Finished

\* The three statements of createDirect, the unique index and the recovery from its conflict
\* implement what the rooms promise: two users get one room, an open lets both in at one moment
\* and does not fail for losing the race, the founder alone announces the room.
THEOREM OneRoomPerPair == Spec => ImplementsPair
  BY RefinesInit, RefinesNext, InvAlways, PTL DEF Spec, ImplementsPair, Pair!PairSpec

-----------------------------------------------------------------------------
(* What the members are told of a room, when calls come one after another.  *)

LEMMA UndisturbedBefore ==
  ASSUME DirectInv, [Next]_vars, Undisturbed'
  PROVE  /\ Undisturbed
         /\ \A r \in Requests : ~Fail(r) /\ (Arrive(r) => InFlight = {})
<1> USE DEF Undisturbed
<1>1. overlaps \in Nat /\ failures \in Nat
  BY DirectAssumption DEF DirectInv, TypeOK
<1>2. overlaps' = overlaps \/ \E r \in Requests : Arrive(r)
  BY DEF Next, Step, vars, bounds, Check, Find, Create, Winner, Reactivate, ReadView, Guard,
     Target, Out, ReadAudience, ReadEvent, Emit, Answer, Fail, SetStatus, Finished, Refuse,
     Answered, Goes
<1>3. ASSUME NEW r \in Requests, Arrive(r) PROVE overlaps = 0 /\ InFlight = {}
  BY <1>1, <1>3 DEF Arrive
<1>4. failures' = failures \/ \E r \in Requests : Fail(r)
  BY DEF Next, Step, vars, bounds, Check, Find, Create, Winner, Reactivate, ReadView, Guard,
     Target, Out, ReadAudience, ReadEvent, Emit, Answer, Arrive, SetStatus, Finished, Refuse,
     Answered, Goes
<1>5. ASSUME NEW r \in Requests, Fail(r) PROVE FALSE
  BY <1>1, <1>5 DEF Fail
<1> QED
  BY <1>2, <1>3, <1>4, <1>5

\* What a step of the only call at work has to see to.
LEMMA SeenStep ==
  ASSUME DirectInv, SeenInv, Undisturbed, NEW r \in InFlight,
         NEW p, pc' = [pc EXCEPT ![r] = p], op' = op,
         UnsettledPoint(r)' => Underway(r)',
         \A k \in Keys : k # Key(r) => /\ inside'[k] = inside[k] /\ shown'[k] = shown[k]
                                       /\ createdBy'[k] = createdBy[k],
         Exists(Key(r))' => Seen(Key(r))' \/ UnsettledPoint(r)'
  PROVE  SeenInv'
<1>1. r \in Requests /\ Key(r)' = Key(r)
  BY DEF InFlight, Key, DirectKey
<1>2. \A q \in Requests : q # r => pc'[q] = pc[q] /\ pc[q] \in {"idle", "done"}
  BY DEF DirectInv, TypeOK, SeenInv, OneAtWork, InFlight
<1>3. OneAtWork'
  BY <1>2 DEF OneAtWork, InFlight
<1>4. TellsItAll'
  BY <1>2 DEF TellsItAll, UnsettledPoint
<1>5. UnsettledPoint(r)' => r \in InFlight'
  BY <1>1 DEF UnsettledPoint, InFlight
<1>6. SeenOrUnsettled'
  <2> SUFFICES ASSUME NEW k \in Keys, Exists(k)'
               PROVE  Seen(k)' \/ \E q \in InFlight' : Key(q)' = k /\ UnsettledPoint(q)'
    BY DEF SeenOrUnsettled
  <2>1. CASE k = Key(r)
    <3>1. Exists(Key(r))'
      BY <1>1, <2>1 DEF Exists
    <3>2. Seen(Key(r))' => Seen(k)'
      BY <1>1, <2>1 DEF Seen
    <3> QED
      BY <1>1, <1>5, <2>1, <3>1, <3>2
  <2>2. CASE k # Key(r)
    <3>1. Exists(k)
      BY <2>2 DEF Exists
    <3>2. ASSUME NEW q \in InFlight PROVE Key(q) # k
      BY <2>2 DEF SeenInv, OneAtWork
    <3>3. Seen(k)
      BY <3>1, <3>2 DEF SeenInv, SeenOrUnsettled
    <3> QED
      BY <2>2, <3>3 DEF Seen
  <2> QED
    BY <2>1, <2>2
<1> QED
  BY <1>3, <1>4, <1>6 DEF SeenInv

\* A step before the room is touched, or after all was told.
LEMMA SettledStep ==
  ASSUME DirectInv, SeenInv, Undisturbed, NEW r \in InFlight,
         NEW p, pc' = [pc EXCEPT ![r] = p], op' = op, UNCHANGED rooms,
         shown'[Key(r)] = shown[Key(r)], \A k \in Keys : k # Key(r) => shown'[k] = shown[k],
         ~UnsettledPoint(r), ~UnsettledPoint(r)'
  PROVE  SeenInv'
<1>1. Key(r)' = Key(r) /\ inside' = inside /\ createdBy' = createdBy
  BY DEF Key, DirectKey, rooms
<1>2. ASSUME Exists(Key(r))' PROVE Seen(Key(r))'
  <2>1. Exists(Key(r)) /\ Key(r) \in Keys
    BY <1>1, <1>2 DEF Exists
  <2>2. ASSUME NEW q \in InFlight PROVE ~UnsettledPoint(q)
    BY DEF SeenInv, OneAtWork
  <2>3. Seen(Key(r))
    BY <2>1, <2>2 DEF SeenInv, SeenOrUnsettled
  <2> QED
    BY <1>1, <2>3 DEF Seen
<1> QED
  BY <1>1, <1>2, SeenStep

\* The room of the call was seen before a step at which the call has not touched it.
LEMMA SeenBefore ==
  ASSUME SeenInv, Undisturbed, NEW r \in InFlight, ~UnsettledPoint(r), Key(r) \in Keys,
         Exists(Key(r))
  PROVE  Seen(Key(r))
<1>1. ASSUME NEW q \in InFlight PROVE ~UnsettledPoint(q)
  BY DEF SeenInv, OneAtWork
<1> QED
  BY <1>1 DEF SeenInv, SeenOrUnsettled

LEMMA SeenQuiet ==
  ASSUME DirectInv, SeenInv, Undisturbed, NEW r \in Requests,
         \/ Check(r) \/ Find(r) \/ Winner(r) \/ Guard(r) \/ Target(r)
         \/ Create(r) /\ Taken(Key(r))
         \/ Answer(r) /\ Leaving(r)
  PROVE  SeenInv'
<1>1. r \in InFlight
  BY AtWork DEF Check, Find, Winner, Guard, Target, Create, Answer
<1>2. ~UnsettledPoint(r)
  BY DEF UnsettledPoint, Opening, Leaving, Check, Find, Winner, Guard, Target, Create, Answer
<1>3. /\ op' = op /\ UNCHANGED rooms /\ shown' = shown
      /\ \E p \in {"find", "revive", "create", "winner", "target", "out", "done"} :
           pc' = [pc EXCEPT ![r] = p]
  BY DEF Check, Find, Winner, Guard, Target, Create, Answer, Leaving, Refuse, Answered, Goes, Go
<1>4. ~UnsettledPoint(r)'
  BY <1>3 DEF DirectInv, TypeOK, UnsettledPoint
<1> QED
  BY <1>1, <1>2, <1>3, <1>4, SettledStep

LEMMA SeenEntering ==
  ASSUME DirectInv, SeenInv, Undisturbed, [Next]_vars, NEW r \in Requests,
         (Create(r) /\ ~Taken(Key(r))) \/ Reactivate(r)
  PROVE  SeenInv'
<1>1. r \in InFlight /\ Opening(r) /\ Key(r) \in Keys
  BY AtWork DEF Create, Reactivate, DirectInv, CallOK, OpenPoint
<1>2. /\ inside' = [inside EXCEPT ![Key(r)] = Key(r)] /\ Goes(r, "view")
      /\ createdBy' = createdBy \/ createdBy' = [createdBy EXCEPT ![Key(r)] = op[r].actor]
  BY InvReactivate DEF Create, Reactivate
<1>3. /\ pc' = [pc EXCEPT ![r] = "view"] /\ pc'[r] = "view" /\ op' = op
      /\ Key(r)' = Key(r) /\ shown' = shown
  BY <1>2, GoesFacts DEF DirectInv, Goes
<1>4. inside'[Key(r)] = Key(r)
  BY <1>1, <1>2 DEF DirectInv, TypeOK
<1>5. UnsettledPoint(r)' /\ Entering(r)'
  BY <1>1, <1>3, <1>4 DEF UnsettledPoint, Entering, Opening
<1>6. \A k \in Keys : k # Key(r) => /\ inside'[k] = inside[k] /\ shown'[k] = shown[k]
                                    /\ createdBy'[k] = createdBy[k]
  BY <1>2, <1>3 DEF DirectInv, TypeOK
<1> QED
  BY <1>1, <1>3, <1>5, <1>6, SeenStep DEF Underway

LEMMA SeenOut ==
  ASSUME DirectInv, SeenInv, Undisturbed, NEW r \in Requests, Out(r)
  PROVE  SeenInv'
<1>1. r \in InFlight /\ Leaving(r) /\ ~UnsettledPoint(r) /\ Exists(Key(r)) /\ Key(r) \in Keys
  BY AtWork DEF Out, DirectInv, CallOK, LeavePoint, UnsettledPoint, Exists
<1>2. /\ inside' = [inside EXCEPT ![Key(r)] = inside[Key(r)] \ {op[r].actor}]
      /\ Goes(r, "audience") /\ createdBy' = createdBy
  BY DEF Out
<1>3. /\ pc' = [pc EXCEPT ![r] = "audience"] /\ pc'[r] = "audience" /\ op' = op
      /\ Key(r)' = Key(r) /\ shown' = shown
  BY <1>2, GoesFacts DEF DirectInv, Goes
<1>4. inside'[Key(r)] = inside[Key(r)] \ {op[r].actor}
  BY <1>1, <1>2 DEF DirectInv, TypeOK
<1>5. Seen(Key(r))
  BY <1>1, SeenBefore
<1>6. Parting(r)'
  <2>1. \A u \in Key(r) \ inside'[Key(r)] : u # op[r].actor => u \notin shown[Key(r)][u]
    BY <1>4, <1>5 DEF Seen
  <2> QED
    BY <1>1, <1>3, <1>4, <2>1 DEF Parting, Leaving
<1>7. UnsettledPoint(r)'
  BY <1>1, <1>3 DEF UnsettledPoint, Leaving
<1>8. \A k \in Keys : k # Key(r) => /\ inside'[k] = inside[k] /\ shown'[k] = shown[k]
                                    /\ createdBy'[k] = createdBy[k]
  BY <1>2, <1>3 DEF DirectInv, TypeOK
<1> QED
  BY <1>1, <1>3, <1>6, <1>7, <1>8, SeenStep DEF Underway

\* The reads of what is to be told are those of the room as it is.
LEMMA SeenReads ==
  ASSUME DirectInv, SeenInv, Undisturbed, NEW r \in Requests,
         ReadView(r) \/ ReadAudience(r) \/ ReadEvent(r)
  PROVE  SeenInv'
<1>0. CallOK(r) /\ r \in InFlight /\ Key(r) \subseteq Users
  BY AtWork, KeyFacts DEF DirectInv, ReadView, ReadAudience, ReadEvent
<1>1. PICK p \in {"event", "emit", "answer"} : Goes(r, p)
  BY DEF ReadView, AfterView, ReadAudience, ReadEvent
<1>2. /\ pc' = [pc EXCEPT ![r] = p] /\ pc'[r] = p /\ op' = op /\ Key(r)' = Key(r)
      /\ shown' = shown /\ createdBy' = createdBy /\ inside' = inside
  BY <1>1, GoesFacts DEF DirectInv, Goes, ReadView, ReadAudience, ReadEvent, rooms
<1>3. CASE ReadView(r)
  <2>1. Entering(r)
    BY <1>0, <1>3 DEF ReadView, CallOK, OpenPoint, SeenInv, TellsItAll, UnsettledPoint, Underway,
       Parting
  <2>2. /\ reply'[r] = Key(r)
        /\ p \in {"event", "answer"} /\ (p = "event" => audience'[r] = Key(r))
    BY <1>1, <1>2, <1>3, <2>1 DEF ReadView, AfterView, Goes, Go, Entering, DirectInv, TypeOK
  <2>3. Entering(r)' /\ UnsettledPoint(r)'
    BY <1>2, <2>1, <2>2 DEF Entering, UnsettledPoint, Opening
  <2> QED
    BY <1>0, <1>2, <2>3, SeenStep DEF Underway
<1>4. CASE ReadAudience(r)
  <2>1. Parting(r)
    BY <1>0, <1>4 DEF ReadAudience, CallOK, LeavePoint, SeenInv, TellsItAll, UnsettledPoint,
       Underway, Entering
  <2>2. pc'[r] = "event" /\ audience'[r] = Recipients(r)
    BY <1>4, GoesFacts DEF ReadAudience, DirectInv, TypeOK
  <2>3. Parting(r)' /\ UnsettledPoint(r)'
    BY <1>2, <2>1, <2>2 DEF Parting, UnsettledPoint, Leaving, Recipients
  <2> QED
    BY <1>0, <1>2, <2>3, SeenStep DEF Underway
<1>5. CASE ReadEvent(r)
  <2>1. /\ pc[r] = "event" /\ pc'[r] = "emit" /\ event'[r] = inside[Key(r)]
        /\ audience' = audience /\ reply' = reply
    BY <1>5, GoesFacts DEF ReadEvent, DirectInv, TypeOK
  <2>2. UnsettledPoint(r) /\ UnsettledPoint(r)'
    BY <1>0, <1>2, <2>1 DEF CallOK, TellPoint, FounderPoint, UnsettledPoint, Opening, Leaving
  <2>3. CASE Entering(r)
    <3>1. Entering(r)'
      BY <1>2, <2>1, <2>3 DEF Entering, Opening
    <3> QED
      BY <1>0, <1>2, <2>2, <3>1, SeenStep DEF Underway
  <2>4. CASE Parting(r)
    <3>1. Parting(r)'
      BY <1>2, <2>1, <2>4 DEF Parting, Leaving, Recipients
    <3> QED
      BY <1>0, <1>2, <2>2, <3>1, SeenStep DEF Underway
  <2> QED
    BY <2>2, <2>3, <2>4 DEF SeenInv, TellsItAll, Underway
<1> QED
  BY <1>3, <1>4, <1>5

\* What a founder tells, both are told; who has left tells those who are in and itself.
LEMMA SeenEmit ==
  ASSUME DirectInv, SeenInv, Undisturbed, NEW r \in Requests, Emit(r)
  PROVE  SeenInv'
<1> DEFINE k == Key(r)
<1>0. CallOK(r) /\ r \in InFlight /\ k \in Keys
  BY AtWork DEF DirectInv, Emit, CallOK, TellPoint, Exists
<1>1. /\ pc' = [pc EXCEPT ![r] = "answer"] /\ pc'[r] = "answer" /\ op' = op /\ Key(r)' = Key(r)
      /\ createdBy' = createdBy /\ inside' = inside /\ reply' = reply
  BY DEF Emit, Go, rooms, local, DirectInv, TypeOK, Key, DirectKey
<1>2. \A j \in Keys : j # k => shown'[j] = shown[j]
  BY <1>0 DEF Emit, DirectInv, TypeOK
<1>3. shown'[k] = [u \in Users |-> IF u \in audience[r] THEN event[r] ELSE shown[k][u]]
  BY <1>0 DEF Emit, DirectInv, TypeOK
<1>4. CASE Entering(r)
  <2>1. Entering(r)' /\ UnsettledPoint(r)'
    BY <1>1, <1>4 DEF Emit, Entering, UnsettledPoint, Opening
  <2> QED
    BY <1>0, <1>1, <1>2, <2>1, SeenStep DEF Underway
<1>5. CASE Parting(r)
  <2>1. /\ k \subseteq Users /\ op[r].actor \in k /\ inside[k] \subseteq k
        /\ \E a, b : a = op[r].actor /\ k = {a, b}
    BY <1>0, RoomFacts, KeyFacts DEF DirectInv, Key, DirectKey
  <2>2. /\ audience[r] = inside[k] \cup {op[r].actor} /\ event[r] = inside[k]
        /\ op[r].actor \notin inside[k]
    BY <1>5 DEF Emit, Parting, Recipients
  <2>3. \A u \in k \ inside[k] : u \notin shown'[k][u]
    <3> TAKE u \in k \ inside[k]
    <3>1. CASE u = op[r].actor
      BY <1>3, <2>1, <2>2, <3>1
    <3>2. CASE u # op[r].actor
      BY <1>3, <1>5, <2>1, <2>2, <3>2 DEF Parting
    <3> QED
      BY <3>1, <3>2
  <2>4. ASSUME inside[k] # {} PROVE \E u \in k : u \in inside[k] /\ shown'[k][u] = inside[k]
    <3>1. PICK u \in inside[k] : TRUE
      BY <2>4
    <3>2. shown'[k][u] = inside[k]
      BY <1>3, <2>1, <2>2, <3>1
    <3> QED
      BY <2>1, <3>1, <3>2
  <2>5. Seen(k)'
    BY <1>1, <2>1, <2>3, <2>4 DEF Seen
  <2>6. ~UnsettledPoint(r)'
    BY <1>1, <1>5 DEF Parting, UnsettledPoint, Opening, Leaving
  <2> QED
    BY <1>0, <1>1, <1>2, <2>5, <2>6, SeenStep
<1>6. UnsettledPoint(r)
  BY <1>0 DEF Emit, CallOK, TellPoint, FounderPoint, UnsettledPoint
<1> QED
  BY <1>4, <1>5, <1>6 DEF SeenInv, TellsItAll, Underway

\* Who opened a room gets its view in the answer.
LEMMA SeenAnswer ==
  ASSUME DirectInv, SeenInv, Undisturbed, NEW r \in Requests, Answer(r)
  PROVE  SeenInv'
<1> DEFINE k == Key(r)
<1>0. CallOK(r) /\ r \in InFlight /\ k \in Keys
  BY AtWork DEF DirectInv, Answer, CallOK, TellPoint, Exists
<1>1. /\ pc' = [pc EXCEPT ![r] = "done"] /\ pc'[r] = "done" /\ op' = op /\ Key(r)' = Key(r)
      /\ createdBy' = createdBy /\ inside' = inside
  BY DEF Answer, Answered, Go, rooms, DirectInv, TypeOK, Key, DirectKey
<1>2. CASE Opening(r)
  <2>1. Entering(r)
    BY <1>0, <1>2 DEF Answer, SeenInv, TellsItAll, UnsettledPoint, Underway, Parting
  <2>2. /\ inside[k] = k /\ reply[r] = k /\ op[r].actor \in k /\ op[r].actor \in Users
        /\ k \subseteq Users
    BY <2>1, KeyFacts DEF Answer, Entering, DirectInv
  <2>3. shown' = [shown EXCEPT ![k][op[r].actor] = reply[r]]
    BY <1>2 DEF Answer, Opening
  <2>4. shown'[k][op[r].actor] = k
    BY <1>0, <2>2, <2>3 DEF DirectInv, TypeOK
  <2>5. Seen(k)'
    BY <1>1, <2>2, <2>4 DEF Seen
  <2>6. \A j \in Keys : j # k => shown'[j] = shown[j]
    BY <1>0, <2>3 DEF DirectInv, TypeOK
  <2>7. ~UnsettledPoint(r)'
    BY <1>1 DEF UnsettledPoint
  <2> QED
    BY <1>0, <1>1, <2>5, <2>6, <2>7, SeenStep
<1>3. CASE Leaving(r)
  BY <1>3, SeenQuiet
<1> QED
  BY <1>0, <1>2, <1>3 DEF Answer, CallOK, TellPoint

LEMMA SeenArrive ==
  ASSUME DirectInv, SeenInv, Undisturbed, NEW r \in Requests, Arrive(r), InFlight = {}
  PROVE  SeenInv'
<1>1. PICK p \in {"check", "guard"} : pc' = [pc EXCEPT ![r] = p]
  BY DEF Arrive, Go
<1>2. \A q \in Requests : q # r => pc'[q] = pc[q] /\ pc[q] \in {"idle", "done"}
  BY <1>1 DEF DirectInv, TypeOK, InFlight
<1>3. pc'[r] \in {"check", "guard"}
  BY <1>1 DEF DirectInv, TypeOK
<1>4. OneAtWork' /\ TellsItAll'
  BY <1>2, <1>3 DEF OneAtWork, InFlight, TellsItAll, UnsettledPoint
<1>5. SeenOrUnsettled'
  BY DEF Arrive, rooms, SeenInv, SeenOrUnsettled, Seen, Exists
<1> QED
  BY <1>4, <1>5 DEF SeenInv

LEMMA SeenElse ==
  ASSUME DirectInv, SeenInv, Undisturbed, UNCHANGED <<rooms, shown, pc, op, local>>
  PROVE  SeenInv'
<1> USE DEF rooms, local
<1>1. InFlight' = InFlight
  BY DEF InFlight
<1>2. \A r : Key(r)' = Key(r) /\ UnsettledPoint(r)' = UnsettledPoint(r)
  BY DEF Key, DirectKey, UnsettledPoint, Opening, Leaving
<1>3. \A r : Underway(r)' = Underway(r)
  BY DEF Underway, Entering, Parting, Opening, Leaving, Key, DirectKey, Recipients
<1>4. \A k : Exists(k)' = Exists(k) /\ Seen(k)' = Seen(k)
  BY DEF Exists, Seen
<1>5. OneAtWork' /\ TellsItAll' /\ SeenOrUnsettled'
  BY <1>1, <1>2, <1>3, <1>4 DEF SeenInv, OneAtWork, TellsItAll, SeenOrUnsettled
<1> QED
  BY <1>5 DEF SeenInv

LEMMA SeenNext == DirectInv /\ SeenInv /\ [Next]_vars => SeenInv'
<1> SUFFICES ASSUME DirectInv, SeenInv, [Next]_vars, Undisturbed' PROVE SeenInv'
  BY DEF SeenInv
<1>1. Undisturbed /\ \A r \in Requests : ~Fail(r) /\ (Arrive(r) => InFlight = {})
  BY UndisturbedBefore
<1>2. ASSUME NEW r \in Requests, Step(r) PROVE SeenInv'
  <2>1. Create(r) => Taken(Key(r)) \/ ~Taken(Key(r))
    OBVIOUS
  <2> QED
    BY <1>1, <1>2, <2>1, SeenQuiet, SeenEntering, SeenOut, SeenReads, SeenEmit, SeenAnswer DEF Step
<1>3. ASSUME NEW u \in Users, SetStatus(u) PROVE SeenInv'
  BY <1>1, <1>3, SeenElse DEF SetStatus
<1>4. CASE UNCHANGED vars
  BY <1>1, <1>4, SeenElse DEF vars
<1> QED
  BY <1>1, <1>2, <1>3, <1>4, SeenArrive DEF Next, Finished

LEMMA SeenInit == Init => SeenInv
<1> SUFFICES ASSUME Init PROVE SeenInv
  OBVIOUS
<1>1. OneAtWork /\ TellsItAll
  BY DEF Init, OneAtWork, TellsItAll, InFlight, UnsettledPoint
<1>2. SeenOrUnsettled
  BY DEF Init, SeenOrUnsettled, Exists
<1> QED
  BY <1>1, <1>2 DEF SeenInv

\* When calls came one after the other, whoever has left a room was told so and does not see
\* itself in it, and of those in it one at least was shown its members as they are.
THEOREM RoomsAreSeen == Spec => []RoomIsSeen
<1>1. ASSUME DirectInv, SeenInv PROVE RoomIsSeen
  <2> SUFFICES ASSUME Undisturbed, InFlight = {}, NEW k \in Keys, Exists(k) PROVE Seen(k)
    BY DEF RoomIsSeen, Seen
  <2> QED
    BY <1>1 DEF SeenInv, SeenOrUnsettled
<1> QED
  BY <1>1, InvAlways, SeenInit, SeenNext, PTL DEF Spec
=============================================================================
