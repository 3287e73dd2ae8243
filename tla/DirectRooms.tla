----------------------------- MODULE DirectRooms ----------------------------
(***************************************************************************)
(* The 1:1 rooms: RoomsService.createDirect with reactivateDirect, and     *)
(* removeMember on a room of type DIRECT (src/rooms, src/common/guards).   *)
(*                                                                         *)
(* A room is looked for and created in two statements; that two calls do   *)
(* not create it twice rests on the unique index of Room.directKey.  Every *)
(* database statement is an action, and meanwhile the administrator may    *)
(* block and unblock users.                                                *)
(***************************************************************************)
EXTENDS Naturals

CONSTANTS
  Users,
  Requests,     \* calls of POST /rooms and DELETE /rooms/:id/members/:userId
  Nobody,       \* the creator of a room that does not exist
  MaxOverlaps,  \* bound on the requests that arrive while another is handled
  MaxFailures,  \* bound on the requests that die half-way
  MaxChanges    \* bound on the users blocked or unblocked

ASSUME DirectAssumption ==
  /\ Nobody \notin Users
  /\ MaxOverlaps \in Nat /\ MaxFailures \in Nat /\ MaxChanges \in Nat

VARIABLES
  createdBy,  \* createdBy[k]: Room.createdBy of the room with directKey k, or Nobody
  inside,     \* inside[k]: the users whose row in it has no leftAt
  registered, \* the users whose status is ACTIVE
  shown,      \* shown[k][u]: the members in the view of the room u was last sent
  pc,         \* pc[r]: what request r is about to do
  op,         \* op[r]: its endpoint, the caller and the other user of the pair
  creates,    \* the requests whose create succeeded
  reply,      \* reply[r]: the view r is going to answer with
  event,      \* event[r]: the view it is going to emit
  audience,   \* audience[r]: to whom
  outcome,    \* outcome[r]: what the caller was told
  announced,  \* the rooms of which ROOM_CREATED was emitted (history)
  vetted,     \* the open calls during which both users were once ACTIVE (history)
  overlaps,   \* requests that arrived while another was handled
  failures,   \* requests that died
  changes     \* users blocked or unblocked

rooms == <<createdBy, inside>>
local == <<creates, reply, event, audience>>
history == <<announced, vetted>>
bounds == <<overlaps, failures, changes>>
vars == <<rooms, registered, shown, pc, op, local, outcome, history, bounds>>

-----------------------------------------------------------------------------
Kinds == {"open", "leave", "kick"}
Points == {"idle", "check", "find", "create", "winner", "revive", "view", "guard", "target",
           "out", "audience", "event", "emit", "answer", "done"}
InFlight == {r \in Requests : pc[r] \notin {"idle", "done"}}

\* The two ids in one order: the same key for both directions.
DirectKey(a, b) == {a, b}
Keys == {DirectKey(a, b) : a \in Users, b \in Users} \ {{a} : a \in Users}
Key(r) == DirectKey(op[r].actor, op[r].other)

Exists(k) == k \in Keys /\ createdBy[k] # Nobody
BothActive(r) == {op[r].actor, op[r].other} \subseteq registered

Init ==
  /\ createdBy = [k \in Keys |-> Nobody]
  /\ inside = [k \in Keys |-> {}]
  /\ registered = Users
  /\ shown = [k \in Keys |-> [u \in Users |-> {}]]
  /\ pc = [r \in Requests |-> "idle"]
  /\ \E u \in Users : op = [r \in Requests |-> [kind |-> "open", actor |-> u, other |-> u]]
  /\ creates = {}
  /\ reply = [r \in Requests |-> {}] /\ event = reply /\ audience = reply
  /\ outcome = [r \in Requests |-> "none"]
  /\ announced = {} /\ vetted = {}
  /\ overlaps = 0 /\ failures = 0 /\ changes = 0

Go(r, p) == pc' = [pc EXCEPT ![r] = p]

\* The request writes nothing but what is said beside this.
Goes(r, p) ==
  /\ Go(r, p)
  /\ UNCHANGED <<registered, shown, op, outcome, history, bounds>>

Answered(r, o) ==
  /\ Go(r, "done")
  /\ outcome' = [outcome EXCEPT ![r] = o]
  /\ reply' = [reply EXCEPT ![r] = {}]
  /\ event' = [event EXCEPT ![r] = {}]
  /\ audience' = [audience EXCEPT ![r] = {}]
  /\ UNCHANGED <<rooms, registered, op, creates, history, overlaps, changes>>

Refuse(r) == Answered(r, "refused") /\ UNCHANGED <<shown, failures>>

Arrive(r) ==
  /\ pc[r] = "idle"
  /\ InFlight = {} \/ overlaps < MaxOverlaps
  /\ overlaps' = IF InFlight = {} THEN overlaps ELSE overlaps + 1
  /\ \E k \in Kinds, a \in Users, b \in Users :
       /\ op' = [op EXCEPT ![r] = [kind |-> k, actor |-> a, other |-> b]]
       /\ Go(r, IF k = "open" THEN "check" ELSE "guard")
       /\ vetted' = IF {a, b} \subseteq registered THEN vetted \cup {r} ELSE vetted
  /\ UNCHANGED <<rooms, registered, shown, local, outcome, announced, failures, changes>>

-----------------------------------------------------------------------------
(* createDirect                                                            *)

\* Mutant of MayOpen: only the caller's status is asked for.
MayOpenAlone(r) == op[r].actor # op[r].other /\ op[r].actor \in registered
MayOpen(r) == op[r].actor # op[r].other /\ BothActive(r)

Check(r) ==
  /\ pc[r] = "check"
  /\ \/ MayOpen(r) /\ Goes(r, "find") /\ UNCHANGED <<rooms, local>>
     \/ ~MayOpen(r) /\ Refuse(r)

Find(r) ==
  /\ pc[r] = "find"
  /\ Goes(r, IF Exists(Key(r)) THEN "revive" ELSE "create")
  /\ UNCHANGED <<rooms, local>>

\* Mutant of Taken: directKey is not unique.
NeverTaken(k) == FALSE

\* The unique index of Room.directKey.
Taken(k) == Exists(k)

\* The room with both rows, or P2002 when another call has created it since.
Create(r) ==
  LET k == Key(r) IN
  /\ pc[r] = "create"
  /\ \/ /\ ~Taken(k)
        /\ createdBy' = [createdBy EXCEPT ![k] = op[r].actor]
        /\ inside' = [inside EXCEPT ![k] = k]
        /\ creates' = creates \cup {r}
        /\ Goes(r, "view")
        /\ UNCHANGED <<reply, event, audience>>
     \/ Taken(k) /\ Goes(r, "winner") /\ UNCHANGED <<rooms, local>>

\* Mutant of AfterConflict: the P2002 goes to the caller.
ConflictIsThrown(r) == "none"

\* Whom a conflict leads to: the room that won, or nobody, and then the error is thrown.
AfterConflict(r) == IF Exists(Key(r)) THEN "revive" ELSE "none"

Winner(r) ==
  /\ pc[r] = "winner"
  /\ IF AfterConflict(r) = "revive"
       THEN Goes(r, "revive") /\ UNCHANGED <<rooms, local>>
       ELSE Answered(r, "failed") /\ UNCHANGED <<shown, failures>>

\* The rows updateMany takes leftAt from.
Revived(r) == Key(r)

\* reactivateDirect, which tells nobody.
Reactivate(r) ==
  /\ pc[r] = "revive"
  /\ inside' = [inside EXCEPT ![Key(r)] = @ \cup Revived(r)]
  /\ Goes(r, "view")
  /\ UNCHANGED <<createdBy, local>>

\* A new room is announced.
AfterView(r) == IF r \in creates THEN "event" ELSE "answer"

\* getRoomView for the answer; a new room is then announced to both.
ReadView(r) ==
  /\ pc[r] = "view"
  /\ reply' = [reply EXCEPT ![r] = inside[Key(r)]]
  /\ audience' = [audience EXCEPT ![r] = IF r \in creates THEN Key(r) ELSE {}]
  /\ Goes(r, AfterView(r))
  /\ UNCHANGED <<rooms, creates, event>>

-----------------------------------------------------------------------------
(* removeMember on a DIRECT room, behind RoomMemberGuard                    *)

Guard(r) ==
  /\ pc[r] = "guard"
  /\ \/ Exists(Key(r)) /\ op[r].actor \in inside[Key(r)]
        /\ Goes(r, "target") /\ UNCHANGED <<rooms, local>>
     \/ (Exists(Key(r)) => op[r].actor \notin inside[Key(r)]) /\ Refuse(r)

\* Both are MEMBERs: nobody removes the other.
Target(r) ==
  /\ pc[r] = "target"
  /\ \/ op[r].kind = "leave" /\ op[r].actor \in inside[Key(r)]
        /\ Goes(r, "out") /\ UNCHANGED <<rooms, local>>
     \/ (op[r].kind = "leave" => op[r].actor \notin inside[Key(r)]) /\ Refuse(r)

Out(r) ==
  /\ pc[r] = "out"
  /\ inside' = [inside EXCEPT ![Key(r)] = @ \ {op[r].actor}]
  /\ Goes(r, "audience")
  /\ UNCHANGED <<createdBy, local>>

\* Mutant of Recipients: who left is not told.
RecipientsLeft(r) == inside[Key(r)]

\* The members that remain, and the one who went.
Recipients(r) == inside[Key(r)] \cup {op[r].actor}

ReadAudience(r) ==
  /\ pc[r] = "audience"
  /\ audience' = [audience EXCEPT ![r] = Recipients(r)]
  /\ Goes(r, "event")
  /\ UNCHANGED <<rooms, creates, reply, event>>

-----------------------------------------------------------------------------
(* emitLifecycle of both endpoints, and the answer                         *)

ReadEvent(r) ==
  /\ pc[r] = "event"
  /\ event' = [event EXCEPT ![r] = inside[Key(r)]]
  /\ Goes(r, "emit")
  /\ UNCHANGED <<rooms, creates, reply, audience>>

Emit(r) ==
  /\ pc[r] = "emit"
  /\ shown' = [shown EXCEPT ![Key(r)] =
                 [u \in Users |-> IF u \in audience[r] THEN event[r] ELSE @[u]]]
  /\ announced' = IF r \in creates THEN announced \cup {Key(r)} ELSE announced
  /\ Go(r, "answer")
  /\ UNCHANGED <<rooms, registered, op, local, outcome, vetted, bounds>>

\* POST /rooms answers with the view, DELETE with nothing.
Answer(r) ==
  /\ pc[r] = "answer"
  /\ Answered(r, "ok")
  /\ shown' = IF op[r].kind = "open"
                THEN [shown EXCEPT ![Key(r)][op[r].actor] = reply[r]]
                ELSE shown
  /\ UNCHANGED failures

-----------------------------------------------------------------------------
\* A statement throws or the node dies; what was written stays.
Fail(r) ==
  /\ r \in InFlight
  /\ failures < MaxFailures
  /\ failures' = failures + 1
  /\ Answered(r, "failed")
  /\ UNCHANGED shown

\* The administrator blocks or unblocks a user.
SetStatus(u) ==
  /\ changes < MaxChanges
  /\ changes' = changes + 1
  /\ registered' = IF u \in registered THEN registered \ {u} ELSE registered \cup {u}
  /\ vetted' = vetted \cup {r \in InFlight : {op[r].actor, op[r].other} \subseteq registered'}
  /\ UNCHANGED <<rooms, shown, pc, op, local, outcome, announced, overlaps, failures>>

Step(r) ==
  \/ Check(r) \/ Find(r) \/ Create(r) \/ Winner(r) \/ Reactivate(r) \/ ReadView(r)
  \/ Guard(r) \/ Target(r) \/ Out(r) \/ ReadAudience(r)
  \/ ReadEvent(r) \/ Emit(r) \/ Answer(r)

Finished ==
  /\ \A r \in Requests : pc[r] = "done"
  /\ UNCHANGED vars

Next ==
  \/ \E r \in Requests : Arrive(r) \/ Step(r) \/ Fail(r)
  \/ \E u \in Users : SetStatus(u)
  \/ Finished

Spec == Init /\ [][Next]_vars

-----------------------------------------------------------------------------
(* Properties.                                                             *)

\* The types; whoever is inside belongs to the pair of a room that exists, and no two calls
\* have created one room.
TypeOK ==
  /\ createdBy \in [Keys -> Users \cup {Nobody}] /\ inside \in [Keys -> SUBSET Users]
  /\ \A k \in Keys : inside[k] \subseteq k /\ (inside[k] # {} => Exists(k))
  /\ registered \subseteq Users
  /\ shown \in [Keys -> [Users -> SUBSET Users]]
  /\ pc \in [Requests -> Points]
  /\ op \in [Requests -> [kind : Kinds, actor : Users, other : Users]]
  /\ creates \subseteq Requests
  /\ \A r, q \in creates : Key(r) = Key(q) => r = q
  /\ {reply, event, audience} \subseteq [Requests -> SUBSET Users]
  /\ outcome \in [Requests -> {"none", "ok", "refused", "failed"}]
  /\ announced \subseteq Keys /\ vetted \subseteq Requests
  /\ overlaps \in 0..MaxOverlaps /\ failures \in 0..MaxFailures /\ changes \in 0..MaxChanges

\* How the requests and rooms look when all that matters is what they promise.
Phase(r) ==
  CASE pc[r] = "idle" -> "new"
    [] pc[r] = "done" -> "answered"
    [] pc[r] \in {"view", "event", "emit"} -> IF r \in creates THEN "founding" ELSE "done"
    [] pc[r] \in {"audience", "answer"} -> "done"
    [] OTHER -> "working"

Pair == INSTANCE PairRoom WITH
  founder <- createdBy,
  call <- op,
  phase <- [r \in Requests |-> Phase(r)]

\* The spec: "1:1 rooms: if there is a room with the same partner, the existing one is
\* returned".  Whatever overlaps, two users get one room, an open lets both in at one moment
\* and never fails for losing the race, its founder alone announces it, before its answer,
\* and a refused call has changed nothing.
ImplementsPair == Pair!PairSpec

\* assertActiveUsers: whoever is put into a room is put there by a call during which both
\* users were once ACTIVE together, however long ago the statuses were read.
BothWereActive ==
  [][\A k \in Keys : inside'[k] \ inside[k] # {} =>
       \E r \in vetted : Key(r) = k /\ pc[r] \in {"create", "revive"}]_vars

Undisturbed == overlaps = 0 /\ failures = 0

\* The spec: room:created and room:updated tell of new rooms and of changes of members.
\* After requests that came one after the other, whoever left was told so, whoever was left
\* alone sees that, and of two one at least sees both: the one who opened the room last.
RoomIsSeen ==
  Undisturbed /\ InFlight = {} => \A k \in Keys : Exists(k) =>
    /\ \A u \in k \ inside[k] : u \notin shown[k][u]
    /\ \E u \in k : inside[k] # {} => u \in inside[k] /\ shown[k][u] = inside[k]
=============================================================================
