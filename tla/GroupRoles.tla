----------------------------- MODULE GroupRoles -----------------------------
(***************************************************************************)
(* Membership and roles of one group room: RoomsService.addMembers,        *)
(* updateMemberRole and removeMember (with transferOwnership), behind      *)
(* RoomMemberGuard (src/rooms, src/common/guards).                         *)
(*                                                                         *)
(* A request reads the actor's role once, in the guard, and acts on that   *)
(* reading to its end.  Every database statement is an action: between two *)
(* of them other requests may run, on this node or another.                *)
(***************************************************************************)
EXTENDS Naturals

CONSTANTS
  Users,
  Requests,     \* calls of the three endpoints
  Nobody,       \* no user
  MaxOverlaps,  \* bound on the requests that arrive while another is handled
  MaxFailures   \* bound on the requests that die half-way

ASSUME RolesAssumption ==
  /\ Nobody \notin Users
  /\ MaxOverlaps \in Nat
  /\ MaxFailures \in Nat

VARIABLES
  member,       \* member[u]: whether u has a RoomMember row and leftAt is null
  role,         \* role[u]: RoomMember.role, kept when u leaves
  joinedAt,     \* joinedAt[u]: RoomMember.joinedAt, in joins so far
  joins,        \* the clock joinedAt is read from
  shown,        \* shown[u]: the room view u was last sent
  pc,           \* pc[r]: what request r is about to do
  op,           \* op[r]: its endpoint and parameters
  asRole,       \* asRole[r]: the actor's role as the guard read it
  seenRole,     \* seenRole[r]: the target's role as r read it
  rejoining,    \* rejoining[r]: left members addMembers is still to bring back
  newcomers,    \* newcomers[r]: users addMembers is still to insert
  heir,         \* heir[r]: the next owner transferOwnership chose
  audience,     \* audience[r]: who r is going to send the view to
  view,         \* view[r]: the view r is going to send
  unannounced,  \* changes no SYSTEM message tells of, by request (history)
  overlaps,     \* requests that arrived while another was handled
  failures      \* requests that died

room == <<member, role, joinedAt, joins>>
local == <<asRole, seenRole, rejoining, newcomers, heir, audience, view>>
faults == <<overlaps, failures>>
vars == <<room, shown, pc, op, local, unannounced, faults>>

-----------------------------------------------------------------------------
Roles == {"OWNER", "ADMIN", "MEMBER"}
Standing == {"none", "active", "left"}
Points == {"idle", "guard", "existing", "join", "target", "write", "leave", "heirs",
           "crown", "announce", "audience", "view", "emit", "done", "failed"}

Op == [kind : {"add"}, actor : Users, targets : SUBSET Users \ {{}}, to : {"MEMBER"}]
        \cup [kind : {"role"}, actor : Users, targets : {{u} : u \in Users}, to : Roles]
        \cup [kind : {"remove"}, actor : Users, targets : {{u} : u \in Users},
              to : {"MEMBER"}]
NoOp == [kind |-> "none", actor |-> Nobody, targets |-> {}, to |-> "MEMBER"]

Views == [Users -> Roles \cup {"none"}]

Active == {u \in Users : member[u] = "active"}
Owners == {u \in Active : role[u] = "OWNER"}
InFlight == {r \in Requests : pc[r] \notin {"idle", "done", "failed"}}

\* A user whose row a request has changed: as the target it names, as the heir of an owner
\* that went, or as the owner that gave the group away.
Change == [by : Requests, user : Users, part : {"target", "heir", "giver"}]

\* What getRoomView shows of the members: who is in the room, with which role.
RoomView == [u \in Users |-> IF u \in Active THEN role[u] ELSE "none"]
EmptyView == [u \in Users |-> "none"]

Init ==
  \* A group as createGroup leaves it: the creator owns it, and all were sent its view.
  /\ \E creator \in Users, others \in SUBSET Users :
       /\ member = [u \in Users |->
                      IF u \in others \cup {creator} THEN "active" ELSE "none"]
       /\ role = [u \in Users |-> IF u = creator THEN "OWNER" ELSE "MEMBER"]
  /\ joinedAt = [u \in Users |-> 0]
  /\ joins = 0
  /\ shown = [u \in Users |-> RoomView]
  /\ pc = [r \in Requests |-> "idle"]
  /\ op = [r \in Requests |-> NoOp]
  /\ asRole = [r \in Requests |-> "MEMBER"]
  /\ seenRole = [r \in Requests |-> "MEMBER"]
  /\ rejoining = [r \in Requests |-> {}]
  /\ newcomers = [r \in Requests |-> {}]
  /\ heir = [r \in Requests |-> Nobody]
  /\ audience = [r \in Requests |-> {}]
  /\ view = [r \in Requests |-> EmptyView]
  /\ unannounced = {}
  /\ overlaps = 0
  /\ failures = 0

Go(r, p) == pc' = [pc EXCEPT ![r] = p]

\* A request that has ended has no locals any more.
Forget(r) ==
  /\ op' = [op EXCEPT ![r] = NoOp]
  /\ asRole' = [asRole EXCEPT ![r] = "MEMBER"]
  /\ seenRole' = [seenRole EXCEPT ![r] = "MEMBER"]
  /\ rejoining' = [rejoining EXCEPT ![r] = {}]
  /\ newcomers' = [newcomers EXCEPT ![r] = {}]
  /\ heir' = [heir EXCEPT ![r] = Nobody]
  /\ audience' = [audience EXCEPT ![r] = {}]
  /\ view' = [view EXCEPT ![r] = EmptyView]

\* It is answered, with a result or the error of a check; or dies of one it did not expect.
Finish(r) == Go(r, "done") /\ Forget(r)
Throw(r) == Go(r, "failed") /\ Forget(r)

Changes(r, us, part) == {[by |-> r, user |-> u, part |-> part] : u \in us}
Changed(r, us) == unannounced' = unannounced \cup Changes(r, us, "target")

Refuse(r) == Finish(r) /\ UNCHANGED <<room, shown, unannounced, faults>>

-----------------------------------------------------------------------------
(* The guard, and the checks each endpoint makes before it writes.         *)

Arrive(r) ==
  /\ pc[r] = "idle"
  /\ InFlight = {} \/ overlaps < MaxOverlaps
  /\ overlaps' = IF InFlight = {} THEN overlaps ELSE overlaps + 1
  /\ \E o \in Op : op' = [op EXCEPT ![r] = o]
  /\ Go(r, "guard")
  /\ UNCHANGED <<room, shown, local, unannounced, failures>>

\* The roles an endpoint asks of the actor before it reads anything else.
Allowed(kind) ==
  CASE kind = "add" -> {"OWNER", "ADMIN"}
    [] kind = "role" -> {"OWNER"}
    [] kind = "remove" -> Roles

Admit(r) ==
  LET actor == op[r].actor IN
  /\ actor \in Active
  /\ role[actor] \in Allowed(op[r].kind)
  /\ asRole' = [asRole EXCEPT ![r] = role[actor]]
  /\ Go(r, IF op[r].kind = "add" THEN "existing" ELSE "target")
  /\ UNCHANGED <<room, shown, op, seenRole, rejoining, newcomers, heir, audience, view,
                 unannounced, faults>>

Guard(r) ==
  /\ pc[r] = "guard"
  /\ \/ Admit(r)
     \/ /\ op[r].actor \in Active => role[op[r].actor] \notin Allowed(op[r].kind)
        /\ Refuse(r)

\* Mutant of MayRemove: an ADMIN removes another ADMIN.
MayRemoveNonOwner(actorRole, targetRole) == actorRole # "MEMBER" /\ targetRole # "OWNER"

\* updateMemberRole and removeMember read the target's row.
MayRemove(actorRole, targetRole) ==
  \/ actorRole = "OWNER" /\ targetRole # "OWNER"
  \/ actorRole = "ADMIN" /\ targetRole = "MEMBER"

MayProceed(r, t) ==
  /\ t \in Active
  /\ op[r].kind = "role" => t # op[r].actor
  /\ op[r].kind = "remove" => t = op[r].actor \/ MayRemove(asRole[r], role[t])

ReadTarget(r) ==
  /\ pc[r] = "target"
  /\ \E t \in op[r].targets :
       \/ /\ MayProceed(r, t)
          /\ seenRole' = [seenRole EXCEPT ![r] = role[t]]
          /\ Go(r, IF op[r].kind = "role" THEN "write" ELSE "leave")
          /\ UNCHANGED <<room, shown, op, asRole, rejoining, newcomers, heir, audience,
                         view, unannounced, faults>>
       \/ ~MayProceed(r, t) /\ Refuse(r)

-----------------------------------------------------------------------------
(* addMembers                                                              *)

\* assertActiveUsers may refuse; then the head and the targets' rows are read.
ReadExisting(r) ==
  /\ pc[r] = "existing"
  /\ LET back == {u \in op[r].targets : member[u] = "left"}
         new == {u \in op[r].targets : member[u] = "none"} IN
       \/ /\ back \cup new # {}
          /\ rejoining' = [rejoining EXCEPT ![r] = back]
          /\ newcomers' = [newcomers EXCEPT ![r] = new]
          /\ Go(r, "join")
          /\ UNCHANGED <<room, shown, op, asRole, seenRole, heir, audience, view,
                         unannounced, faults>>
       \/ Refuse(r)

\* Mutant of JoinRow: a member who comes back keeps the role of the old row.
JoinKeepsRole(u) ==
  /\ member' = [member EXCEPT ![u] = "active"]
  /\ joinedAt' = [joinedAt EXCEPT ![u] = joins + 1]
  /\ joins' = joins + 1
  /\ UNCHANGED role

\* The row of an added user, whether it is updated or created.
JoinRow(u) ==
  /\ member' = [member EXCEPT ![u] = "active"]
  /\ role' = [role EXCEPT ![u] = "MEMBER"]
  /\ joinedAt' = [joinedAt EXCEPT ![u] = joins + 1]
  /\ joins' = joins + 1

Joined(r, u) ==
  /\ JoinRow(u)
  /\ Changed(r, {u})
  /\ rejoining' = [rejoining EXCEPT ![r] = @ \ {u}]
  /\ newcomers' = [newcomers EXCEPT ![r] = @ \ {u}]
  /\ Go(r, IF rejoining[r] \cup newcomers[r] = {u} THEN "audience" ELSE "join")
  /\ UNCHANGED <<shown, op, asRole, seenRole, heir, audience, view, faults>>

\* One turn of the loop.  The update of a row that was there always succeeds; the
\* create of one that has come since is a P2002 nobody catches.
Join(r) ==
  /\ pc[r] = "join"
  /\ \/ \E u \in rejoining[r] : Joined(r, u)
     \/ \E u \in newcomers[r] : member[u] = "none" /\ Joined(r, u)
     \/ /\ \E u \in newcomers[r] : member[u] # "none"
        /\ Throw(r)
        /\ UNCHANGED <<room, shown, unannounced, faults>>

-----------------------------------------------------------------------------
(* updateMemberRole and removeMember                                       *)

\* Mutant of Transfer: the previous owner is not demoted.
GiveOnly(r, t) == role' = [role EXCEPT ![t] = op[r].to]

\* Who gives the group away with the role it sets.
Givers(r) == IF op[r].to = "OWNER" THEN {op[r].actor} ELSE {}

\* The transaction: the new role, and the actor demoted when it gave its own away.
Transfer(r, t) ==
  role' = IF op[r].to = "OWNER"
            THEN [role EXCEPT ![t] = "OWNER", ![op[r].actor] = "ADMIN"]
            ELSE [role EXCEPT ![t] = op[r].to]

WriteRole(r) ==
  /\ pc[r] = "write"
  /\ \E t \in op[r].targets : Transfer(r, t)
  /\ unannounced' = unannounced \cup Changes(r, op[r].targets, "target")
                                \cup Changes(r, Givers(r), "giver")
  /\ Go(r, "announce")
  /\ UNCHANGED <<member, joinedAt, joins, shown, op, local, faults>>

\* An owner that goes is followed by transferOwnership.
Leave(r) ==
  /\ pc[r] = "leave"
  /\ \E t \in op[r].targets : member' = [member EXCEPT ![t] = "left"]
  /\ Changed(r, op[r].targets)
  /\ Go(r, IF seenRole[r] = "OWNER" THEN "heirs" ELSE "announce")
  /\ UNCHANGED <<role, joinedAt, joins, shown, op, local, faults>>

\* The candidates in the order of the query: the first ADMIN by joinedAt, or the
\* first row by role and joinedAt.  Rows that joined together come in any order.
Candidates ==
  LET with(rl) == {u \in Active : role[u] = rl}
      pool == IF with("ADMIN") # {} THEN with("ADMIN")
              ELSE IF with("OWNER") # {} THEN with("OWNER") ELSE Active
  IN  {u \in pool : \A v \in pool : joinedAt[u] <= joinedAt[v]}

Heirs == Candidates

ReadHeirs(r) ==
  /\ pc[r] = "heirs"
  /\ \/ \E u \in Heirs : heir' = [heir EXCEPT ![r] = u] /\ Go(r, "crown")
     \/ Active = {} /\ Go(r, "announce") /\ UNCHANGED heir
  /\ UNCHANGED <<room, shown, op, asRole, seenRole, rejoining, newcomers, audience, view,
                 unannounced, faults>>

Crown(r) ==
  /\ pc[r] = "crown"
  /\ role' = [role EXCEPT ![heir[r]] = "OWNER"]
  /\ unannounced' = unannounced \cup Changes(r, {heir[r]}, "heir")
  /\ Go(r, "announce")
  /\ UNCHANGED <<member, joinedAt, joins, shown, op, local, faults>>

-----------------------------------------------------------------------------
(* Telling the room: the SYSTEM message and room:updated.  addMembers sends *)
(* room:updated first, the other two the SYSTEM message first.              *)

\* Mutant of Announced: a kick is not announced.
AnnouncedIfAsked(r) ==
  IF op[r].kind = "remove" /\ op[r].actor \notin op[r].targets THEN {}
  ELSE {c \in unannounced : c.by = r /\ c.part = "target"}

\* MEMBER_JOINED, ROLE_CHANGED, MEMBER_LEFT and MEMBER_KICKED name the targets of the request
\* and nobody else: neither the heir of an owner that left nor the owner that was demoted.
Announced(r) == {c \in unannounced : c.by = r /\ c.part = "target"}

\* createSystemMessage: a whole createMessage of MessageSend.
Announce(r) ==
  /\ pc[r] = "announce"
  /\ unannounced' = unannounced \ Announced(r)
  /\ IF op[r].kind = "add" THEN Finish(r)
     ELSE Go(r, "audience") /\ UNCHANGED <<op, local>>
  /\ UNCHANGED <<room, shown, faults>>

\* Mutant of Recipients: who leaves is not told.
Remaining(r) == Active
Recipients(r) == IF op[r].kind = "remove" THEN Active \cup op[r].targets ELSE Active

ReadAudience(r) ==
  /\ pc[r] = "audience"
  /\ audience' = [audience EXCEPT ![r] = Recipients(r)]
  /\ Go(r, "view")
  /\ UNCHANGED <<room, shown, op, asRole, seenRole, rejoining, newcomers, heir, view,
                 unannounced, faults>>

ReadView(r) ==
  /\ pc[r] = "view"
  /\ view' = [view EXCEPT ![r] = RoomView]
  /\ Go(r, "emit")
  /\ UNCHANGED <<room, shown, op, asRole, seenRole, rejoining, newcomers, heir, audience,
                 unannounced, faults>>

EmitUpdated(r) ==
  /\ pc[r] = "emit"
  /\ shown' = [u \in Users |-> IF u \in audience[r] THEN view[r] ELSE shown[u]]
  /\ IF op[r].kind = "add" THEN Go(r, "announce") /\ UNCHANGED <<op, local>>
     ELSE Finish(r)
  /\ UNCHANGED <<room, unannounced, faults>>

-----------------------------------------------------------------------------
Step(r) ==
  \/ Guard(r) \/ ReadTarget(r)
  \/ ReadExisting(r) \/ Join(r)
  \/ WriteRole(r) \/ Leave(r) \/ ReadHeirs(r) \/ Crown(r)
  \/ Announce(r) \/ ReadAudience(r) \/ ReadView(r) \/ EmitUpdated(r)

\* A statement throws or the node dies; what was written stays.
Fail(r) ==
  /\ r \in InFlight
  /\ failures < MaxFailures
  /\ failures' = failures + 1
  /\ Throw(r)
  /\ UNCHANGED <<room, shown, unannounced, overlaps>>

Finished ==
  /\ \A r \in Requests : pc[r] \in {"done", "failed"}
  /\ UNCHANGED vars

Next ==
  \/ \E r \in Requests : Arrive(r) \/ Step(r) \/ Fail(r)
  \/ Finished

Spec == Init /\ [][Next]_vars

-----------------------------------------------------------------------------
(* Properties.                                                             *)

\* The types, with an heir that exists wherever one is crowned.
TypeOK ==
  /\ member \in [Users -> Standing]
  /\ role \in [Users -> Roles]
  /\ joinedAt \in [Users -> Nat]
  /\ joins \in Nat
  /\ shown \in [Users -> Views]
  /\ pc \in [Requests -> Points]
  /\ op \in [Requests -> Op \cup {NoOp}]
  /\ asRole \in [Requests -> Roles]
  /\ seenRole \in [Requests -> Roles]
  /\ rejoining \in [Requests -> SUBSET Users]
  /\ newcomers \in [Requests -> SUBSET Users]
  /\ heir \in [Requests -> Users \cup {Nobody}]
  /\ \A r \in Requests : pc[r] = "crown" => heir[r] \in Users
  /\ audience \in [Requests -> SUBSET Users]
  /\ view \in [Requests -> Views]
  /\ unannounced \subseteq Change
  /\ overlaps \in 0..MaxOverlaps
  /\ failures \in 0..MaxFailures

\* Requests have come one after the other so far, and none has died half-way.
Undisturbed == overlaps = 0 /\ failures = 0

\* README: there is always one owner.  Whenever no request is being handled, a group
\* that still has members has exactly one active OWNER.
OneOwner ==
  InFlight = {} /\ Active # {} => \E u \in Users : Owners = {u}

\* So it is, through transfers, kicks, departures of the owner and returns of former
\* owners, as long as requests come one after the other and none dies.
OneOwnerInPeace == Undisturbed => OneOwner

Outranks == {<<"OWNER", "ADMIN">>, <<"OWNER", "MEMBER">>, <<"ADMIN", "MEMBER">>}

\* README, group permissions: a member goes by its own request, or by one of an active
\* OWNER (not for an OWNER) or of an active ADMIN (for a MEMBER only), judged by the
\* roles at the moment it goes, while requests come one after the other.
RemovalRespectsRank ==
  [][\A u \in Active : Undisturbed /\ u \notin Active' =>
       \E r \in Requests :
         LET actor == op[r].actor IN
         /\ pc[r] = "leave" /\ u \in op[r].targets
         /\ \/ actor = u
            \/ actor \in Active /\ <<role[actor], role[u]>> \in Outranks]_vars

\* README: ownership is transferred by the owner or, when it leaves, by the server.  No
\* other step makes an active OWNER, whatever overlaps or dies half-way: a former owner
\* who is brought back, while its old row still says OWNER, comes back a MEMBER.
OwnershipIsGiven ==
  [][\A u \in Users : u \in Owners' \ Owners =>
       \E r \in Requests :
         \/ pc[r] = "write" /\ asRole[r] = "OWNER" /\ op[r].to = "OWNER" /\ u \in op[r].targets
         \/ pc[r] = "crown" /\ seenRole[r] = "OWNER" /\ u = heir[r]]_vars

\* README: entering, leaving, being removed and changing role are announced by a SYSTEM
\* message.  However requests overlap and whatever dies, one that was answered has announced
\* what became of every target it names; only one that died in between (of a P2002 in the loop
\* of addMembers, say) leaves a target nobody tells of.  The roles that change along with
\* ownership, the heir's and the former owner's, are in no message: only room:updated has them.
ChangesAreAnnounced ==
  \A c \in unannounced : c.part = "target" => pc[c.by] # "done"

\* Whenever no request is being handled, and they come one after the other, the last
\* room view every active member was sent is the room as it is, and one who is not
\* active was last sent a view without itself.
MembersSeeTheRoom ==
  Undisturbed /\ InFlight = {} =>
    /\ \A u \in Active : shown[u] = RoomView
    /\ \A u \in Users \ Active : shown[u][u] = "none"
=============================================================================
