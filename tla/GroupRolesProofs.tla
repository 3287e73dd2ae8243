-------------------------- MODULE GroupRolesProofs --------------------------
(***************************************************************************)
(* Theorems about GroupRoles, for any number of users and requests.        *)
(***************************************************************************)
EXTENDS GroupRoles, TLAPS

(***************************************************************************)
(* The invariant behind OneOwner when requests come one after the other.   *)
(***************************************************************************)

Idle(r) == pc[r] \in {"idle", "done", "failed"}
Alone == \A q, r \in Requests : Idle(q) \/ Idle(r) \/ q = r

\* The group is owned except between the departure of an owner and the crowning of
\* an heir.
Owned == Active = {} \/ \E u \in Users : Owners = {u}
OwnedUnlessLeft ==
  IF \E r \in Requests : pc[r] \in {"heirs", "crown"} THEN Owners = {} ELSE Owned

\* The rank that README asks of one who removes a member.
MayGo(actor, t) ==
  actor = t \/ (actor \in Active /\ <<role[actor], role[t]>> \in Outranks)

\* What the request being handled has read is still so.
ReadingHolds(r) ==
  /\ pc[r] \in {"existing", "join"} => op[r].actor \in Active
  /\ pc[r] = "join" => rejoining[r] \subseteq Users \ Active
  /\ pc[r] = "target" => /\ op[r].actor \in Active
                         /\ role[op[r].actor] = asRole[r]
                         /\ op[r].kind = "role" => op[r].actor \in Owners
  /\ pc[r] = "write" => /\ op[r].actor \in Owners
                        /\ op[r].targets \subseteq Active \ {op[r].actor}
  /\ pc[r] = "leave" => \A t \in op[r].targets :
                          /\ t \in Active /\ role[t] = seenRole[r]
                          /\ MayGo(op[r].actor, t)
  /\ pc[r] = "crown" => heir[r] \in Active

\* Which endpoint a request at a point belongs to.
KindFits(r) ==
  /\ ~Idle(r) => op[r] \in Op
  /\ pc[r] = "target" => op[r].kind # "add"
  /\ pc[r] = "write" => op[r].kind = "role"
  /\ pc[r] = "leave" => op[r].kind = "remove"

SerialInv ==
  /\ TypeOK
  /\ Alone
  /\ OwnedUnlessLeft
  /\ \A r \in Requests : ReadingHolds(r) /\ KindFits(r)

\* Every operation on the room keeps the types of its rows, views and requests.
THEOREM TypeCorrect == Spec => []TypeOK
<1>1. Init => TypeOK
  BY RolesAssumption DEF Init, TypeOK, Standing, Roles, Points, Views, EmptyView, RoomView,
     Active
<1>2. TypeOK /\ [Next]_vars => TypeOK'
  <2> SUFFICES ASSUME TypeOK, [Next]_vars PROVE TypeOK'
    OBVIOUS
  <2> USE RolesAssumption DEF TypeOK, room, local, faults
  <2>a. RoomView \in Views /\ EmptyView \in Views
    BY DEF RoomView, EmptyView, Views, Roles, Active
  <2>b. "MEMBER" \in Roles /\ "OWNER" \in Roles /\ "ADMIN" \in Roles
    BY DEF Roles
  <2>c. \A r \in Requests : op[r] # NoOp => /\ op[r].actor \in Users
                                            /\ op[r].targets \in SUBSET Users
                                            /\ op[r].to \in Roles
    BY DEF Op, Roles
  <2>d. \A r \in Requests : op[r].targets \in SUBSET Users /\ op[r].to \in Roles
    BY <2>c, <2>b DEF NoOp
  <2>e. Active \in SUBSET Users
    BY DEF Active
  <2>f. ASSUME NEW r \in Requests, Finish(r) \/ Throw(r)
        PROVE  /\ pc' \in [Requests -> Points]
               /\ op' \in [Requests -> Op \cup {NoOp}]
               /\ asRole' \in [Requests -> Roles]
               /\ seenRole' \in [Requests -> Roles]
               /\ rejoining' \in [Requests -> SUBSET Users]
               /\ newcomers' \in [Requests -> SUBSET Users]
               /\ heir' \in [Requests -> Users \cup {Nobody}]
               /\ \A q \in Requests : pc'[q] = "crown" => heir'[q] \in Users
               /\ audience' \in [Requests -> SUBSET Users]
               /\ view' \in [Requests -> Views]
    <3>1. \E p \in {"done", "failed"} : pc' = [pc EXCEPT ![r] = p]
      BY <2>f DEF Finish, Throw, Go
    <3>2. Forget(r)
      BY <2>f DEF Finish, Throw
    <3>3. /\ pc' \in [Requests -> Points]
          /\ \A q \in Requests : pc'[q] = "crown" => q # r /\ pc[q] = "crown"
      BY <3>1 DEF Points
    <3>4. /\ op' \in [Requests -> Op \cup {NoOp}]
          /\ asRole' \in [Requests -> Roles] /\ seenRole' \in [Requests -> Roles]
      BY <3>2, <2>b DEF Forget
    <3>5. /\ rejoining' \in [Requests -> SUBSET Users]
          /\ newcomers' \in [Requests -> SUBSET Users]
          /\ audience' \in [Requests -> SUBSET Users]
      BY <3>2 DEF Forget
    <3>6. heir' \in [Requests -> Users \cup {Nobody}]
          /\ \A q \in Requests : pc'[q] = "crown" => heir'[q] \in Users
      BY <3>2, <3>3 DEF Forget
    <3>7. view' \in [Requests -> Views]
      BY <3>2, <2>a DEF Forget
    <3> QED
      BY <3>3, <3>4, <3>5, <3>6, <3>7
  <2>1. ASSUME NEW r \in Requests, Arrive(r) PROVE TypeOK'
    BY <2>1 DEF Arrive, Go, Points
  <2>2. ASSUME NEW r \in Requests, Refuse(r) PROVE TypeOK'
    BY <2>2, <2>f DEF Refuse
  <2>3. ASSUME NEW r \in Requests, Admit(r) PROVE TypeOK'
    BY <2>3, <2>e DEF Admit, Go, Points
  <2>4. ASSUME NEW r \in Requests, ReadTarget(r) PROVE TypeOK'
    BY <2>4, <2>2, <2>d DEF ReadTarget, Go, Points
  <2>5. ASSUME NEW r \in Requests, ReadExisting(r) PROVE TypeOK'
    <3>1. CASE Refuse(r)
      BY <2>2, <3>1
    <3>2. CASE ~Refuse(r)
      <4>1. {u \in op[r].targets : member[u] = "left"} \in SUBSET Users
        BY <2>d
      <4>2. {u \in op[r].targets : member[u] = "none"} \in SUBSET Users
        BY <2>d
      <4> QED
        BY <2>5, <3>2, <4>1, <4>2 DEF ReadExisting, Go, Points
    <3> QED
      BY <3>1, <3>2
  <2>6. ASSUME NEW r \in Requests, NEW u \in Users, Joined(r, u) PROVE TypeOK'
    BY <2>6, <2>b DEF Joined, JoinRow, Changed, Changes, Change, Go, Points, Standing
  <2>7. ASSUME NEW r \in Requests, WriteRole(r) PROVE TypeOK'
    <3>1. role' \in [Users -> Roles]
      BY <2>7, <2>b, <2>d DEF WriteRole, Transfer
    <3>2. op[r].targets \subseteq Users /\ Givers(r) \subseteq Users
      BY <2>c, <2>d DEF Givers, NoOp
    <3>3. unannounced' \subseteq Change
      BY <2>7, <3>2 DEF WriteRole, Changes, Change
    <3> QED
      BY <2>7, <3>1, <3>3 DEF WriteRole, Go, Points
  <2>8. ASSUME NEW r \in Requests, Leave(r) PROVE TypeOK'
    BY <2>8, <2>d DEF Leave, Changed, Changes, Change, Go, Points, Standing
  <2>9. ASSUME NEW r \in Requests, ReadHeirs(r) PROVE TypeOK'
    <3>1. Heirs \subseteq Users
      BY <2>e DEF Heirs, Candidates
    <3> QED
      BY <2>9, <3>1 DEF ReadHeirs, Go, Points
  <2>10. ASSUME NEW r \in Requests, Crown(r) PROVE TypeOK'
    BY <2>10, <2>b DEF Crown, Changes, Change, Go, Points
  <2>11. ASSUME NEW r \in Requests, Announce(r) PROVE TypeOK'
    <3>1. unannounced' \subseteq Change
      BY <2>11 DEF Announce
    <3>2. CASE op[r].kind = "add"
      BY <2>11, <2>f, <3>1, <3>2 DEF Announce
    <3>3. CASE op[r].kind # "add"
      BY <2>11, <3>1, <3>3 DEF Announce, Go, Points
    <3> QED
      BY <3>2, <3>3
  <2>12. ASSUME NEW r \in Requests, ReadAudience(r) PROVE TypeOK'
    BY <2>12, <2>d, <2>e DEF ReadAudience, Recipients, Go, Points
  <2>13. ASSUME NEW r \in Requests, ReadView(r) PROVE TypeOK'
    BY <2>13, <2>a DEF ReadView, Go, Points
  <2>14. ASSUME NEW r \in Requests, EmitUpdated(r) PROVE TypeOK'
    <3>1. shown' \in [Users -> Views]
      BY <2>14 DEF EmitUpdated
    <3>2. CASE op[r].kind = "add"
      BY <2>14, <3>1, <3>2 DEF EmitUpdated, Go, Points
    <3>3. CASE op[r].kind # "add"
      BY <2>14, <2>f, <3>1, <3>3 DEF EmitUpdated
    <3> QED
      BY <3>2, <3>3
  <2>15. ASSUME NEW r \in Requests, Fail(r) PROVE TypeOK'
    BY <2>15, <2>f DEF Fail
  <2>16. CASE Finished \/ UNCHANGED vars
    BY <2>16 DEF Finished, vars
  <2>17. ASSUME NEW r \in Requests, Join(r) PROVE TypeOK'
    BY <2>17, <2>6, <2>f DEF Join
  <2>18. ASSUME NEW r \in Requests, Guard(r) PROVE TypeOK'
    BY <2>18, <2>2, <2>3 DEF Guard
  <2> QED
    BY <2>1, <2>4, <2>5, <2>7, <2>8, <2>9, <2>10, <2>11, <2>12, <2>13, <2>14, <2>15, <2>16,
       <2>17, <2>18 DEF Next, Step
<1> QED
  BY <1>1, <1>2, PTL DEF Spec

-----------------------------------------------------------------------------
(* One owner, when requests do not overlap and none dies half-way.         *)

OwnedAt(r) == IF pc[r] \in {"heirs", "crown"} THEN Owners = {} ELSE Owned

\* A step of the one request in flight has only that request to look at.
LEMMA OneRequestMoves ==
  ASSUME TypeOK', Alone, NEW r \in Requests,
         \A q \in Requests \ {r} : Idle(q) /\ pc'[q] = pc[q],
         OwnedAt(r)', ReadingHolds(r)', KindFits(r)'
  PROVE  SerialInv'
<1>1. \A q \in Requests \ {r} : pc'[q] \in {"idle", "done", "failed"}
  BY DEF Idle
<1>2. Alone'
  BY <1>1 DEF Alone, Idle
<1>3. OwnedUnlessLeft'
  BY <1>1 DEF OwnedUnlessLeft, OwnedAt
<1>4. \A q \in Requests : ReadingHolds(q)' /\ KindFits(q)'
  <2>1. \A q \in Requests \ {r} : ReadingHolds(q)' /\ KindFits(q)'
    BY <1>1 DEF ReadingHolds, KindFits, Idle
  <2> QED
    BY <2>1
<1> QED
  BY <1>2, <1>3, <1>4 DEF SerialInv

\* A request that ends leaves the room owned if it was.
LEMMA RefusalKeeps ==
  ASSUME SerialInv, TypeOK', NEW r \in Requests, ~Idle(r), OwnedAt(r)',
         Finish(r) \/ Throw(r)
  PROVE  SerialInv'
<1>1. /\ pc'[r] \in {"done", "failed"}
      /\ \A q \in Requests \ {r} : Idle(q) /\ pc'[q] = pc[q]
  BY DEF Finish, Throw, Go, SerialInv, TypeOK, Alone
<1>2. ReadingHolds(r)' /\ KindFits(r)'
  BY <1>1 DEF ReadingHolds, KindFits, Idle
<1> QED
  BY <1>1, <1>2, OneRequestMoves DEF SerialInv

\* An heir is a member.
LEMMA HeirsAreActive == Heirs \subseteq Active
  BY DEF Heirs, Candidates

\* Every step of a request that runs alone keeps the invariant.
LEMMA SerialInvNext ==
  ASSUME SerialInv, Undisturbed', TypeOK', [Next]_vars
  PROVE  SerialInv'
<1> USE RolesAssumption DEF room, local, faults
<1>a. \A r \in Requests : ~Idle(r) => /\ op[r] \in Op
                                      /\ op[r].actor \in Users
                                      /\ op[r].targets \in SUBSET Users
                                      /\ op[r].kind \in {"add", "role", "remove"}
                                      /\ op[r].kind # "add" =>
                                           \E t \in Users : op[r].targets = {t}
  BY DEF SerialInv, KindFits, Op
<1>b. \A r \in Requests : ~Idle(r) => \A q \in Requests \ {r} : Idle(q)
  BY DEF SerialInv, Alone
<1>c. \A r \in Requests : ~Idle(r) => OwnedAt(r)
  <2> SUFFICES ASSUME NEW r \in Requests, ~Idle(r) PROVE OwnedAt(r)
    OBVIOUS
  <2>1. \A q \in Requests \ {r} : pc[q] \notin {"heirs", "crown"}
    BY <1>b DEF Idle
  <2> QED
    BY <2>1 DEF SerialInv, OwnedUnlessLeft, OwnedAt
<1>1. ASSUME NEW r \in Requests, Arrive(r) PROVE SerialInv'
  <2>1. /\ \A q \in Requests : Idle(q)
        /\ pc'[r] = "guard"
        /\ \A q \in Requests \ {r} : pc'[q] = pc[q]
        /\ op'[r] \in Op
        /\ UNCHANGED <<member, role>>
    BY <1>1 DEF Arrive, Go, InFlight, Idle, SerialInv, TypeOK, Undisturbed
  <2>2. Owned
    BY <2>1 DEF SerialInv, OwnedUnlessLeft, Idle
  <2>3. OwnedAt(r)' /\ ReadingHolds(r)' /\ KindFits(r)'
    BY <2>1, <2>2 DEF OwnedAt, Owned, Owners, Active, ReadingHolds, KindFits
  <2> QED
    BY <2>1, <2>3, OneRequestMoves DEF SerialInv
<1>2. ASSUME NEW r \in Requests, pc[r] \notin {"idle", "done", "failed", "heirs", "crown"},
             Finish(r) \/ Throw(r), UNCHANGED room
      PROVE  SerialInv'
  <2>1. ~Idle(r) /\ Owned
    BY <1>2, <1>c DEF Idle, OwnedAt
  <2>2. OwnedAt(r)'
    BY <1>2, <2>1 DEF Finish, Throw, Go, OwnedAt, Owned, Owners, Active, SerialInv, TypeOK
  <2> QED
    BY <1>2, <2>1, <2>2, RefusalKeeps
<1>3. ASSUME NEW r \in Requests, pc[r] = "guard", Admit(r) PROVE SerialInv'
  <2>1. ~Idle(r) /\ Owned
    BY <1>3, <1>c DEF Idle, OwnedAt
  <2>2. /\ \A q \in Requests \ {r} : Idle(q) /\ pc'[q] = pc[q]
        /\ pc'[r] = IF op[r].kind = "add" THEN "existing" ELSE "target"
        /\ UNCHANGED <<member, role, op>>
    BY <1>3, <1>b, <2>1 DEF Admit, Go, SerialInv, TypeOK
  <2>3. /\ op[r].actor \in Active
        /\ op[r].kind = "role" => op[r].actor \in Owners
        /\ asRole'[r] = role[op[r].actor]
    BY <1>3 DEF Admit, Allowed, Owners, SerialInv, TypeOK
  <2>4. OwnedAt(r)' /\ KindFits(r)'
    BY <1>a, <2>1, <2>2 DEF OwnedAt, Owned, Owners, Active, KindFits
  <2>5. ReadingHolds(r)'
    BY <2>2, <2>3 DEF ReadingHolds, Owners, Active
  <2> QED
    BY <2>2, <2>4, <2>5, OneRequestMoves DEF SerialInv
<1>4. ASSUME NEW r \in Requests, ReadTarget(r) PROVE SerialInv'
  <2>1. ~Idle(r) /\ Owned /\ pc[r] = "target"
    BY <1>4, <1>c DEF Idle, OwnedAt, ReadTarget
  <2>2. CASE Refuse(r)
    BY <1>2, <2>1, <2>2 DEF Refuse
  <2>3. CASE ~Refuse(r)
    <3>1. PICK t \in op[r].targets :
            /\ MayProceed(r, t)
            /\ seenRole' = [seenRole EXCEPT ![r] = role[t]]
            /\ Go(r, IF op[r].kind = "role" THEN "write" ELSE "leave")
            /\ UNCHANGED <<room, op>>
      BY <1>4, <2>3 DEF ReadTarget
    <3>2. /\ \A q \in Requests \ {r} : Idle(q) /\ pc'[q] = pc[q]
          /\ pc'[r] = IF op[r].kind = "role" THEN "write" ELSE "leave"
          /\ seenRole'[r] = role[t]
          /\ UNCHANGED <<member, role, op>>
      BY <1>b, <2>1, <3>1 DEF Go, SerialInv, TypeOK
    <3>3. op[r].kind \in {"role", "remove"} /\ op[r].targets = {t} /\ t \in Active
      <4>1. op[r].kind # "add"
        BY <2>1 DEF SerialInv, KindFits
      <4> QED
        BY <4>1, <1>a, <2>1, <3>1 DEF MayProceed
    <3>4. OwnedAt(r)' /\ KindFits(r)'
      BY <1>a, <2>1, <3>2, <3>3 DEF OwnedAt, Owned, Owners, Active, KindFits
    <3>5. ReadingHolds(r)'
      <4>1. op[r].kind = "role" => op[r].actor \in Owners /\ t # op[r].actor
        BY <2>1, <3>1 DEF SerialInv, ReadingHolds, MayProceed
      <4>2. op[r].kind = "remove" => MayGo(op[r].actor, t)
        <5>1. op[r].actor \in Active /\ role[op[r].actor] = asRole[r] /\ role[t] \in Roles
          BY <2>1, <3>3 DEF SerialInv, ReadingHolds, TypeOK, Active
        <5> QED
          BY <3>1, <5>1 DEF MayProceed, MayRemove, MayGo, Outranks, Roles
      <4> QED
        BY <3>2, <3>3, <4>1, <4>2 DEF ReadingHolds, Owners, Active, MayGo
    <3> QED
      BY <3>2, <3>4, <3>5, OneRequestMoves DEF SerialInv
  <2> QED
    BY <2>2, <2>3
<1>5. ASSUME NEW r \in Requests, ReadExisting(r) PROVE SerialInv'
  <2>1. ~Idle(r) /\ Owned /\ pc[r] = "existing"
    BY <1>5, <1>c DEF Idle, OwnedAt, ReadExisting
  <2>2. CASE Refuse(r)
    BY <1>2, <2>1, <2>2 DEF Refuse
  <2>3. CASE ~Refuse(r)
    <3>1. /\ \A q \in Requests \ {r} : Idle(q) /\ pc'[q] = pc[q]
          /\ pc'[r] = "join"
          /\ rejoining'[r] = {u \in op[r].targets : member[u] = "left"}
          /\ UNCHANGED <<member, role, op>>
      BY <1>5, <1>b, <2>1, <2>3 DEF ReadExisting, Go, SerialInv, TypeOK
    <3>2. op[r].actor \in Active
      BY <2>1 DEF SerialInv, ReadingHolds
    <3>3. OwnedAt(r)' /\ KindFits(r)'
      BY <1>a, <2>1, <3>1 DEF OwnedAt, Owned, Owners, Active, KindFits
    <3>4. ReadingHolds(r)'
      BY <1>a, <2>1, <3>1, <3>2 DEF ReadingHolds, Active
    <3> QED
      BY <3>1, <3>3, <3>4, OneRequestMoves DEF SerialInv
  <2> QED
    BY <2>2, <2>3
<1>6. ASSUME NEW r \in Requests, Join(r) PROVE SerialInv'
  <2>1. ~Idle(r) /\ Owned /\ pc[r] = "join" /\ op[r].actor \in Active
    BY <1>6, <1>c DEF Idle, OwnedAt, Join, SerialInv, ReadingHolds
  <2>2. CASE Throw(r) /\ UNCHANGED room
    BY <1>2, <2>1, <2>2 DEF Idle
  <2>3. ASSUME NEW u \in Users \ Active, Joined(r, u) PROVE SerialInv'
    <3>1. /\ \A q \in Requests \ {r} : Idle(q) /\ pc'[q] = pc[q]
          /\ pc'[r] \in {"join", "audience"}
          /\ rejoining'[r] = rejoining[r] \ {u}
          /\ member' = [member EXCEPT ![u] = "active"]
          /\ role' = [role EXCEPT ![u] = "MEMBER"]
          /\ op' = op
      BY <2>3, <1>b, <2>1 DEF Joined, JoinRow, Go, SerialInv, TypeOK
    <3>2. Active' = Active \cup {u} /\ Owners' = Owners
      <4>1. \A v \in Users : /\ member'[v] = IF v = u THEN "active" ELSE member[v]
                             /\ role'[v] = IF v = u THEN "MEMBER" ELSE role[v]
        BY <2>3, <3>1 DEF SerialInv, TypeOK
      <4> QED
        BY <2>3, <4>1 DEF Active, Owners
    <3>3. OwnedAt(r)' /\ KindFits(r)'
      BY <1>a, <2>1, <3>1, <3>2 DEF OwnedAt, Owned, KindFits
    <3>4. ReadingHolds(r)'
      BY <2>1, <3>1, <3>2 DEF ReadingHolds, SerialInv
    <3> QED
      BY <3>1, <3>3, <3>4, OneRequestMoves DEF SerialInv
  <2>4. rejoining[r] \subseteq Users \ Active /\ newcomers[r] \subseteq Users
    BY <2>1 DEF SerialInv, ReadingHolds, TypeOK
  <2> QED
    BY <1>6, <2>2, <2>3, <2>4 DEF Join, Active
<1>7. ASSUME NEW r \in Requests, WriteRole(r) PROVE SerialInv'
  <2>1. ~Idle(r) /\ Owned /\ pc[r] = "write" /\ op[r].kind = "role"
    BY <1>7, <1>c DEF Idle, OwnedAt, WriteRole, SerialInv, KindFits
  <2>2. /\ op[r].actor \in Owners
        /\ op[r].targets \subseteq Active \ {op[r].actor}
        /\ op[r].to \in Roles
    BY <2>1, <1>a DEF SerialInv, ReadingHolds, Op, Roles
  <2>3. PICK t \in op[r].targets : Transfer(r, t)
    BY <1>7 DEF WriteRole
  <2>4. t \in Active /\ t # op[r].actor /\ Owners = {op[r].actor}
    BY <2>1, <2>2 DEF Owned, Owners
  <2>5. /\ \A q \in Requests \ {r} : Idle(q) /\ pc'[q] = pc[q]
        /\ pc'[r] = "announce"
        /\ op' = op
        /\ member' = member
    BY <1>7, <1>b, <2>1 DEF WriteRole, Go, SerialInv, TypeOK
  <2>6. Active' = Active
    BY <2>5 DEF Active
  <2>7. CASE op[r].to = "OWNER"
    <3>1. \A v \in Users : role'[v] = IF v = op[r].actor THEN "ADMIN"
                                     ELSE IF v = t THEN "OWNER" ELSE role[v]
      BY <2>3, <2>4, <2>7, <1>a DEF Transfer, SerialInv, TypeOK
    <3>2. Owners' = {t}
      BY <2>4, <2>6, <3>1 DEF Owners, Active
    <3> QED
      BY <1>a, <2>1, <2>4, <2>5, <3>2, OneRequestMoves
      DEF OwnedAt, Owned, KindFits, ReadingHolds, SerialInv, Idle, Active
  <2>8. CASE op[r].to # "OWNER"
    <3>1. \A v \in Users : role'[v] = IF v = t THEN op[r].to ELSE role[v]
      BY <2>3, <2>4, <2>8 DEF Transfer, SerialInv, TypeOK
    <3>2. Owners' = Owners
      BY <2>4, <2>6, <2>8, <3>1 DEF Owners, Active
    <3> QED
      BY <1>a, <2>1, <2>5, <2>6, <3>2, OneRequestMoves
      DEF OwnedAt, Owned, KindFits, ReadingHolds, SerialInv, Idle
  <2> QED
    BY <2>7, <2>8
<1>8. ASSUME NEW r \in Requests, Leave(r) PROVE SerialInv'
  <2>1. ~Idle(r) /\ Owned /\ pc[r] = "leave" /\ op[r].kind = "remove"
    BY <1>8, <1>c DEF Idle, OwnedAt, Leave, SerialInv, KindFits
  <2>2. PICK t \in op[r].targets : member' = [member EXCEPT ![t] = "left"]
    BY <1>8 DEF Leave
  <2>3. t \in Active /\ role[t] = seenRole[r]
    BY <2>1, <2>2 DEF SerialInv, ReadingHolds
  <2>4. /\ \A q \in Requests \ {r} : Idle(q) /\ pc'[q] = pc[q]
        /\ pc'[r] = IF seenRole[r] = "OWNER" THEN "heirs" ELSE "announce"
        /\ op' = op
        /\ role' = role
    BY <1>8, <1>b, <2>1 DEF Leave, Go, SerialInv, TypeOK
  <2>5. Active' = Active \ {t} /\ Owners' = Owners \ {t}
    <3>1. \A v \in Users : member'[v] = IF v = t THEN "left" ELSE member[v]
      BY <2>2, <2>3 DEF SerialInv, TypeOK
    <3> QED
      BY <2>4, <3>1 DEF Active, Owners
  <2>6. OwnedAt(r)'
    <3>1. CASE seenRole[r] = "OWNER"
      <4>1. t \in Owners
        BY <2>3, <3>1 DEF Owners
      <4> QED
        BY <2>1, <2>3, <2>4, <2>5, <3>1, <4>1 DEF Owned, OwnedAt
    <3>2. CASE seenRole[r] # "OWNER"
      <4>1. t \notin Owners
        BY <2>3, <3>2 DEF Owners
      <4> QED
        BY <2>1, <2>3, <2>4, <2>5, <3>2, <4>1 DEF Owned, OwnedAt
    <3> QED
      BY <3>1, <3>2
  <2> QED
    BY <1>a, <2>1, <2>4, <2>6, OneRequestMoves DEF KindFits, ReadingHolds, SerialInv, Idle
<1>9. ASSUME NEW r \in Requests, ReadHeirs(r) PROVE SerialInv'
  <2>1. ~Idle(r) /\ Owners = {} /\ pc[r] = "heirs"
    BY <1>9, <1>c DEF Idle, OwnedAt, ReadHeirs
  <2>2. /\ \A q \in Requests \ {r} : Idle(q) /\ pc'[q] = pc[q]
        /\ op' = op /\ member' = member /\ role' = role
        /\ \/ pc'[r] = "crown" /\ heir'[r] \in Active
           \/ pc'[r] = "announce" /\ Active = {}
    BY <1>9, <1>b, <2>1, HeirsAreActive DEF ReadHeirs, Go, SerialInv, TypeOK
  <2>3. OwnedAt(r)' /\ ReadingHolds(r)' /\ KindFits(r)'
    BY <1>a, <2>1, <2>2 DEF OwnedAt, Owned, Owners, Active, ReadingHolds, KindFits
  <2> QED
    BY <2>2, <2>3, OneRequestMoves DEF SerialInv
<1>10. ASSUME NEW r \in Requests, Crown(r) PROVE SerialInv'
  <2>1. ~Idle(r) /\ Owners = {} /\ pc[r] = "crown" /\ heir[r] \in Active
    BY <1>10, <1>c DEF Idle, OwnedAt, Crown, SerialInv, ReadingHolds
  <2>2. /\ \A q \in Requests \ {r} : Idle(q) /\ pc'[q] = pc[q]
        /\ pc'[r] = "announce"
        /\ op' = op /\ member' = member
        /\ \A v \in Users : role'[v] = IF v = heir[r] THEN "OWNER" ELSE role[v]
    BY <1>10, <1>b, <2>1 DEF Crown, Go, SerialInv, TypeOK, Active
  <2>3. Owners' = {heir[r]}
    BY <2>1, <2>2 DEF Owners, Active
  <2> QED
    BY <1>a, <2>1, <2>2, <2>3, OneRequestMoves
    DEF OwnedAt, Owned, ReadingHolds, KindFits, SerialInv, Active
<1>11. ASSUME NEW r \in Requests, Announce(r) \/ EmitUpdated(r) PROVE SerialInv'
  <2>1. ~Idle(r) /\ Owned /\ UNCHANGED <<member, role>>
    BY <1>11, <1>c DEF Idle, OwnedAt, Announce, EmitUpdated
  <2>2. Owned'
    BY <2>1 DEF Owned, Owners, Active
  <2>3. CASE Finish(r)
    <3>1. OwnedAt(r)'
      BY <2>2, <2>3 DEF OwnedAt, Finish, Go, SerialInv, TypeOK
    <3> QED
      BY <2>1, <2>3, <3>1, RefusalKeeps
  <2>4. CASE ~Finish(r)
    <3>1. /\ \A q \in Requests \ {r} : Idle(q) /\ pc'[q] = pc[q]
          /\ pc'[r] \in {"audience", "announce"}
          /\ op' = op
      BY <1>11, <1>b, <2>1, <2>4 DEF Announce, EmitUpdated, Go, SerialInv, TypeOK
    <3> QED
      BY <1>a, <2>1, <2>2, <3>1, OneRequestMoves
      DEF OwnedAt, ReadingHolds, KindFits, SerialInv
  <2> QED
    BY <2>3, <2>4
<1>12. ASSUME NEW r \in Requests, ReadAudience(r) \/ ReadView(r) PROVE SerialInv'
  <2>1. ~Idle(r) /\ Owned /\ UNCHANGED <<member, role, op>>
    BY <1>12, <1>c DEF Idle, OwnedAt, ReadAudience, ReadView
  <2>2. /\ \A q \in Requests \ {r} : Idle(q) /\ pc'[q] = pc[q]
        /\ pc'[r] \in {"view", "emit"}
    BY <1>12, <1>b, <2>1 DEF ReadAudience, ReadView, Go, SerialInv, TypeOK
  <2>3. Owned'
    BY <2>1 DEF Owned, Owners, Active
  <2> QED
    BY <1>a, <2>1, <2>2, <2>3, OneRequestMoves
    DEF OwnedAt, ReadingHolds, KindFits, SerialInv
<1>13. ASSUME NEW r \in Requests, Fail(r) PROVE FALSE
  BY <1>13 DEF Fail, Undisturbed, SerialInv, TypeOK
<1>14. CASE Finished \/ UNCHANGED vars
  BY <1>14 DEF Finished, vars, SerialInv, TypeOK, Alone, Idle, OwnedUnlessLeft, Owned, Owners,
     Active, ReadingHolds, KindFits, MayGo
<1>15. ASSUME NEW r \in Requests, Guard(r) PROVE SerialInv'
  BY <1>15, <1>2, <1>3 DEF Guard, Refuse
<1> QED
  BY <1>1, <1>4, <1>5, <1>6, <1>7, <1>8, <1>9, <1>10, <1>11, <1>12, <1>13, <1>14, <1>15
  DEF Next, Step

\* A new group is owned by its creator.
LEMMA SerialInvInit == ASSUME Init PROVE SerialInv
<1>1. TypeOK
  BY RolesAssumption DEF Init, TypeOK, Standing, Roles, Points, Views, EmptyView, RoomView,
     Active
<1>2. PICK creator \in Users, others \in SUBSET Users :
        /\ member = [u \in Users |-> IF u \in others \cup {creator} THEN "active" ELSE "none"]
        /\ role = [u \in Users |-> IF u = creator THEN "OWNER" ELSE "MEMBER"]
  BY DEF Init
<1>3. Owners = {creator}
  BY <1>2 DEF Owners, Active
<1>4. Alone /\ \A r \in Requests : pc[r] = "idle"
  BY DEF Init, Alone, Idle
<1>5. OwnedUnlessLeft
  BY <1>3, <1>4 DEF OwnedUnlessLeft, Owned
<1>6. \A r \in Requests : ReadingHolds(r) /\ KindFits(r)
  BY <1>4 DEF ReadingHolds, KindFits, Idle
<1> QED
  BY <1>1, <1>4, <1>5, <1>6 DEF SerialInv

\* What has been disturbed stays so.
LEMMA UndisturbedBefore ==
  ASSUME TypeOK, Undisturbed', [Next]_vars
  PROVE  Undisturbed
<1>1. overlaps \in Nat /\ failures \in Nat
  BY RolesAssumption DEF TypeOK
<1>2. overlaps' \in {overlaps, overlaps + 1}
  BY DEF Next, Step, Arrive, Guard, Admit, Refuse, ReadTarget, ReadExisting, Join, Joined,
     WriteRole, Leave, ReadHeirs, Crown, Announce, ReadAudience, ReadView, EmitUpdated, Fail,
     Finished, vars, faults
<1>3. failures' \in {failures, failures + 1}
  BY DEF Next, Step, Arrive, Guard, Admit, Refuse, ReadTarget, ReadExisting, Join, Joined,
     WriteRole, Leave, ReadHeirs, Crown, Announce, ReadAudience, ReadView, EmitUpdated, Fail,
     Finished, vars, faults
<1> QED
  BY <1>1, <1>2, <1>3 DEF Undisturbed

\* Requests handled one at a time, none of which dies, keep the invariant for ever.
LEMMA SerialInvAlways == Spec => [](Undisturbed => SerialInv)
<1>1. Init => SerialInv
  BY SerialInvInit
<1>2. (Undisturbed => SerialInv) /\ TypeOK /\ TypeOK' /\ [Next]_vars
        => (Undisturbed => SerialInv)'
  BY SerialInvNext, UndisturbedBefore
<1> QED
  BY <1>1, <1>2, TypeCorrect, PTL DEF Spec

\* README: there is always one owner.  As long as requests have been handled one at a
\* time and none has died half-way, a group with members has exactly one OWNER whenever
\* none is in flight: through transfers, kicks, departures of the owner and returns of
\* former owners.
THEOREM SerialOwnership == Spec => []OneOwnerInPeace
<1>1. (Undisturbed => SerialInv) => OneOwnerInPeace
  BY DEF SerialInv, OwnedUnlessLeft, Owned, OneOwner, OneOwnerInPeace, InFlight
<1> QED
  BY <1>1, SerialInvAlways, PTL

\* README, group permissions: while requests are handled one at a time a member leaves the
\* active ones by its own request, or by one of an active member of the rank that may
\* remove it at that moment.
THEOREM SerialRemovals == Spec => RemovalRespectsRank
<1> DEFINE Removal ==
      \A u \in Active : Undisturbed /\ u \notin Active' =>
        \E r \in Requests :
          LET actor == op[r].actor IN
          /\ pc[r] = "leave" /\ u \in op[r].targets
          /\ \/ actor = u
             \/ actor \in Active /\ <<role[actor], role[u]>> \in Outranks
<1>1. (Undisturbed => SerialInv) /\ [Next]_vars => [Removal]_vars
  <2> SUFFICES ASSUME SerialInv, Next, NEW u \in Active, u \notin Active'
               PROVE  \E r \in Requests : pc[r] = "leave" /\ u \in op[r].targets
                                          /\ MayGo(op[r].actor, u)
    BY DEF MayGo
  <2>1. u \in Users /\ member[u] = "active" /\ member'[u] # "active"
    BY DEF Active
  <2>2. member' # member
    BY <2>1
  <2>3. ASSUME NEW r \in Requests, Join(r) PROVE FALSE
    <3>1. member' = member \/ \E v \in Users : member' = [member EXCEPT ![v] = "active"]
      BY <2>3 DEF Join, Joined, JoinRow, Refuse, room, SerialInv, TypeOK
    <3> QED
      BY <2>1, <2>2, <3>1 DEF SerialInv, TypeOK
  <2>4. PICK r \in Requests : Leave(r)
    BY <2>2, <2>3 DEF Next, Step, Arrive, Guard, Admit, Refuse, ReadTarget, ReadExisting,
       WriteRole, ReadHeirs, Crown, Announce, ReadAudience, ReadView, EmitUpdated, Fail,
       Finished, vars, room, faults
  <2>5. PICK t \in op[r].targets : member' = [member EXCEPT ![t] = "left"]
    BY <2>4 DEF Leave
  <2>6. pc[r] = "leave" /\ t = u
    BY <2>1, <2>4, <2>5 DEF Leave, SerialInv, TypeOK
  <2> QED
    BY <2>5, <2>6 DEF SerialInv, ReadingHolds
<1> QED
  BY <1>1, SerialInvAlways, PTL DEF Spec, RemovalRespectsRank

-----------------------------------------------------------------------------
(* Where an owner comes from, and what is announced.                       *)

\* A request on its way to give the group away was let in by an owner, or saw one go.
\* This does not need requests to come one after the other.
GivingInv ==
  \A r \in Requests :
    /\ pc[r] = "target" /\ op[r].kind = "role" => asRole[r] = "OWNER"
    /\ pc[r] = "write" => asRole[r] = "OWNER"
    /\ pc[r] \in {"heirs", "crown"} => seenRole[r] = "OWNER"

\* Every step keeps it, as no other request writes what a request has read.
LEMMA GivingInvNext ==
  ASSUME TypeOK, GivingInv, [Next]_vars
  PROVE  GivingInv'
<1> USE DEF TypeOK, GivingInv, Go, local
<1>1. ASSUME NEW r \in Requests, Finish(r) \/ Throw(r) PROVE GivingInv'
  BY <1>1 DEF Finish, Throw, Forget
<1>2. ASSUME NEW r \in Requests, Arrive(r) PROVE GivingInv'
  BY <1>2 DEF Arrive
<1>3. ASSUME NEW r \in Requests, Admit(r) PROVE GivingInv'
  BY <1>3 DEF Admit, Allowed
<1>4. ASSUME NEW r \in Requests, ReadTarget(r) PROVE GivingInv'
  <2>1. CASE Refuse(r)
    BY <1>1, <2>1 DEF Refuse
  <2>2. CASE ~Refuse(r)
    <3>1. /\ pc[r] = "target"
          /\ pc' = [pc EXCEPT ![r] = IF op[r].kind = "role" THEN "write" ELSE "leave"]
          /\ UNCHANGED <<op, asRole>>
          /\ \A q \in Requests \ {r} : seenRole'[q] = seenRole[q]
      BY <1>4, <2>2 DEF ReadTarget
    <3> QED
      BY <3>1
  <2> QED
    BY <2>1, <2>2
<1>5. ASSUME NEW r \in Requests, ReadExisting(r) \/ Join(r) PROVE GivingInv'
  <2>1. CASE Refuse(r) \/ Throw(r)
    BY <1>1, <2>1 DEF Refuse
  <2>2. CASE ~(Refuse(r) \/ Throw(r))
    <3>1. /\ UNCHANGED <<op, asRole, seenRole>>
          /\ \E p \in {"join", "audience"} : pc' = [pc EXCEPT ![r] = p]
      BY <1>5, <2>2 DEF ReadExisting, Join, Joined
    <3> QED
      BY <3>1
  <2> QED
    BY <2>1, <2>2
<1>6. ASSUME NEW r \in Requests, WriteRole(r) \/ Crown(r) \/ ReadAudience(r) \/ ReadView(r)
      PROVE  GivingInv'
  BY <1>6 DEF WriteRole, Crown, ReadAudience, ReadView
<1>7. ASSUME NEW r \in Requests, Leave(r) PROVE GivingInv'
  BY <1>7 DEF Leave
<1>8. ASSUME NEW r \in Requests, ReadHeirs(r) PROVE GivingInv'
  BY <1>8 DEF ReadHeirs
<1>9. ASSUME NEW r \in Requests, Announce(r) \/ EmitUpdated(r) PROVE GivingInv'
  <2>1. CASE Finish(r)
    BY <1>1, <2>1
  <2>2. CASE ~Finish(r)
    BY <1>9, <2>2 DEF Announce, EmitUpdated
  <2> QED
    BY <2>1, <2>2
<1>10. CASE Finished \/ UNCHANGED vars
  BY <1>10 DEF Finished, vars
<1> QED
  BY <1>1, <1>2, <1>3, <1>4, <1>5, <1>6, <1>7, <1>8, <1>9, <1>10
  DEF Next, Step, Guard, Refuse, Fail

\* Of all steps only a transfer by an owner, and the crowning of an heir, make an owner.
LEMMA OnlyGivingMakesOwners ==
  ASSUME TypeOK, GivingInv, [Next]_vars, NEW u \in Users, u \in Owners' \ Owners
  PROVE  \E r \in Requests :
           \/ pc[r] = "write" /\ asRole[r] = "OWNER" /\ op[r].to = "OWNER" /\ u \in op[r].targets
           \/ pc[r] = "crown" /\ seenRole[r] = "OWNER" /\ u = heir[r]
<1>1. /\ member'[u] = "active" /\ role'[u] = "OWNER"
      /\ ~(member[u] = "active" /\ role[u] = "OWNER")
  BY DEF Owners, Active
<1>2. ~(UNCHANGED <<member, role>>)
  BY <1>1
<1>3. ASSUME NEW r \in Requests, Join(r) PROVE FALSE
  <2>1. PICK v \in Users : JoinRow(v)
    BY <1>2, <1>3 DEF Join, Joined, Refuse, room, TypeOK
  <2>2. CASE u = v
    BY <1>1, <2>1, <2>2 DEF JoinRow, TypeOK
  <2>3. CASE u # v
    BY <1>1, <2>1, <2>3 DEF JoinRow, TypeOK
  <2> QED
    BY <2>2, <2>3
<1>4. ASSUME NEW r \in Requests, Leave(r) PROVE FALSE
  <2>1. UNCHANGED role /\ \E t \in op[r].targets : member' = [member EXCEPT ![t] = "left"]
    BY <1>4 DEF Leave
  <2> QED
    BY <1>1, <2>1 DEF TypeOK
<1>5. ASSUME NEW r \in Requests, Crown(r)
      PROVE  pc[r] = "crown" /\ seenRole[r] = "OWNER" /\ u = heir[r]
  BY <1>1, <1>5 DEF Crown, GivingInv, TypeOK
<1>6. ASSUME NEW r \in Requests, WriteRole(r)
      PROVE  pc[r] = "write" /\ asRole[r] = "OWNER" /\ op[r].to = "OWNER" /\ u \in op[r].targets
  <2>1. pc[r] = "write" /\ asRole[r] = "OWNER" /\ UNCHANGED member
    BY <1>6 DEF WriteRole, GivingInv
  <2>2. PICK t \in op[r].targets : Transfer(r, t)
    BY <1>6 DEF WriteRole
  <2>3. role[u] # "OWNER"
    BY <1>1, <2>1
  <2>4. op[r].to = "OWNER" /\ u = t
    BY <1>1, <2>2, <2>3 DEF Transfer, TypeOK
  <2> QED
    BY <2>1, <2>2, <2>4
<1>7. \E r \in Requests : Join(r) \/ Leave(r) \/ Crown(r) \/ WriteRole(r)
  BY <1>2 DEF Next, Step, Arrive, Guard, Admit, Refuse, ReadTarget, ReadExisting, ReadHeirs,
     Announce, ReadAudience, ReadView, EmitUpdated, Fail, Finished, vars, room
<1> QED
  BY <1>3, <1>4, <1>5, <1>6, <1>7

\* README: ownership is transferred by the owner or, when it leaves, by the server.  However
\* requests overlap and whatever dies, no other step makes an active owner.
THEOREM OwnersAreMade == Spec => OwnershipIsGiven
<1> DEFINE Given ==
      \A u \in Users : u \in Owners' \ Owners =>
        \E r \in Requests :
          \/ pc[r] = "write" /\ asRole[r] = "OWNER" /\ op[r].to = "OWNER" /\ u \in op[r].targets
          \/ pc[r] = "crown" /\ seenRole[r] = "OWNER" /\ u = heir[r]
<1>1. Init => GivingInv
  BY DEF Init, GivingInv
<1>2. TypeOK /\ GivingInv /\ [Next]_vars => GivingInv'
  BY GivingInvNext
<1>3. TypeOK /\ GivingInv /\ [Next]_vars => [Given]_vars
  BY OnlyGivingMakesOwners
<1> QED
  BY <1>1, <1>2, <1>3, TypeCorrect, PTL DEF Spec, OwnershipIsGiven

-----------------------------------------------------------------------------
(* What is announced, however requests overlap and whatever dies.          *)

\* Where a request may have changed a target that no SYSTEM message tells of: on its way to the
\* message, or dead.
ToldAt(r) ==
  /\ pc[r] \in {"existing", "join"} => op[r].kind = "add"
  /\ pc[r] \in {"target", "write", "leave", "heirs", "crown"} => op[r].kind # "add"
  /\ \A c \in unannounced : c.by = r /\ c.part = "target" =>
       pc[r] \in IF op[r].kind = "add"
                    THEN {"join", "audience", "view", "emit", "announce", "failed"}
                    ELSE {"heirs", "crown", "announce", "failed"}
ToldInv == \A r \in Requests : ToldAt(r)

\* The changes of a request are its own business.
LEMMA ToldMove ==
  ASSUME ToldInv, NEW r \in Requests, ToldAt(r)',
         \A q \in Requests \ {r} : pc'[q] = pc[q] /\ op'[q] = op[q],
         \A c \in unannounced' : c \in unannounced \/ c.by = r
  PROVE  ToldInv'
<1>1. ASSUME NEW q \in Requests, q # r PROVE ToldAt(q)'
  <2>1. ToldAt(q) /\ pc'[q] = pc[q] /\ op'[q] = op[q]
    BY <1>1 DEF ToldInv
  <2>2. \A c \in unannounced' : c.by = q => c \in unannounced
    BY <1>1
  <2> QED
    BY <2>1, <2>2 DEF ToldAt
<1> QED
  BY <1>1 DEF ToldInv

\* One that goes on without changing anything, from one of the points in a row to another.
LEMMA ToldGoes ==
  ASSUME TypeOK, ToldInv, NEW r \in Requests, NEW p, Go(r, p), op' = op,
         unannounced' = unannounced, ToldAt(r) => ToldAt(r)'
  PROVE  ToldInv'
<1>1. \A q \in Requests \ {r} : pc'[q] = pc[q] /\ op'[q] = op[q]
  BY DEF Go, TypeOK
<1> QED
  BY <1>1, ToldMove DEF ToldInv

\* One that ends with nothing to tell, and one that dies.
LEMMA ToldEnds ==
  ASSUME TypeOK, ToldInv, NEW r \in Requests, unannounced' \subseteq unannounced,
         \/ Throw(r)
         \/ Finish(r) /\ \A c \in unannounced' : ~(c.by = r /\ c.part = "target")
  PROVE  ToldInv'
<1>1. \A q \in Requests \ {r} : pc'[q] = pc[q] /\ op'[q] = op[q]
  BY DEF Finish, Throw, Forget, Go, TypeOK
<1>2. op'[r].kind # "add"
  BY DEF Finish, Throw, Forget, NoOp, TypeOK
<1>3. Throw(r) => pc'[r] = "failed"
  BY DEF Throw, Go, TypeOK
<1>4. Finish(r) => pc'[r] = "done"
  BY DEF Finish, Go, TypeOK
<1>5. ToldAt(r)'
  BY <1>2, <1>3, <1>4 DEF ToldAt
<1> QED
  BY <1>1, <1>5, ToldMove

\* A request that changes its targets, or the heir or the owner before, on its way to the message.
LEMMA ToldChanges ==
  ASSUME TypeOK, ToldInv, NEW r \in Requests, NEW p, Go(r, p), op' = op,
         \A c \in unannounced' : c \in unannounced \/ c.by = r,
         IF op[r].kind = "add" THEN p \in {"join", "audience"}
         ELSE p \in {"heirs", "announce"}
  PROVE  ToldInv'
<1>1. pc'[r] = p /\ \A q \in Requests \ {r} : pc'[q] = pc[q] /\ op'[q] = op[q]
  BY DEF Go, TypeOK
<1>2. ToldAt(r)'
  BY <1>1 DEF ToldAt
<1> QED
  BY <1>1, <1>2, ToldMove

\* Every step keeps it.
LEMMA ToldNext ==
  ASSUME TypeOK, ToldInv, [Next]_vars
  PROVE  ToldInv'
<1> USE DEF local, faults
<1>a. ASSUME NEW r \in Requests, NEW p, Go(r, p) PROVE pc'[r] = p
  BY <1>a DEF Go, TypeOK
<1>b. ASSUME NEW r \in Requests, pc[r] \in {"idle", "guard", "existing", "target", "write", "leave"}
      PROVE  \A c \in unannounced : ~(c.by = r /\ c.part = "target")
  BY <1>b DEF ToldInv, ToldAt
<1>1. ASSUME NEW r \in Requests, Arrive(r) PROVE ToldInv'
  <2>1. /\ pc[r] = "idle" /\ unannounced' = unannounced /\ Go(r, "guard")
        /\ \A q \in Requests \ {r} : pc'[q] = pc[q] /\ op'[q] = op[q]
    BY <1>1 DEF Arrive, Go, TypeOK
  <2>2. ToldAt(r)'
    BY <1>a, <1>b, <2>1 DEF ToldAt
  <2> QED
    BY <2>1, <2>2, ToldMove
<1>2. ASSUME NEW r \in Requests, pc[r] \in {"guard", "target", "existing"}, Refuse(r)
      PROVE  ToldInv'
  BY <1>2, <1>b, ToldEnds DEF Refuse
<1>3. ASSUME NEW r \in Requests, Guard(r) PROVE ToldInv'
  <2>1. CASE Admit(r)
    <3>1. PICK p \in {"existing", "target"} :
            /\ Go(r, p) /\ (p = "existing" <=> op[r].kind = "add")
            /\ op' = op /\ unannounced' = unannounced
      BY <2>1 DEF Admit
    <3>2. ToldAt(r)'
      BY <1>3, <1>a, <1>b, <3>1 DEF ToldAt, Guard
    <3> QED
      BY <3>1, <3>2, ToldGoes
  <2> QED
    BY <1>2, <1>3, <2>1 DEF Guard
<1>4. ASSUME NEW r \in Requests, ReadTarget(r) PROVE ToldInv'
  <2>1. CASE ~Refuse(r)
    <3>1. PICK p \in {"write", "leave"} : Go(r, p) /\ op' = op /\ unannounced' = unannounced
      BY <1>4, <2>1 DEF ReadTarget
    <3>2. ToldAt(r) => ToldAt(r)'
      BY <1>4, <1>a, <1>b, <3>1 DEF ToldAt, ReadTarget
    <3> QED
      BY <3>1, <3>2, ToldGoes
  <2> QED
    BY <1>2, <1>4, <2>1 DEF ReadTarget
<1>5. ASSUME NEW r \in Requests, ReadExisting(r) PROVE ToldInv'
  <2>1. CASE ~Refuse(r)
    <3>1. Go(r, "join") /\ op' = op /\ unannounced' = unannounced
      BY <1>5, <2>1 DEF ReadExisting
    <3>2. ToldAt(r) => ToldAt(r)'
      BY <1>5, <1>a, <1>b, <3>1 DEF ToldAt, ReadExisting
    <3> QED
      BY <3>1, <3>2, ToldGoes
  <2> QED
    BY <1>2, <1>5, <2>1 DEF ReadExisting
<1>6. ASSUME NEW r \in Requests, Join(r) PROVE ToldInv'
  <2>1. ASSUME NEW u \in Users, Joined(r, u) PROVE ToldInv'
    <3>1. PICK p \in {"join", "audience"} : Go(r, p) /\ op' = op
      BY <2>1 DEF Joined
    <3>2. \A c \in unannounced' : c \in unannounced \/ c.by = r
      BY <2>1 DEF Joined, Changed, Changes
    <3>3. op[r].kind = "add"
      BY <1>6 DEF Join, ToldInv, ToldAt
    <3> QED
      BY <3>1, <3>2, <3>3, ToldChanges
  <2>2. CASE Throw(r) /\ UNCHANGED unannounced
    BY <2>2, ToldEnds
  <2>3. rejoining[r] \subseteq Users /\ newcomers[r] \subseteq Users
    BY DEF TypeOK
  <2> QED
    BY <1>6, <2>1, <2>2, <2>3 DEF Join
<1>7. ASSUME NEW r \in Requests, WriteRole(r) \/ Leave(r) \/ Crown(r) PROVE ToldInv'
  <2>1. PICK p \in {"heirs", "announce"} : Go(r, p) /\ op' = op
    BY <1>7 DEF WriteRole, Leave, Crown
  <2>2. \A c \in unannounced' : c \in unannounced \/ c.by = r
    BY <1>7 DEF WriteRole, Leave, Crown, Changed, Changes
  <2>3. op[r].kind # "add"
    BY <1>7 DEF WriteRole, Leave, Crown, ToldInv, ToldAt
  <2> QED
    BY <2>1, <2>2, <2>3, ToldChanges
<1>8. ASSUME NEW r \in Requests, ReadHeirs(r) PROVE ToldInv'
  <2>1. PICK p \in {"crown", "announce"} : Go(r, p) /\ op' = op /\ unannounced' = unannounced
    BY <1>8 DEF ReadHeirs
  <2>2. ToldAt(r) => ToldAt(r)'
    BY <1>8, <1>a, <2>1 DEF ToldAt, ReadHeirs
  <2> QED
    BY <2>1, <2>2, ToldGoes
<1>9. ASSUME NEW r \in Requests, Announce(r) PROVE ToldInv'
  <2>1. /\ unannounced' \subseteq unannounced
        /\ \A c \in unannounced' : ~(c.by = r /\ c.part = "target")
    BY <1>9 DEF Announce, Announced
  <2>2. CASE op[r].kind = "add"
    BY <1>9, <2>1, <2>2, ToldEnds DEF Announce
  <2>3. CASE op[r].kind # "add"
    <3>1. Go(r, "audience") /\ op' = op
      BY <1>9, <2>3 DEF Announce
    <3>2. ToldAt(r)' /\ \A q \in Requests \ {r} : pc'[q] = pc[q]
      BY <1>a, <2>1, <3>1 DEF ToldAt, Go, TypeOK
    <3> QED
      BY <2>1, <3>1, <3>2, ToldMove
  <2> QED
    BY <2>2, <2>3
<1>10. ASSUME NEW r \in Requests, ReadAudience(r) \/ ReadView(r) PROVE ToldInv'
  <2>1. PICK p \in {"view", "emit"} :
          /\ Go(r, p) /\ op' = op /\ unannounced' = unannounced
          /\ pc[r] \in {"audience", "view"}
    BY <1>10 DEF ReadAudience, ReadView
  <2>2. ToldAt(r) => ToldAt(r)'
    BY <1>a, <2>1 DEF ToldAt
  <2> QED
    BY <2>1, <2>2, ToldGoes
<1>11. ASSUME NEW r \in Requests, EmitUpdated(r) PROVE ToldInv'
  <2>1. pc[r] = "emit" /\ unannounced' = unannounced /\ ToldAt(r)
    BY <1>11 DEF EmitUpdated, ToldInv
  <2>2. CASE op[r].kind = "add"
    <3>1. Go(r, "announce") /\ op' = op
      BY <1>11, <2>2 DEF EmitUpdated
    <3>2. ToldAt(r)'
      BY <1>a, <2>1, <2>2, <3>1 DEF ToldAt
    <3> QED
      BY <2>1, <3>1, <3>2, ToldGoes
  <2>3. CASE op[r].kind # "add"
    <3>1. Finish(r) /\ \A c \in unannounced' : ~(c.by = r /\ c.part = "target")
      BY <1>11, <2>1, <2>3 DEF EmitUpdated, ToldAt
    <3> QED
      BY <2>1, <3>1, ToldEnds
  <2> QED
    BY <2>2, <2>3
<1>12. ASSUME NEW r \in Requests, Fail(r) PROVE ToldInv'
  BY <1>12, ToldEnds DEF Fail
<1>13. CASE Finished \/ UNCHANGED vars
  BY <1>13 DEF Finished, vars, ToldInv, ToldAt
<1> QED
  BY <1>1, <1>3, <1>4, <1>5, <1>6, <1>7, <1>8, <1>9, <1>10, <1>11, <1>12, <1>13 DEF Next, Step

\* README: entering, leaving, being removed and changing role are announced.  However requests
\* overlap and whatever dies, a request that was answered has a SYSTEM message for what became of
\* every target it names; for the heir of an owner and for the owner before there is none.
THEOREM TargetsAreAnnounced == Spec => []ChangesAreAnnounced
<1>1. Init => ToldInv
  BY DEF Init, ToldInv, ToldAt
<1>2. TypeOK /\ ToldInv /\ [Next]_vars => ToldInv'
  BY ToldNext
<1>3. TypeOK /\ ToldInv => ChangesAreAnnounced
  BY DEF TypeOK, ToldInv, ToldAt, ChangesAreAnnounced, Change
<1> QED
  BY <1>1, <1>2, <1>3, TypeCorrect, PTL DEF Spec

-----------------------------------------------------------------------------
(* What members are shown, when requests do not overlap and none dies.     *)

Fresh ==
  /\ \A u \in Active : shown[u] = RoomView
  /\ \A u \in Users \ Active : shown[u][u] = "none"

\* Where a request may have a change that members have not seen.
Unseen(r) ==
  pc[r] \in IF op[r].kind = "add" THEN {"join", "audience", "view", "emit"}
            ELSE {"heirs", "crown", "announce", "audience", "view", "emit"}

\* What is still to be seen is the business of the request in flight, which knows whom to
\* tell; of those outside only the member it removes may not have been sent a view yet.
NewsAt(r) ==
  /\ Fresh \/ Unseen(r)
  /\ \A u \in Users \ Active :
       shown[u][u] = "none" \/ (op[r].kind = "remove" /\ u \in op[r].targets)
  /\ pc[r] \in {"existing", "join"} => op[r].kind = "add"
  /\ pc[r] \in {"heirs", "crown"} => op[r].kind = "remove"
  /\ pc[r] = "join" => \A u \in newcomers[r] : member[u] = "none"
  /\ pc[r] \in {"view", "emit"} => audience[r] = Recipients(r)
  /\ pc[r] = "emit" => view[r] = RoomView

NewsInv ==
  /\ \A r \in Requests : ~Idle(r) => NewsAt(r)
  /\ (\A r \in Requests : Idle(r)) => Fresh

\* As of the step of one request nothing else moves.
LEMMA NewsMove ==
  ASSUME NEW r \in Requests, \A q \in Requests \ {r} : Idle(q)',
         IF Idle(r)' THEN Fresh' ELSE NewsAt(r)'
  PROVE  NewsInv'
  BY DEF NewsInv

\* A request that is refused has changed nothing.
LEMMA NewsRefused ==
  ASSUME TypeOK, NewsInv, Alone, NEW r \in Requests, pc[r] \in {"guard", "target", "existing"},
         Refuse(r)
  PROVE  NewsInv'
<1>1. NewsAt(r) /\ \A q \in Requests \ {r} : Idle(q)
  BY DEF NewsInv, Alone, Idle
<1>2. ~Unseen(r)
  BY DEF Unseen
<1>3. /\ pc' = [pc EXCEPT ![r] = "done"]
      /\ UNCHANGED <<member, role, shown>>
  BY DEF Refuse, Finish, Go, room
<1>4. Fresh'
  BY <1>1, <1>2, <1>3 DEF NewsAt, Fresh, Active, RoomView
<1> QED
  BY <1>1, <1>3, <1>4, NewsMove DEF Idle, TypeOK

\* Every step of a request that runs alone keeps what is known of the news.
LEMMA NewsNext ==
  ASSUME SerialInv, NewsInv, Undisturbed', TypeOK', [Next]_vars
  PROVE  NewsInv'
<1> USE DEF room, local, faults, Go
<1>t. TypeOK /\ Alone
  BY DEF SerialInv
<1>a. ASSUME NEW r \in Requests, ~Idle(r)
      PROVE  /\ NewsAt(r) /\ \A q \in Requests \ {r} : Idle(q)
             /\ op[r].kind \in {"add", "role", "remove"} /\ op[r].targets \in SUBSET Users
  <2>1. op[r] \in Op
    BY <1>a DEF SerialInv, KindFits
  <2>2. op[r].kind \in {"add", "role", "remove"} /\ op[r].targets \in SUBSET Users
    BY <2>1 DEF Op
  <2> QED
    BY <1>a, <1>t, <2>2 DEF NewsInv, Alone
<1>b. ASSUME NEW r \in Requests, ~Idle(r), NEW p \in Points, pc' = [pc EXCEPT ![r] = p]
      PROVE  pc'[r] = p /\ \A q \in Requests \ {r} : Idle(q)'
  BY <1>a, <1>b, <1>t DEF TypeOK, Idle
<1>c. ASSUME UNCHANGED <<member, role, shown>>
      PROVE  Active' = Active /\ RoomView' = RoomView /\ (Fresh' <=> Fresh)
  BY <1>c DEF Active, RoomView, Fresh
<1>1. ASSUME NEW r \in Requests, Arrive(r) PROVE NewsInv'
  <2>1. /\ \A q \in Requests : Idle(q)
        /\ pc' = [pc EXCEPT ![r] = "guard"]
        /\ UNCHANGED <<member, role, shown>>
    BY <1>1, <1>t DEF Arrive, InFlight, Idle, TypeOK, Undisturbed
  <2>2. Fresh
    BY <2>1 DEF NewsInv
  <2>3. pc'[r] = "guard" /\ \A q \in Requests \ {r} : Idle(q)'
    BY <2>1, <1>t DEF TypeOK, Idle
  <2>4. NewsAt(r)'
    BY <1>c, <2>1, <2>2, <2>3 DEF NewsAt, Fresh
  <2> QED
    BY <2>3, <2>4, NewsMove DEF Idle
<1>2. ASSUME NEW r \in Requests, Guard(r) PROVE NewsInv'
  <2>1. pc[r] = "guard" /\ ~Idle(r)
    BY <1>2 DEF Guard, Idle
  <2>2. CASE Refuse(r)
    BY <1>t, <2>1, <2>2, NewsRefused
  <2>3. CASE Admit(r)
    <3>1. PICK p \in {"existing", "target"} :
            /\ pc' = [pc EXCEPT ![r] = p] /\ (p = "existing" => op[r].kind = "add")
            /\ UNCHANGED <<member, role, shown, op>>
      BY <2>3 DEF Admit
    <3>2. pc'[r] = p /\ \A q \in Requests \ {r} : Idle(q)'
      BY <1>b, <2>1, <3>1 DEF Points
    <3>3. NewsAt(r) /\ ~Unseen(r)
      BY <1>a, <2>1 DEF Unseen
    <3>4. NewsAt(r)'
      BY <1>c, <3>1, <3>2, <3>3 DEF NewsAt
    <3> QED
      BY <3>2, <3>4, NewsMove DEF Idle
  <2> QED
    BY <1>2, <2>2, <2>3 DEF Guard
<1>3. ASSUME NEW r \in Requests, ReadTarget(r) PROVE NewsInv'
  <2>1. pc[r] = "target" /\ ~Idle(r)
    BY <1>3 DEF ReadTarget, Idle
  <2>2. CASE Refuse(r)
    BY <1>t, <2>1, <2>2, NewsRefused
  <2>3. CASE ~Refuse(r)
    <3>1. PICK p \in {"write", "leave"} :
            /\ pc' = [pc EXCEPT ![r] = p]
            /\ UNCHANGED <<member, role, shown, op>>
      BY <1>3, <2>3 DEF ReadTarget
    <3>2. pc'[r] = p /\ \A q \in Requests \ {r} : Idle(q)'
      BY <1>b, <2>1, <3>1 DEF Points
    <3>3. NewsAt(r) /\ ~Unseen(r)
      BY <1>a, <2>1 DEF Unseen
    <3>4. NewsAt(r)'
      BY <1>c, <3>1, <3>2, <3>3 DEF NewsAt
    <3> QED
      BY <3>2, <3>4, NewsMove DEF Idle
  <2> QED
    BY <2>2, <2>3
<1>4. ASSUME NEW r \in Requests, ReadExisting(r) PROVE NewsInv'
  <2>1. pc[r] = "existing" /\ ~Idle(r)
    BY <1>4 DEF ReadExisting, Idle
  <2>2. CASE Refuse(r)
    BY <1>t, <2>1, <2>2, NewsRefused
  <2>3. CASE ~Refuse(r)
    <3>1. /\ pc' = [pc EXCEPT ![r] = "join"]
          /\ newcomers' = [newcomers EXCEPT ![r] = {u \in op[r].targets : member[u] = "none"}]
          /\ UNCHANGED <<member, role, shown, op>>
      BY <1>4, <2>3 DEF ReadExisting
    <3>2. pc'[r] = "join" /\ \A q \in Requests \ {r} : Idle(q)'
      BY <1>b, <2>1, <3>1 DEF Points
    <3>3. NewsAt(r) /\ ~Unseen(r)
      BY <1>a, <2>1 DEF Unseen
    <3>4. \A u \in newcomers'[r] : member'[u] = "none"
      BY <1>t, <3>1 DEF TypeOK
    <3>5. NewsAt(r)'
      BY <1>c, <2>1, <3>1, <3>2, <3>3, <3>4 DEF NewsAt, Unseen
    <3> QED
      BY <3>2, <3>5, NewsMove DEF Idle
  <2> QED
    BY <2>2, <2>3
<1>5. ASSUME NEW r \in Requests, Join(r) PROVE NewsInv'
  <2>1. pc[r] = "join" /\ ~Idle(r) /\ op[r].kind = "add" /\ NewsAt(r)
    BY <1>5, <1>a DEF Join, Idle, NewsAt
  <2>2. PICK u \in rejoining[r] \cup newcomers[r] : Joined(r, u)
    BY <1>5, <2>1 DEF Join, NewsAt
  <2>3. PICK p \in {"join", "audience"} :
          /\ pc' = [pc EXCEPT ![r] = p]
          /\ newcomers' = [newcomers EXCEPT ![r] = @ \ {u}]
          /\ member' = [member EXCEPT ![u] = "active"]
          /\ UNCHANGED <<shown, op>>
    BY <2>2 DEF Joined, JoinRow
  <2>4. pc'[r] = p /\ \A q \in Requests \ {r} : Idle(q)'
    BY <1>b, <2>1, <2>3 DEF Points
  <2>5. u \in Users
    BY <1>t DEF TypeOK
  <2>6. \A v \in Users : member'[v] = IF v = u THEN "active" ELSE member[v]
    BY <1>t, <2>3, <2>5 DEF TypeOK
  <2>7. Active \subseteq Active'
    BY <2>6 DEF Active
  <2>8. \A v \in newcomers'[r] : member'[v] = "none"
    BY <1>t, <2>1, <2>3, <2>6 DEF NewsAt, TypeOK
  <2>9. Unseen(r)'
    BY <2>1, <2>3, <2>4 DEF Unseen
  <2>10. \A v \in Users \ Active' : shown'[v][v] = "none"
    BY <2>1, <2>3, <2>7 DEF NewsAt
  <2>11. NewsAt(r)'
    BY <2>1, <2>3, <2>4, <2>8, <2>9, <2>10 DEF NewsAt
  <2> QED
    BY <2>4, <2>11, NewsMove DEF Idle
<1>6. ASSUME NEW r \in Requests, WriteRole(r) PROVE NewsInv'
  <2>1. pc[r] = "write" /\ ~Idle(r) /\ op[r].kind = "role" /\ NewsAt(r)
    BY <1>6, <1>a DEF WriteRole, Idle, SerialInv, KindFits
  <2>2. /\ pc' = [pc EXCEPT ![r] = "announce"]
        /\ UNCHANGED <<member, shown, op>>
    BY <1>6 DEF WriteRole
  <2>3. pc'[r] = "announce" /\ \A q \in Requests \ {r} : Idle(q)'
    BY <1>b, <2>1, <2>2 DEF Points
  <2>4. Active' = Active /\ Unseen(r)'
    BY <2>1, <2>2, <2>3 DEF Active, Unseen
  <2>5. NewsAt(r)'
    BY <2>1, <2>2, <2>3, <2>4 DEF NewsAt
  <2> QED
    BY <2>3, <2>5, NewsMove DEF Idle
<1>7. ASSUME NEW r \in Requests, Leave(r) PROVE NewsInv'
  <2>1. pc[r] = "leave" /\ ~Idle(r) /\ op[r].kind = "remove" /\ NewsAt(r)
    BY <1>7, <1>a DEF Leave, Idle, SerialInv, KindFits
  <2>2. PICK p \in {"heirs", "announce"}, t \in op[r].targets :
          /\ pc' = [pc EXCEPT ![r] = p]
            /\ member' = [member EXCEPT ![t] = "left"]
          /\ UNCHANGED <<shown, op>>
    BY <1>7 DEF Leave
  <2>3. pc'[r] = p /\ \A q \in Requests \ {r} : Idle(q)'
    BY <1>b, <2>1, <2>2 DEF Points
  <2>4. Active \subseteq Active' \cup {t} /\ Unseen(r)'
    BY <1>t, <2>1, <2>2, <2>3 DEF Active, Unseen, TypeOK
  <2>5. NewsAt(r)'
    BY <2>1, <2>2, <2>3, <2>4 DEF NewsAt
  <2> QED
    BY <2>3, <2>5, NewsMove DEF Idle
<1>8. ASSUME NEW r \in Requests, ReadHeirs(r) \/ Crown(r) PROVE NewsInv'
  <2>1. pc[r] \in {"heirs", "crown"} /\ ~Idle(r) /\ NewsAt(r)
    BY <1>8, <1>a DEF ReadHeirs, Crown, Idle
  <2>2. op[r].kind = "remove"
    BY <2>1 DEF NewsAt
  <2>3. PICK p \in {"crown", "announce"} :
          /\ pc' = [pc EXCEPT ![r] = p]
          /\ UNCHANGED <<member, shown, op>>
    BY <1>8 DEF ReadHeirs, Crown
  <2>4. pc'[r] = p /\ \A q \in Requests \ {r} : Idle(q)'
    BY <1>b, <2>1, <2>3 DEF Points
  <2>5. Active' = Active /\ Unseen(r)'
    BY <2>2, <2>3, <2>4 DEF Active, Unseen
  <2>6. NewsAt(r)'
    BY <2>1, <2>2, <2>3, <2>4, <2>5 DEF NewsAt
  <2> QED
    BY <2>4, <2>6, NewsMove DEF Idle
<1>9. ASSUME NEW r \in Requests, Announce(r) PROVE NewsInv'
  <2>1. pc[r] = "announce" /\ ~Idle(r) /\ NewsAt(r)
    BY <1>9, <1>a DEF Announce, Idle
  <2>2. UNCHANGED <<member, role, shown>>
    BY <1>9 DEF Announce
  <2>3. CASE op[r].kind = "add"
    <3>1. pc' = [pc EXCEPT ![r] = "done"]
      BY <1>9, <2>3 DEF Announce, Finish
    <3>2. pc'[r] = "done" /\ \A q \in Requests \ {r} : Idle(q)'
      BY <1>b, <2>1, <3>1 DEF Points
    <3>3. Fresh'
      BY <1>c, <2>1, <2>2, <2>3 DEF NewsAt, Unseen
    <3> QED
      BY <2>2, <3>2, <3>3, NewsMove DEF Idle
  <2>4. CASE op[r].kind # "add"
    <3>1. pc' = [pc EXCEPT ![r] = "audience"] /\ op' = op
      BY <1>9, <2>4 DEF Announce
    <3>2. pc'[r] = "audience" /\ \A q \in Requests \ {r} : Idle(q)'
      BY <1>b, <2>1, <3>1 DEF Points
    <3>3. Unseen(r)'
      BY <2>4, <3>1, <3>2 DEF Unseen
    <3>4. NewsAt(r)'
      BY <1>c, <2>1, <2>2, <3>1, <3>2, <3>3 DEF NewsAt
    <3> QED
      BY <3>2, <3>4, NewsMove DEF Idle
  <2> QED
    BY <2>3, <2>4
<1>10. ASSUME NEW r \in Requests, ReadAudience(r) PROVE NewsInv'
  <2>1. pc[r] = "audience" /\ ~Idle(r) /\ NewsAt(r)
    BY <1>10, <1>a DEF ReadAudience, Idle
  <2>2. /\ pc' = [pc EXCEPT ![r] = "view"]
        /\ audience' = [audience EXCEPT ![r] = Recipients(r)]
        /\ UNCHANGED <<member, role, shown, op>>
    BY <1>10 DEF ReadAudience
  <2>3. pc'[r] = "view" /\ \A q \in Requests \ {r} : Idle(q)'
    BY <1>b, <2>1, <2>2 DEF Points
  <2>4. audience'[r] = Recipients(r)'
    BY <1>c, <1>t, <2>2 DEF Recipients, TypeOK
  <2>5. Unseen(r)'
    BY <2>1, <2>2, <2>3, <1>a DEF Unseen, NewsAt
  <2>6. NewsAt(r)'
    BY <1>c, <2>1, <2>2, <2>3, <2>4, <2>5 DEF NewsAt
  <2> QED
    BY <2>3, <2>6, NewsMove DEF Idle
<1>11. ASSUME NEW r \in Requests, ReadView(r) PROVE NewsInv'
  <2>1. pc[r] = "view" /\ ~Idle(r) /\ NewsAt(r)
    BY <1>11, <1>a DEF ReadView, Idle
  <2>2. /\ pc' = [pc EXCEPT ![r] = "emit"]
        /\ view' = [view EXCEPT ![r] = RoomView]
        /\ UNCHANGED <<member, role, shown, op, audience>>
    BY <1>11 DEF ReadView
  <2>3. pc'[r] = "emit" /\ \A q \in Requests \ {r} : Idle(q)'
    BY <1>b, <2>1, <2>2 DEF Points
  <2>4. audience'[r] = Recipients(r)' /\ view'[r] = RoomView'
    BY <1>c, <1>t, <2>1, <2>2 DEF Recipients, TypeOK, NewsAt
  <2>5. Unseen(r)'
    BY <2>1, <2>2, <2>3, <1>a DEF Unseen, NewsAt
  <2>6. NewsAt(r)'
    BY <1>c, <2>1, <2>2, <2>3, <2>4, <2>5 DEF NewsAt
  <2> QED
    BY <2>3, <2>6, NewsMove DEF Idle
<1>12. ASSUME NEW r \in Requests, EmitUpdated(r) PROVE NewsInv'
  <2>1. pc[r] = "emit" /\ ~Idle(r) /\ NewsAt(r)
    BY <1>12, <1>a DEF EmitUpdated, Idle
  <2>2. /\ shown' = [u \in Users |-> IF u \in audience[r] THEN view[r] ELSE shown[u]]
        /\ UNCHANGED <<member, role>>
    BY <1>12 DEF EmitUpdated
  <2>3. Active' = Active /\ RoomView' = RoomView /\ Active \subseteq Users
    BY <2>2 DEF Active, RoomView
  <2>4. audience[r] = Recipients(r) /\ view[r] = RoomView
    BY <2>1 DEF NewsAt
  <2>5. \A u \in Users \ Active : RoomView[u] = "none"
    BY DEF RoomView
  <2>6. \A u \in Users \ Active : u \notin audience[r] => shown[u][u] = "none"
    BY <2>1, <2>4 DEF NewsAt, Recipients
  <2>7. Fresh'
    BY <2>2, <2>3, <2>4, <2>5, <2>6 DEF Fresh, Recipients
  <2>8. CASE op[r].kind = "add"
    <3>1. pc' = [pc EXCEPT ![r] = "announce"] /\ op' = op
      BY <1>12, <2>8 DEF EmitUpdated
    <3>2. pc'[r] = "announce" /\ \A q \in Requests \ {r} : Idle(q)'
      BY <1>b, <2>1, <3>1 DEF Points
    <3>3. NewsAt(r)'
      BY <2>1, <2>2, <2>7, <3>1, <3>2 DEF NewsAt, Fresh
    <3> QED
      BY <3>2, <3>3, NewsMove DEF Idle
  <2>9. CASE op[r].kind # "add"
    <3>1. pc' = [pc EXCEPT ![r] = "done"]
      BY <1>12, <2>9 DEF EmitUpdated, Finish
    <3>2. pc'[r] = "done" /\ \A q \in Requests \ {r} : Idle(q)'
      BY <1>b, <2>1, <3>1 DEF Points
    <3> QED
      BY <2>7, <3>2, NewsMove DEF Idle
  <2> QED
    BY <2>8, <2>9
<1>13. ASSUME NEW r \in Requests, Fail(r) PROVE FALSE
  BY <1>13, <1>t, RolesAssumption DEF Fail, Undisturbed, TypeOK
<1>14. CASE Finished \/ UNCHANGED vars
  <2>1. UNCHANGED <<member, role, shown, pc, op, newcomers, audience, view>>
    BY <1>14 DEF Finished, vars
  <2>2. \A r \in Requests : (Idle(r)' <=> Idle(r)) /\ (NewsAt(r)' <=> NewsAt(r))
    BY <1>c, <2>1 DEF Idle, NewsAt, Unseen, Recipients
  <2> QED
    BY <1>c, <2>1, <2>2 DEF NewsInv
<1> QED
  BY <1>1, <1>2, <1>3, <1>4, <1>5, <1>6, <1>7, <1>8, <1>9, <1>10, <1>11, <1>12, <1>13, <1>14
  DEF Next, Step

\* Requests handled one at a time, none of which dies, keep what is known of the news.
LEMMA NewsAlways == Spec => [](Undisturbed => NewsInv)
<1>1. Init => NewsInv
  <2> SUFFICES ASSUME Init PROVE NewsInv
    OBVIOUS
  <2>1. \A r \in Requests : Idle(r)
    BY DEF Init, Idle
  <2>2. \A u \in Users : shown[u] = RoomView
    BY DEF Init
  <2>3. Fresh
    BY <2>2 DEF Fresh, RoomView, Active
  <2> QED
    BY <2>1, <2>3 DEF NewsInv
<1>2. /\ Undisturbed => SerialInv
      /\ Undisturbed => NewsInv
      /\ TypeOK /\ TypeOK' /\ [Next]_vars
      => (Undisturbed => NewsInv)'
  BY NewsNext, UndisturbedBefore
<1> QED
  BY <1>1, <1>2, SerialInvAlways, TypeCorrect, PTL DEF Spec

\* While requests are handled one at a time and none dies, every active member has, between
\* requests, last been sent the room as it is, and one who is out a view without itself.
THEOREM SerialViews == Spec => []MembersSeeTheRoom
<1>1. (Undisturbed => NewsInv) => MembersSeeTheRoom
  BY DEF NewsInv, Fresh, MembersSeeTheRoom, InFlight, Idle
<1> QED
  BY <1>1, NewsAlways, PTL
=============================================================================
