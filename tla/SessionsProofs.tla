--------------------------- MODULE SessionsProofs ---------------------------
(***************************************************************************)
(* Theorems about Sessions, for any number of requests.                    *)
(***************************************************************************)
EXTENDS Sessions, TLAPS

\* Which endpoint a request at a point belongs to; one that has not come has no answer.
KindFits(r) ==
  /\ pc[r] = "idle" => answer[r] = "none"
  /\ pc[r] \in {"whitelist", "upsert"} => kind[r] = "login"
  /\ pc[r] \in {"exists", "rotate"} => kind[r] = "refresh"
  /\ pc[r] = "existing" => kind[r] \in {"block", "allow", "delete"}
  /\ pc[r] = "status" => kind[r] \in {"refresh", "connect"}
  /\ pc[r] = "join" => kind[r] = "connect"
  /\ pc[r] \in {"update", "findUser"} => kind[r] \in {"block", "allow"}
  /\ pc[r] = "suspend" => kind[r] = "block"
  /\ pc[r] = "revive" => kind[r] = "allow"
  /\ pc[r] \in {"scan", "purge"} => kind[r] \in {"refresh", "block"}
  /\ pc[r] = "kick" => kind[r] = "block"

TypeInv == TypeOK /\ \A r \in Requests : KindFits(r)

\* The account as a user nobody knows, or one with a session, is of the right types.
LEMMA TypesAtStart == Init => TypeInv
<1> SUFFICES ASSUME Init PROVE TypeInv
  OBVIOUS
<1>1. barred = FALSE
  BY DEF Init
<1>2. barred \in BOOLEAN
  BY <1>1
<1>3. keys \subseteq Tokens /\ keys = issued
  BY DEF Init, Tokens
<1>4. overlaps \in 0..MaxOverlaps /\ failures \in 0..MaxFailures
  BY SessionsAssumption DEF Init
<1> QED
  BY <1>2, <1>3, <1>4
  DEF Init, TypeInv, TypeOK, KindFits, ListStatus, AllKinds, Points, Answers

\* Every endpoint keeps the types: what Redis holds was issued, and each point of a
\* request belongs to its endpoint.
LEMMA TypesNext == TypeInv /\ [Next]_vars => TypeInv'
<1> SUFFICES ASSUME TypeInv, [Next]_vars PROVE TypeInv'
  OBVIOUS
<1> USE SessionsAssumption
    DEF TypeInv, TypeOK, KindFits, Tokens, ListStatus, AllKinds, Points, Answers, account,
        history, faults, LocalOnly, Go, Reply
<1>0. ASSUME Comes PROVE overlaps' \in 0..MaxOverlaps
  BY <1>0 DEF Comes
<1>1. ASSUME NEW r \in Requests, Arrive(r) PROVE TypeInv'
  <2>1. PICK k \in Kinds :
          /\ kind' = [kind EXCEPT ![r] = k]
          /\ pc' = [pc EXCEPT ![r] = Entry(k)]
          /\ \E t \in IF k \in {"refresh", "logout"} THEN issued ELSE {NoToken} :
               token' = [token EXCEPT ![r] = t]
          /\ Notes(r, k)
    BY <1>1 DEF Arrive
  <2>2. UNCHANGED <<account, seen, found, answer, failures>> /\ overlaps' \in 0..MaxOverlaps
    BY <1>0, <1>1 DEF Arrive
  <2>3. clear' \subseteq Requests /\ barred' \in BOOLEAN /\ late' \subseteq Requests
    BY <2>1 DEF Notes
  <2>4. token' \in [Requests -> Tokens \cup {NoToken}]
    BY <2>1
  <2> QED
    BY <2>1, <2>2, <2>3, <2>4 DEF Entry
<1>2. ASSUME NEW r \in Requests, ReadWhitelist(r) PROVE TypeInv'
  BY <1>2 DEF ReadWhitelist
<1>3. ASSUME NEW r \in Requests, UpsertUser(r) PROVE TypeInv'
  BY <1>3 DEF UpsertUser
<1>4. ASSUME NEW r \in Requests, StoreToken(r) PROVE TypeInv'
  BY <1>4 DEF StoreToken, Issue
<1>5. ASSUME NEW r \in Requests, CheckToken(r) \/ CheckStatus(r) PROVE TypeInv'
  <2>1. CASE CheckToken(r)
    BY <2>1 DEF CheckToken
  <2>2. CASE CheckStatus(r)
    <3>1. pc[r] = "status" /\ UNCHANGED <<seen, found, account, history>>
      BY <2>2 DEF CheckStatus
    <3>2. CASE Usable(r) /\ Go(r, IF kind[r] = "refresh" THEN "rotate" ELSE "join")
      BY <3>1, <3>2
    <3>3. CASE kind[r] = "refresh" /\ Go(r, "scan")
      BY <3>1, <3>3
    <3>4. CASE Reply(r, "refused")
      BY <3>1, <3>4
    <3> QED
      BY <2>2, <3>2, <3>3, <3>4 DEF CheckStatus
  <2> QED
    BY <1>5, <2>1, <2>2
<1>6. ASSUME NEW r \in Requests, RotateOut(r) \/ DropToken(r) PROVE TypeInv'
  BY <1>6 DEF RotateOut, DropToken, Rotate
<1>7. ASSUME NEW r \in Requests, Scan(r) PROVE TypeInv'
  BY <1>7 DEF Scan
<1>8. ASSUME NEW r \in Requests, Purge(r) PROVE TypeInv'
  BY <1>8 DEF Purge, Purged
<1>9. ASSUME NEW r \in Requests, JoinChannel(r) PROVE TypeInv'
  BY <1>9 DEF JoinChannel
<1>10. ASSUME NEW r \in Requests, Hangup(r) PROVE TypeInv'
  BY <1>0, <1>10 DEF Hangup
<1>11. ASSUME NEW r \in Requests, ReadRow(r) \/ RemoveRow(r) PROVE TypeInv'
  <2>1. CASE ReadRow(r)
    <3>1. seen' = [seen EXCEPT ![r] = listed] /\ UNCHANGED <<found, account, history>>
      BY <2>1 DEF ReadRow
    <3>2. CASE Reply(r, "refused")
      BY <3>1, <3>2
    <3>3. CASE kind[r] = "delete" /\ Go(r, "remove")
      BY <3>1, <3>3
    <3>4. CASE kind[r] # "delete" /\ pc[r] = "existing" /\ Go(r, "update")
      BY <3>1, <3>4
    <3> QED
      BY <2>1, <3>2, <3>3, <3>4 DEF ReadRow
  <2>2. CASE RemoveRow(r)
    BY <2>2 DEF RemoveRow
  <2> QED
    BY <1>11, <2>1, <2>2
<1>12. ASSUME NEW r \in Requests, UpdateRow(r) PROVE TypeInv'
  BY <1>12 DEF UpdateRow
<1>b. ASSUME NEW r \in Requests, Answered(r)
      PROVE  barred' \in BOOLEAN /\ Reply(r, "ok") /\ UNCHANGED <<clear, late, faults>>
  BY <1>b, Zenon DEF Answered
<1>13. ASSUME NEW r \in Requests, FindUser(r) PROVE TypeInv'
  <2>1. CASE Answered(r)
    BY <1>b, <1>13, <2>1 DEF FindUser
  <2>2. CASE ~Answered(r)
    BY <1>13, <2>2 DEF FindUser
  <2> QED
    BY <2>1, <2>2
<1>14. ASSUME NEW r \in Requests, Suspend(r) \/ Revive(r) PROVE TypeInv'
  BY <1>14 DEF Suspend, Revive
<1>15. ASSUME NEW r \in Requests, Kick(r) PROVE TypeInv'
  <2>1. sockets' = {}
    BY <1>15 DEF Kick, Kicked
  <2> QED
    BY <1>b, <1>15, <2>1 DEF Kick
<1>16. ASSUME NEW r \in Requests, Fail(r) PROVE TypeInv'
  BY <1>16 DEF Fail
<1>17. CASE Wait \/ UNCHANGED vars
  BY <1>17 DEF Wait, vars
<1> QED
  BY <1>1, <1>2, <1>3, <1>4, <1>5, <1>6, <1>7, <1>8, <1>9, <1>10, <1>11, <1>12, <1>13, <1>14,
     <1>15, <1>16, <1>17 DEF Next, Step

\* Whatever overlaps and whatever dies, every valid refresh token is one that was issued.
THEOREM TypeCorrect == Spec => []TypeOK
<1>1. TypeInv => TypeOK
  BY DEF TypeInv
<1> QED
  BY <1>1, TypesAtStart, TypesNext, PTL DEF Spec

-----------------------------------------------------------------------------
(* After the answer of a block, however it overlapped.                     *)

\* Beside a clear request there is no login and no allow, so once a clear block has written
\* the row nobody lifts it, and once it has suspended the user nobody activates it.
ClearInv ==
  /\ \A r \in clear : pc[r] # "idle"
  /\ \A r \in clear \cap InFlight :
    /\ \A q \in InFlight : kind[q] \notin Admitting
    /\ pc[r] \in {"findUser", "suspend", "scan", "purge", "kick"} /\ kind[r] = "block" =>
         listed \in {"BLOCKED", "none"}
    /\ pc[r] \in {"scan", "purge", "kick"} /\ kind[r] = "block" => status = "SUSPENDED"

\* While barred no allow is in flight, and a login has not read the row.
BarredInv ==
  barred =>
    /\ status # "ACTIVE"
    /\ listed \in {"BLOCKED", "none"}
    /\ \A q \in InFlight : kind[q] # "allow" /\ (kind[q] = "login" => pc[q] = "whitelist")

\* A late request is on no way to a token or a socket.
LateInv ==
  \A r \in late :
    /\ barred
    /\ pc[r] \notin {"idle", "upsert", "rotate", "store", "join"}
    /\ answer[r] # "granted"

BlockInv == ClearInv /\ BarredInv /\ LateInv

\* What a step that only moves one request past a point keeps.
LEMMA MoveKeeps ==
  ASSUME TypeInv, BlockInv, NEW r \in Requests, r \in InFlight,
         kind' = kind, listed' = listed, status' = status, UNCHANGED <<clear, barred, late>>,
         NEW p, pc' = [pc EXCEPT ![r] = p],
         p \notin {"idle", "upsert", "findUser", "suspend"},
         p \in {"scan", "purge", "kick"} => pc[r] \in {"scan", "purge", "kick"} \/ kind[r] # "block",
         p = "whitelist" => pc[r] = "whitelist",
         kind[r] = "login" => pc[r] # "whitelist" \/ p = "done",
         p \in {"rotate", "store", "join"} => r \notin late,
         \A q \in Requests : answer'[q] = "granted" => answer[q] = "granted" \/ q \notin late
  PROVE  BlockInv'
<1> USE DEF TypeInv, TypeOK, InFlight, BlockInv
<1>1. InFlight' \subseteq InFlight
  OBVIOUS
<1>2. ClearInv'
  BY <1>1 DEF ClearInv
<1>3. BarredInv'
  BY <1>1 DEF BarredInv
<1>4. LateInv'
  BY DEF LateInv
<1> QED
  BY <1>2, <1>3, <1>4

\* Every step keeps what a clear block has brought about.
LEMMA BlockInvNext == TypeInv /\ BlockInv /\ [Next]_vars => BlockInv'
<1> SUFFICES ASSUME TypeInv, BlockInv, [Next]_vars PROVE BlockInv'
  OBVIOUS
<1> USE DEF account, history, faults, LocalOnly, Go, Reply
<1>1. ASSUME NEW r \in Requests, Arrive(r) PROVE BlockInv'
  <2>1. PICK k \in Kinds :
          /\ kind' = [kind EXCEPT ![r] = k]
          /\ pc' = [pc EXCEPT ![r] = Entry(k)]
          /\ Notes(r, k)
    BY <1>1 DEF Arrive
  <2>2. /\ pc[r] = "idle" /\ UNCHANGED <<listed, status, answer>>
        /\ pc'[r] \in {"whitelist", "exists", "drop", "status", "existing"}
        /\ k = "login" => pc'[r] = "whitelist"
        /\ \A q \in Requests \ {r} : pc'[q] = pc[q] /\ kind'[q] = kind[q]
        /\ kind'[r] = k /\ InFlight' = InFlight \cup {r}
    BY <1>1, <2>1, SessionsAssumption
    DEF Arrive, Entry, TypeInv, TypeOK, AllKinds, InFlight
  <2>3. answer[r] # "granted"
    BY <2>2 DEF TypeInv, KindFits
  <2>4. ClearInv'
    <3>1. ASSUME NEW q \in clear'
          PROVE  /\ k \notin Admitting
                 /\ q \in clear \/ (q = r /\ \A p \in InFlight : kind[p] \notin Admitting)
      BY <2>1, <3>1 DEF Notes
    <3> QED
      BY <2>2, <3>1 DEF BlockInv, ClearInv, InFlight, TypeInv, TypeOK
  <2>5. BarredInv'
    <3>1. barred' => barred /\ k # "allow"
      BY <2>1, Zenon DEF Notes
    <3>2. CASE barred'
      <4>1. /\ status # "ACTIVE" /\ listed \in {"BLOCKED", "none"}
            /\ \A q \in InFlight : kind[q] # "allow" /\ (kind[q] = "login" => pc[q] = "whitelist")
        BY <3>1, <3>2, Zenon DEF BlockInv, BarredInv
      <4>2. \A q \in InFlight' :
              kind'[q] # "allow" /\ (kind'[q] = "login" => pc'[q] = "whitelist")
        BY <2>2, <3>1, <3>2, <4>1 DEF InFlight
      <4> QED
        BY <2>2, <4>1, <4>2 DEF BarredInv
    <3> QED
      BY <3>2 DEF BarredInv
  <2>6. LateInv'
    <3>1. ASSUME NEW q \in late'
          PROVE  q \in late \cup {r} /\ barred /\ k # "allow"
      BY <2>1, <3>1 DEF Notes, BlockInv, LateInv
    <3>2. barred /\ k # "allow" => barred'
      BY <2>1 DEF Notes
    <3> QED
      BY <2>2, <2>3, <3>1, <3>2 DEF BlockInv, LateInv, TypeInv, TypeOK
  <2> QED
    BY <2>4, <2>5, <2>6 DEF BlockInv
<1>2. ASSUME NEW r \in Requests, ReadWhitelist(r) PROVE BlockInv'
  BY <1>2 DEF ReadWhitelist, TypeInv, TypeOK, KindFits, BlockInv, ClearInv, BarredInv, LateInv,
     InFlight, Admitting
<1>3. ASSUME NEW r \in Requests, UpsertUser(r) PROVE BlockInv'
  BY <1>3 DEF UpsertUser, TypeInv, TypeOK, KindFits, BlockInv, ClearInv, BarredInv, LateInv,
     InFlight, Admitting
<1>4. ASSUME NEW r \in Requests, StoreToken(r) PROVE BlockInv'
  BY <1>4, MoveKeeps DEF StoreToken, InFlight, TypeInv, TypeOK, BlockInv, LateInv
<1>5. ASSUME NEW r \in Requests, CheckToken(r) PROVE BlockInv'
  BY <1>5, MoveKeeps DEF CheckToken, InFlight, TypeInv, TypeOK, KindFits
<1>6. ASSUME NEW r \in Requests, CheckStatus(r) PROVE BlockInv'
  BY <1>6, MoveKeeps DEF CheckStatus, Usable, InFlight, TypeInv, TypeOK, KindFits, BlockInv,
     LateInv, BarredInv
<1>7. ASSUME NEW r \in Requests, RotateOut(r) \/ DropToken(r) \/ JoinChannel(r) PROVE BlockInv'
  BY <1>7, MoveKeeps DEF RotateOut, DropToken, JoinChannel, InFlight, TypeInv, TypeOK, KindFits,
     BlockInv, LateInv
<1>8. ASSUME NEW r \in Requests, Scan(r) \/ Purge(r) PROVE BlockInv'
  BY <1>8, MoveKeeps DEF Scan, Purge, InFlight, TypeInv, TypeOK, KindFits
<1>9. ASSUME NEW r \in Requests, ReadRow(r) PROVE BlockInv'
  BY <1>9, MoveKeeps DEF ReadRow, InFlight, TypeInv, TypeOK, KindFits
<1>10. ASSUME NEW r \in Requests, UpdateRow(r) PROVE BlockInv'
  BY <1>10 DEF UpdateRow, TypeInv, TypeOK, KindFits, BlockInv, ClearInv, BarredInv, LateInv,
     InFlight, Admitting
<1>11. ASSUME NEW r \in Requests, RemoveRow(r) PROVE BlockInv'
  BY <1>11 DEF RemoveRow, TypeInv, TypeOK, KindFits, BlockInv, ClearInv, BarredInv, LateInv,
     InFlight, Admitting
<1>12. ASSUME NEW r \in Requests, FindUser(r) PROVE BlockInv'
  BY <1>12 DEF FindUser, Wanted, Answered, TypeInv, TypeOK, KindFits, BlockInv, ClearInv,
     BarredInv, LateInv, InFlight, Admitting
<1>13. ASSUME NEW r \in Requests, Suspend(r) \/ Revive(r) PROVE BlockInv'
  BY <1>13 DEF Suspend, Revive, TypeInv, TypeOK, KindFits, BlockInv, ClearInv,
     BarredInv, LateInv, InFlight, Admitting
<1>14. ASSUME NEW r \in Requests, Kick(r) PROVE BlockInv'
  BY <1>14 DEF Kick, Answered, TypeInv, TypeOK, KindFits, BlockInv, ClearInv,
     BarredInv, LateInv, InFlight, Admitting
<1>15. ASSUME NEW r \in Requests, Fail(r) PROVE BlockInv'
  BY <1>15, MoveKeeps DEF Fail, InFlight, TypeInv, TypeOK
<1>16. CASE Wait \/ UNCHANGED vars \/ \E r \in Requests : Hangup(r)
  BY <1>16 DEF Wait, Hangup, vars, BlockInv, ClearInv, BarredInv, LateInv, InFlight
<1> QED
  BY <1>1, <1>2, <1>3, <1>4, <1>5, <1>6, <1>7, <1>8, <1>9, <1>10, <1>11, <1>12, <1>13, <1>14,
     <1>15, <1>16 DEF Next, Step

\* The invariant holds for ever.
LEMMA BlockInvAlways == Spec => [](TypeInv /\ BlockInv)
<1>1. Init => TypeInv /\ BlockInv
  BY TypesAtStart DEF Init, BlockInv, ClearInv, BarredInv, LateInv
<1> QED
  BY <1>1, TypesNext, BlockInvNext, PTL DEF Spec

\* README: BLOCKED means SUSPENDED.  Once a block that no login and no allow overlapped has
\* been answered, the user is not ACTIVE until an allow comes, however many requests
\* overlapped with it and whatever died; and nothing that comes after the answer is given a
\* token or a channel, although refresh tokens that raced the block may still be in Redis.
THEOREM BlockHolds == Spec => []BlockIsFinal
<1>1. BlockInv => BlockIsFinal
  BY DEF BlockInv, BarredInv, LateInv, BlockIsFinal
<1> QED
  BY <1>1, BlockInvAlways, PTL

-----------------------------------------------------------------------------
(* Requests one at a time.                                                 *)

OneRequest == \A q, r \in InFlight : q = r

\* The account is out: what README says of a BLOCKED row.
Out == status # "ACTIVE" /\ keys = {} /\ sockets = {}

\* A user nobody has seen has no session.
StrangerInv == status = "none" => issued = {} /\ sockets = {}

\* What the request being handled has read is still so; a block is as far as its point
\* says, and only a block leaves a BLOCKED account that is not out.
RequestInv ==
  /\ \A r \in InFlight :
       /\ pc[r] \in {"upsert", "rotate", "store", "join", "revive"} => listed # "BLOCKED"
       /\ pc[r] = "upsert" => seen[r] = listed
       /\ pc[r] \in {"rotate", "store", "join"} => status = "ACTIVE"
       /\ pc[r] = "findUser" => (kind[r] = "block" <=> listed = "BLOCKED")
       /\ pc[r] \in {"suspend", "kick"} \/ (pc[r] \in {"scan", "purge"} /\ kind[r] = "block") =>
            listed = "BLOCKED"
       /\ pc[r] \in {"scan", "purge", "kick"} /\ listed = "BLOCKED" => status # "ACTIVE"
       /\ pc[r] = "purge" => keys \subseteq found[r]
       /\ pc[r] = "kick" => keys = {}
  /\ listed = "BLOCKED" =>
       Out \/ \E r \in InFlight : kind[r] = "block" /\ pc[r] \in {"findUser", "suspend", "scan",
                                                               "purge", "kick"}

SerialInv == OneRequest /\ StrangerInv /\ RequestInv

\* Every request that is handled alone keeps the invariant.
LEMMA SerialInvNext ==
  ASSUME TypeInv, SerialInv, Undisturbed', TypeInv', [Next]_vars
  PROVE  SerialInv'
<1> USE DEF account, history, faults, LocalOnly, Go, Reply
<1>q. ASSUME Comes PROVE Quiet
  BY <1>q, SessionsAssumption DEF Comes, Undisturbed, TypeInv, TypeOK
<1>0. ASSUME NEW r \in InFlight PROVE InFlight = {r}
  BY <1>0 DEF SerialInv, OneRequest
<1>1. ASSUME NEW r \in Requests, Arrive(r) PROVE SerialInv'
  <2>1. PICK k \in Kinds :
          /\ kind' = [kind EXCEPT ![r] = k]
          /\ pc' = [pc EXCEPT ![r] = Entry(k)]
    BY <1>1 DEF Arrive
  <2>2. /\ InFlight = {} /\ UNCHANGED account
        /\ pc'[r] \in {"whitelist", "exists", "drop", "status", "existing"}
        /\ InFlight' = {r}
    BY <1>1, <1>q, <2>1, SessionsAssumption
    DEF Arrive, Entry, Quiet, TypeInv, TypeOK, AllKinds, InFlight
  <2> QED
    BY <2>2 DEF SerialInv, OneRequest, StrangerInv, RequestInv, Out
<1>2. ASSUME NEW r \in Requests, ReadWhitelist(r) PROVE SerialInv'
  BY <1>0, <1>2 DEF ReadWhitelist, TypeInv, TypeOK, KindFits, SerialInv,
     OneRequest, StrangerInv, RequestInv, Out, InFlight
<1>3. ASSUME NEW r \in Requests, UpsertUser(r) PROVE SerialInv'
  BY <1>0, <1>3 DEF UpsertUser, TypeInv, TypeOK, KindFits, SerialInv,
     OneRequest, StrangerInv, RequestInv, Out, InFlight
<1>4. ASSUME NEW r \in Requests, StoreToken(r) PROVE SerialInv'
  BY <1>0, <1>4 DEF StoreToken, Issue, TypeInv, TypeOK, KindFits, SerialInv,
     OneRequest, StrangerInv, RequestInv, Out, InFlight
<1>5. ASSUME NEW r \in Requests, CheckToken(r) PROVE SerialInv'
  BY <1>0, <1>5 DEF CheckToken, TypeInv, TypeOK, KindFits, SerialInv,
     OneRequest, StrangerInv, RequestInv, Out, InFlight
<1>6. ASSUME NEW r \in Requests, CheckStatus(r) PROVE SerialInv'
  BY <1>0, <1>6 DEF CheckStatus, Usable, TypeInv, TypeOK, KindFits, SerialInv,
     OneRequest, StrangerInv, RequestInv, Out, InFlight
<1>7. ASSUME NEW r \in Requests, RotateOut(r) \/ DropToken(r) PROVE SerialInv'
  BY <1>0, <1>7 DEF RotateOut, DropToken, Rotate, TypeInv, TypeOK, KindFits, SerialInv,
     OneRequest, StrangerInv, RequestInv, Out, InFlight
<1>8. ASSUME NEW r \in Requests, Scan(r) PROVE SerialInv'
  BY <1>0, <1>8 DEF Scan, TypeInv, TypeOK, KindFits, SerialInv,
     OneRequest, StrangerInv, RequestInv, Out, InFlight
<1>9. ASSUME NEW r \in Requests, Purge(r) PROVE SerialInv'
  BY <1>0, <1>9 DEF Purge, Purged, TypeInv, TypeOK, KindFits, SerialInv,
     OneRequest, StrangerInv, RequestInv, Out, InFlight
<1>10. ASSUME NEW r \in Requests, JoinChannel(r) PROVE SerialInv'
  BY <1>0, <1>10 DEF JoinChannel, TypeInv, TypeOK, KindFits, SerialInv,
     OneRequest, StrangerInv, RequestInv, Out, InFlight
<1>11. ASSUME NEW r \in Requests, ReadRow(r) PROVE SerialInv'
  BY <1>0, <1>11 DEF ReadRow, TypeInv, TypeOK, KindFits, SerialInv,
     OneRequest, StrangerInv, RequestInv, Out, InFlight
<1>12. ASSUME NEW r \in Requests, UpdateRow(r) PROVE SerialInv'
  BY <1>0, <1>12 DEF UpdateRow, TypeInv, TypeOK, KindFits, SerialInv,
     OneRequest, StrangerInv, RequestInv, Out, InFlight
<1>13. ASSUME NEW r \in Requests, RemoveRow(r) PROVE SerialInv'
  BY <1>0, <1>13 DEF RemoveRow, TypeInv, TypeOK, KindFits, SerialInv,
     OneRequest, StrangerInv, RequestInv, Out, InFlight
<1>14. ASSUME NEW r \in Requests, FindUser(r) PROVE SerialInv'
  BY <1>0, <1>14 DEF FindUser, Wanted, Answered, TypeInv, TypeOK, KindFits, SerialInv,
     OneRequest, StrangerInv, RequestInv, Out, InFlight
<1>15. ASSUME NEW r \in Requests, Suspend(r) \/ Revive(r) PROVE SerialInv'
  BY <1>0, <1>15 DEF Suspend, Revive, TypeInv, TypeOK, KindFits, SerialInv,
     OneRequest, StrangerInv, RequestInv, Out, InFlight
<1>16. ASSUME NEW r \in Requests, Kick(r) PROVE SerialInv'
  BY <1>0, <1>16 DEF Kick, Kicked, Answered, TypeInv, TypeOK, KindFits, SerialInv,
     OneRequest, StrangerInv, RequestInv, Out, InFlight
<1>17. ASSUME NEW r \in Requests, Hangup(r) PROVE SerialInv'
  BY <1>q, <1>17 DEF Hangup, Quiet, SerialInv, OneRequest, StrangerInv, RequestInv, Out, InFlight
<1>18. ASSUME NEW r \in Requests, Fail(r) PROVE FALSE
  BY <1>18, SessionsAssumption DEF Fail, Undisturbed, TypeInv, TypeOK
<1>19. CASE Wait \/ UNCHANGED vars
  BY <1>19 DEF Wait, vars, SerialInv, OneRequest, StrangerInv, RequestInv, Out, InFlight
<1> QED
  BY <1>1, <1>2, <1>3, <1>4, <1>5, <1>6, <1>7, <1>8, <1>9, <1>10, <1>11,
     <1>12, <1>13, <1>14, <1>15, <1>16, <1>17, <1>18, <1>19 DEF Next, Step

\* What has been disturbed stays so.
LEMMA UndisturbedBefore ==
  ASSUME TypeInv, Undisturbed', [Next]_vars
  PROVE  Undisturbed
<1> USE DEF account, history, faults, LocalOnly
<1>1. overlaps \in Nat /\ failures \in Nat
  BY SessionsAssumption DEF TypeInv, TypeOK
<1>2. \/ overlaps' \in {overlaps, overlaps + 1} /\ UNCHANGED failures
      \/ failures' = failures + 1
  <2>1. ASSUME NEW r \in Requests, Arrive(r) \/ Hangup(r)
        PROVE  overlaps' \in {overlaps, overlaps + 1} /\ UNCHANGED failures
    BY <2>1 DEF Arrive, Hangup, Comes
  <2>2. ASSUME NEW r \in Requests, Step(r) PROVE UNCHANGED faults
    BY <2>2 DEF Step, ReadWhitelist, UpsertUser, StoreToken, CheckToken, CheckStatus, RotateOut,
       DropToken, Scan, Purge, JoinChannel, ReadRow, UpdateRow, RemoveRow, FindUser, Suspend,
       Revive, Kick, Answered
  <2>3. ASSUME NEW r \in Requests, Fail(r) PROVE failures' = failures + 1
    BY <2>3 DEF Fail
  <2>4. CASE Wait \/ UNCHANGED vars
    BY <2>4 DEF Wait, vars
  <2> QED
    BY <2>1, <2>2, <2>3, <2>4 DEF Next
<1> QED
  BY <1>1, <1>2 DEF Undisturbed

\* Requests handled one at a time, none of which dies, keep the invariant.
LEMMA SerialInvAlways == Spec => [](TypeInv /\ (Undisturbed => SerialInv))
<1>1. Init => TypeInv /\ SerialInv
  BY TypesAtStart DEF Init, SerialInv, OneRequest, StrangerInv, RequestInv, Out, InFlight
<1>2. TypeInv /\ (Undisturbed => SerialInv) /\ [Next]_vars
        => (TypeInv /\ (Undisturbed => SerialInv))'
  BY TypesNext, SerialInvNext, UndisturbedBefore
<1> QED
  BY <1>1, <1>2, PTL DEF Spec

\* README: BLOCKED is consistent with suspension, tokens and sockets.  As long as requests
\* are handled one at a time and none dies, a BLOCKED row means, between requests, a user who
\* is not ACTIVE, has no valid refresh token and no open socket, whatever history of
\* invitations, logins, rotations, blocks, allows and deletions led there.
THEOREM SerialBlock == Spec => []BlockedIsOutInPeace
<1>1. (Undisturbed => SerialInv) => BlockedIsOutInPeace
  BY DEF SerialInv, RequestInv, Out, Quiet, BlockedIsOut, BlockedIsOutInPeace
<1> QED
  BY <1>1, SerialInvAlways, PTL

-----------------------------------------------------------------------------
(* Refresh tokens.                                                         *)

\* Of all steps only the purge refuses a refresh.
LEMMA OnlyPurgeRefuses ==
  ASSUME TypeInv, [Next]_vars, NEW r \in Requests,
         kind[r] = "refresh", answer[r] = "none", answer'[r] = "refused"
  PROVE  Purge(r)
<1> USE DEF TypeInv, TypeOK, KindFits, Reply, Go
<1>1. answer' # answer
  OBVIOUS
<1>2. ASSUME NEW q \in Requests, answer' = [answer EXCEPT ![q] = "refused"] PROVE q = r
  BY <1>2
<1>3. ASSUME NEW q \in Requests, ReadWhitelist(q) PROVE FALSE
  BY <1>1, <1>2, <1>3 DEF ReadWhitelist
<1>4. ASSUME NEW q \in Requests, CheckStatus(q) PROVE FALSE
  BY <1>1, <1>2, <1>4 DEF CheckStatus
<1>5. ASSUME NEW q \in Requests, ReadRow(q) PROVE FALSE
  BY <1>1, <1>2, <1>5 DEF ReadRow
<1>6. ASSUME NEW q \in Requests, Purge(q) PROVE q = r
  BY <1>1, <1>2, <1>6 DEF Purge
<1>7. ASSUME NEW q \in Requests, UpsertUser(q) \/ StoreToken(q) \/ DropToken(q) \/ JoinChannel(q)
      PROVE  FALSE
  BY <1>1, <1>7 DEF UpsertUser, StoreToken, DropToken, JoinChannel
<1>8. ASSUME NEW q \in Requests, UpdateRow(q) \/ RemoveRow(q) \/ Revive(q) \/ Fail(q) PROVE FALSE
  BY <1>1, <1>8 DEF UpdateRow, RemoveRow, Revive, Fail
<1>9. ASSUME NEW q \in Requests, FindUser(q) \/ Kick(q) PROVE FALSE
  BY <1>1, <1>9 DEF FindUser, Kick, Answered
<1>10. ASSUME NEW q \in Requests,
              Arrive(q) \/ Hangup(q) \/ CheckToken(q) \/ RotateOut(q) \/ Scan(q) \/ Suspend(q)
       PROVE  FALSE
  BY <1>1, <1>10 DEF Arrive, Hangup, CheckToken, RotateOut, Scan, Suspend
<1> QED
  BY <1>1, <1>3, <1>4, <1>5, <1>6, <1>7, <1>8, <1>9, <1>10 DEF Next, Step, Wait, vars

\* README: when reuse of a refresh token is detected all sessions are revoked.  While
\* requests are handled one at a time a refresh that is refused leaves no valid token: the
\* keys its SCAN returned are still all there are.
THEOREM SerialReuse == Spec => ReuseRevokes
<1> DEFINE Revokes ==
      Undisturbed' =>
        \A r \in Requests :
          kind[r] = "refresh" /\ answer[r] = "none" /\ answer'[r] = "refused" => keys' = {}
<1>1. TypeInv /\ (Undisturbed => SerialInv) /\ [Next]_vars => [Revokes]_vars
  <2> SUFFICES ASSUME TypeInv, Undisturbed => SerialInv, [Next]_vars, Undisturbed',
                      NEW r \in Requests, kind[r] = "refresh", answer[r] = "none",
                      answer'[r] = "refused"
               PROVE  keys' = {}
    OBVIOUS
  <2>1. Purge(r) /\ SerialInv
    BY OnlyPurgeRefuses, UndisturbedBefore
  <2>2. keys \subseteq found[r]
    BY <2>1 DEF Purge, SerialInv, RequestInv, InFlight
  <2> QED
    BY <2>1, <2>2 DEF Purge, Purged
<1> QED
  BY <1>1, SerialInvAlways, PTL DEF Spec, ReuseRevokes

\* A refresh that has taken its token out of Redis.
Spent(r) == kind[r] = "refresh" /\ (pc[r] = "store" \/ answer[r] = "granted")

\* A token that was spent is not in Redis, and was spent by one refresh.  It does not come
\* back: what a request stores is its own token, which nobody holds before.
SpentInv ==
  /\ \A r \in Requests : pc[r] # "done" => answer[r] = "none"
  /\ \A r \in Requests : r \in issued => answer[r] = "granted"
  /\ \A r \in Requests : kind[r] = "refresh" /\ pc[r] \in {"status", "rotate"} => token[r] \in keys
  /\ \A r \in Requests : Spent(r) => token[r] \in issued \ keys
  /\ \A q, r \in Requests : Spent(q) /\ Spent(r) /\ token[q] = token[r] => q = r

\* What a step that issues nothing, takes no token away and finishes no refresh keeps.
LEMMA QuietKeepsSpent ==
  ASSUME TypeInv, SpentInv, NEW r \in Requests, r \in InFlight,
         UNCHANGED <<keys, issued, kind, token>>,
         NEW p \in Points, pc' = [pc EXCEPT ![r] = p],
         p # "store" \/ kind[r] # "refresh",
         p \in {"status", "rotate"} /\ kind[r] = "refresh" => token[r] \in keys,
         \/ UNCHANGED answer
         \/ /\ p = "done" /\ \E a \in Answers : answer' = [answer EXCEPT ![r] = a]
            /\ answer'[r] = "granted" => kind[r] # "refresh"
  PROVE  SpentInv'
<1> USE DEF TypeInv, TypeOK, SpentInv, Spent, InFlight
<1>1. answer[r] = "none" /\ r \notin issued
  OBVIOUS
<1>2. \A q \in Requests : Spent(q)' => Spent(q)
  OBVIOUS
<1>3. \A q \in Requests : pc'[q] # "done" => answer'[q] = "none"
  OBVIOUS
<1>4. \A q \in Requests : q \in issued' => answer'[q] = "granted"
  BY <1>1
<1>5. \A q \in Requests :
        kind'[q] = "refresh" /\ pc'[q] \in {"status", "rotate"} => token'[q] \in keys'
  OBVIOUS
<1> HIDE DEF Spent
<1> QED
  BY <1>2, <1>3, <1>4, <1>5

\* What a step that only takes tokens away keeps, when it is the one request in flight.
LEMMA RemovalKeepsSpent ==
  ASSUME TypeInv, SpentInv, OneRequest, NEW r \in Requests, r \in InFlight,
         keys' \subseteq keys, UNCHANGED <<issued, kind, token>>,
         NEW p \in {"done", "kick"}, pc' = [pc EXCEPT ![r] = p],
         \/ UNCHANGED answer
         \/ /\ p = "done" /\ \E a \in {"ok", "refused"} : answer' = [answer EXCEPT ![r] = a]
  PROVE  SpentInv'
<1> USE DEF TypeInv, TypeOK, SpentInv, Spent, InFlight
<1>1. answer[r] = "none" /\ r \notin issued
  OBVIOUS
<1>2. \A q \in Requests : Spent(q)' => Spent(q)
  OBVIOUS
<1>3. \A q \in Requests : pc'[q] # "done" => answer'[q] = "none"
  OBVIOUS
<1>4. \A q \in Requests : q \in issued' => answer'[q] = "granted"
  BY <1>1
<1>5. \A q \in Requests : pc'[q] \notin {"status", "rotate"}
  BY DEF OneRequest
<1> HIDE DEF Spent
<1> QED
  BY <1>2, <1>3, <1>4, <1>5

\* Every request that is handled alone keeps the invariant.
LEMMA SpentInvNext ==
  ASSUME TypeInv, SpentInv, SerialInv, Undisturbed', TypeInv', [Next]_vars
  PROVE  SpentInv'
<1> USE DEF account, history, faults, LocalOnly, Go, Reply
<1>0. OneRequest
  BY DEF SerialInv
<1>1. ASSUME NEW r \in Requests, Arrive(r) PROVE SpentInv'
  <2>1. PICK k \in Kinds :
          /\ kind' = [kind EXCEPT ![r] = k]
          /\ pc' = [pc EXCEPT ![r] = Entry(k)]
          /\ \E t \in IF k \in {"refresh", "logout"} THEN issued ELSE {NoToken} :
               token' = [token EXCEPT ![r] = t]
    BY <1>1 DEF Arrive
  <2>2. /\ pc[r] = "idle" /\ UNCHANGED <<keys, issued, answer>>
        /\ pc'[r] \in {"whitelist", "exists", "drop", "status", "existing"}
        /\ pc'[r] = "status" => k # "refresh"
        /\ kind'[r] = k
        /\ \A q \in Requests \ {r} : pc'[q] = pc[q] /\ kind'[q] = kind[q] /\ token'[q] = token[q]
    BY <1>1, <2>1, SessionsAssumption DEF Arrive, Entry, TypeInv, TypeOK, AllKinds
  <2>3. answer[r] = "none"
    BY <2>2 DEF SpentInv
  <2>4. ~Spent(r)' /\ \A q \in Requests \ {r} : Spent(q)' <=> Spent(q)
    BY <2>2, <2>3 DEF Spent
  <2> QED
    BY <2>2, <2>3, <2>4 DEF SpentInv
<1>2. ASSUME NEW r \in Requests, ReadWhitelist(r) PROVE SpentInv'
  BY <1>2, QuietKeepsSpent DEF ReadWhitelist, InFlight, TypeInv, KindFits, Points, Answers
<1>3. ASSUME NEW r \in Requests, UpsertUser(r) PROVE SpentInv'
  BY <1>3, QuietKeepsSpent DEF UpsertUser, InFlight, TypeInv, KindFits, Points, Answers
<1>4. ASSUME NEW r \in Requests, StoreToken(r) PROVE SpentInv'
  <2>1. /\ pc[r] = "store" /\ keys' = keys \cup {r} /\ issued' = issued \cup {r}
        /\ pc' = [pc EXCEPT ![r] = "done"] /\ answer' = [answer EXCEPT ![r] = "granted"]
        /\ UNCHANGED <<kind, token>>
    BY <1>4 DEF StoreToken, Issue
  <2>2. r \notin issued
    BY <2>1 DEF SpentInv
  <2>3. \A q \in Requests : Spent(q)' <=> Spent(q)
    BY <2>1 DEF Spent, TypeInv, TypeOK
  <2>4. \A q \in Requests : Spent(q)' => token'[q] \in issued' \ keys'
    BY <2>1, <2>2, <2>3 DEF SpentInv
  <2>5. \A q \in Requests : pc'[q] # "done" => pc'[q] = pc[q] /\ answer'[q] = answer[q]
    BY <2>1 DEF TypeInv, TypeOK
  <2>6. \A q \in Requests : q \in issued' => answer'[q] = "granted"
    BY <2>1 DEF SpentInv, TypeInv, TypeOK
  <2> QED
    BY <2>1, <2>3, <2>4, <2>5, <2>6 DEF SpentInv
<1>5. ASSUME NEW r \in Requests, CheckToken(r) PROVE SpentInv'
  BY <1>5, QuietKeepsSpent DEF CheckToken, InFlight, Points
<1>6. ASSUME NEW r \in Requests, CheckStatus(r) PROVE SpentInv'
  <2>1. /\ r \in InFlight /\ UNCHANGED <<keys, issued, kind, token>>
        /\ pc[r] = "status"
    BY <1>6 DEF CheckStatus, InFlight
  <2>2. CASE Go(r, IF kind[r] = "refresh" THEN "rotate" ELSE "join")
    BY <2>1, <2>2, QuietKeepsSpent DEF Points, SpentInv
  <2>3. CASE Go(r, "scan")
    BY <2>1, <2>3, QuietKeepsSpent DEF Points
  <2>4. CASE Reply(r, "refused")
    <3>1. "done" \in Points /\ "refused" \in Answers
      BY DEF Points, Answers
    <3>2. pc' = [pc EXCEPT ![r] = "done"] /\ answer' = [answer EXCEPT ![r] = "refused"]
      BY <2>4
    <3>3. answer'[r] = "refused"
      BY <2>1, <3>2 DEF TypeInv, TypeOK, InFlight
    <3> QED
      BY <2>1, <3>1, <3>2, <3>3, QuietKeepsSpent
  <2> QED
    BY <1>6, <2>2, <2>3, <2>4 DEF CheckStatus
<1>7. ASSUME NEW r \in Requests, RotateOut(r) PROVE SpentInv'
  <2>1. /\ pc[r] = "rotate" /\ kind[r] = "refresh" /\ keys' = keys \ {token[r]}
        /\ pc' = [pc EXCEPT ![r] = "store"] /\ UNCHANGED <<issued, kind, token, answer>>
    BY <1>7 DEF RotateOut, Rotate, TypeInv, KindFits
  <2>2. token[r] \in keys /\ keys \subseteq issued
    BY <2>1 DEF SpentInv, TypeInv, TypeOK
  <2>3. \A q \in Requests \ {r} : Spent(q)' <=> Spent(q)
    BY <2>1 DEF Spent, TypeInv, TypeOK
  <2>4. \A q \in Requests \ {r} : Spent(q) => token[q] # token[r]
    BY <2>2 DEF SpentInv
  <2>5. \A q \in Requests : pc'[q] \notin {"status", "rotate"}
    BY <1>0, <2>1 DEF OneRequest, InFlight, TypeInv, TypeOK
  <2>6. \A q \in Requests : Spent(q)' => token'[q] \in issued' \ keys'
    BY <2>1, <2>2, <2>3 DEF SpentInv
  <2>7. \A q, s \in Requests : Spent(q)' /\ Spent(s)' /\ token'[q] = token'[s] => q = s
    BY <2>1, <2>3, <2>4 DEF SpentInv
  <2>8. \A q \in Requests : pc'[q] # "done" => pc[q] # "done"
    BY <2>1 DEF TypeInv, TypeOK
  <2> QED
    BY <2>1, <2>5, <2>6, <2>7, <2>8 DEF SpentInv
<1>8. ASSUME NEW r \in Requests, DropToken(r) PROVE SpentInv'
  BY <1>0, <1>8, RemovalKeepsSpent DEF DropToken, InFlight
<1>9. ASSUME NEW r \in Requests, Purge(r) PROVE SpentInv'
  BY <1>0, <1>9, RemovalKeepsSpent DEF Purge, Purged, InFlight
<1>10. ASSUME NEW r \in Requests, Scan(r) \/ Suspend(r) \/ Revive(r) PROVE SpentInv'
  BY <1>10, QuietKeepsSpent DEF Scan, Suspend, Revive, InFlight, Points, Answers, TypeInv, TypeOK
<1>11. ASSUME NEW r \in Requests, JoinChannel(r) PROVE SpentInv'
  <2>1. kind[r] # "refresh" /\ UNCHANGED <<keys, issued, kind, token>> /\ r \in InFlight
    BY <1>11 DEF JoinChannel, InFlight, TypeInv, KindFits
  <2> QED
    BY <1>11, <2>1, QuietKeepsSpent DEF JoinChannel, Points, Answers
<1>12. ASSUME NEW r \in Requests, ReadRow(r) \/ UpdateRow(r) \/ RemoveRow(r) PROVE SpentInv'
  BY <1>12, QuietKeepsSpent DEF ReadRow, UpdateRow, RemoveRow, InFlight, Points, Answers, TypeInv,
     TypeOK
<1>13. ASSUME NEW r \in Requests, FindUser(r) \/ Kick(r) PROVE SpentInv'
  BY <1>13, QuietKeepsSpent DEF FindUser, Kick, Answered, InFlight, Points, Answers, TypeInv,
     TypeOK
<1>14. ASSUME NEW r \in Requests, Fail(r) PROVE FALSE
  BY <1>14, SessionsAssumption DEF Fail, Undisturbed, TypeInv, TypeOK
<1>15. CASE Wait \/ UNCHANGED vars \/ \E r \in Requests : Hangup(r)
  BY <1>15 DEF Wait, Hangup, vars, SpentInv, Spent
<1> QED
  BY <1>1, <1>2, <1>3, <1>4, <1>5, <1>6, <1>7, <1>8, <1>9, <1>10, <1>11, <1>12, <1>13, <1>14,
     <1>15 DEF Next, Step

\* README: refresh tokens rotate.  While requests are handled one at a time and none dies, no
\* refresh token is ever exchanged for two pairs, however many refreshes present it.
THEOREM SerialRotation == Spec => []RotatedOnce
<1>1. Init => SpentInv
  BY SessionsAssumption DEF Init, SpentInv, Spent
<1>2. /\ TypeInv /\ (Undisturbed => SerialInv) /\ (Undisturbed => SpentInv) /\ TypeInv'
      /\ [Next]_vars
      => (Undisturbed => SpentInv)'
  BY SpentInvNext, UndisturbedBefore
<1>3. (Undisturbed => SpentInv) => RotatedOnce
  BY DEF SpentInv, Spent, RotatedOnce
<1> QED
  BY <1>1, <1>2, <1>3, SerialInvAlways, PTL DEF Spec
=============================================================================
