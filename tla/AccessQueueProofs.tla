------------------------- MODULE AccessQueueProofs --------------------------
(***************************************************************************)
(* Theorems about AccessQueue for any number of requests, overlaps and     *)
(* failures: nobody who asked is lost, a block is kept, and what the queue *)
(* holds while requests are handled one at a time.                         *)
(***************************************************************************)
EXTENDS AccessQueue, TLAPS

-----------------------------------------------------------------------------
(* Where the calls go.                                                     *)

LEMMA ShownIds ==
  ASSUME lastRow \in Nat, lastEntry \in Nat, NEW k \in Kinds
  PROVE  Shown(k) \subseteq Nat
<1>1. CASE k \in {"approve", "dismiss"}
  BY <1>1 DEF Shown, Updates
<1>2. CASE k \in Updates \cup {"remove"}
  BY <1>2 DEF Shown, Updates
<1>3. CASE k \in {"login", "create", "boot"}
  <2>1. k \notin {"approve", "dismiss"} /\ k \notin Updates \cup {"remove"}
    BY <1>3 DEF Updates
  <2>2. Shown(k) = {0}
    BY <2>1 DEF Shown
  <2> QED
    BY <2>2
<1> QED
  BY <1>1, <1>2, <1>3 DEF Kinds, Registers

LEMMA Entries ==
  ASSUME NEW k \in Kinds
  PROVE  /\ Entry(k) \in {"row", "request", "drain"}
         /\ Entry(k) = "drain" <=> k = "dismiss"
         /\ Entry(k) = "request" => k = "approve"
  BY DEF Entry, Kinds, Registers, Updates

LEMMA Decisions ==
  ASSUME NEW k \in Kinds, k # "dismiss", NEW p \in {Found(k), Missing(k)}
  PROVE  /\ p \in Points \ {"row", "request"}
         /\ p \in {"record", "admit"} => k = "login"
         /\ p = "insert" => k \in Registers /\ p = Missing(k)
         /\ p = "drain" => k = "approve" /\ p = Found(k) /\ p # Missing(k)
         /\ p = "write" => k \in Updates
         /\ p = "record" => p # Found(k)
<1>1. CASE k = "login"
  BY <1>1 DEF Found, Missing, Points, Registers, Updates
<1>2. CASE k = "approve"
  BY <1>2 DEF Found, Missing, Points, Registers, Updates
<1>3. CASE k \in {"create", "boot"}
  BY <1>3 DEF Found, Missing, Points, Registers, Updates
<1>4. CASE k \in Updates
  BY <1>4 DEF Found, Missing, Points, Registers, Updates
<1>5. CASE k = "remove"
  BY <1>5 DEF Found, Missing, Points, Registers, Updates
<1> QED
  BY <1>1, <1>2, <1>3, <1>4, <1>5 DEF Kinds, Registers

-----------------------------------------------------------------------------
(* Types.                                                                  *)

LEMMA TypesAtStart == Init => TypeOK
<1> SUFFICES ASSUME Init PROVE TypeOK
  OBVIOUS
<1>1. /\ asked \in BOOLEAN /\ byHand \in BOOLEAN /\ undercut \in BOOLEAN
  BY DEF Init
<1>2. overlaps \in 0..MaxOverlaps /\ failures \in 0..MaxFailures
  BY QueueAssumption DEF Init
<1> QED
  BY <1>1, <1>2 DEF Init, TypeOK, Statuses, Kinds, Points, Registers, Updates

LEMMA TypesNext == TypeOK /\ [Next]_vars => TypeOK'
<1> SUFFICES ASSUME TypeOK, [Next]_vars PROVE TypeOK'
  OBVIOUS
<1> USE DEF TypeOK, Goes, End, faults, local, history, tables
<1>1. ASSUME NEW r \in Requests, Arrive(r) PROVE TypeOK'
  <2>1. PICK k \in Kinds : \E i \in Nat :
          /\ op' = [op EXCEPT ![r] = [kind |-> k, id |-> i]]
          /\ pc' = [pc EXCEPT ![r] = Entry(k)]
    BY <1>1, ShownIds DEF Arrive
  <2>3. /\ Entry(k) \in {"row", "request", "drain"}
        /\ Entry(k) = "drain" <=> k = "dismiss"
        /\ Entry(k) = "request" => k = "approve"
    BY Entries
  <2>4. overlaps' \in 0..MaxOverlaps
    BY <1>1, QueueAssumption DEF Arrive
  <2>5. op' \in [Requests -> [kind : Kinds, id : Nat]]
    BY <2>1
  <2>6. pc' \in [Requests -> Points]
    BY <2>1, <2>3 DEF Points
  <2>7. \A q \in Requests :
          /\ pc'[q] \in {"record", "admit"} => op'[q].kind = "login"
          /\ pc'[q] = "row" => op'[q].kind # "dismiss"
          /\ pc'[q] = "request" => op'[q].kind = "approve"
          /\ pc'[q] = "insert" => op'[q].kind \in Registers
          /\ pc'[q] = "drain" => op'[q].kind \in {"approve", "dismiss"}
          /\ pc'[q] = "write" => op'[q].kind \in Updates
    BY <2>1, <2>3
  <2> QED
    BY <1>1, <2>4, <2>5, <2>6, <2>7 DEF Arrive
<1>2. ASSUME NEW r \in Requests, ReadRequest(r) PROVE TypeOK'
  BY <1>2 DEF ReadRequest, Only, Points
<1>3. ASSUME NEW r \in Requests, ReadRow(r) PROVE TypeOK'
  <2>1. op[r].kind \in Kinds /\ op[r].kind # "dismiss"
    BY <1>3 DEF ReadRow
  <2>2. PICK p \in Points :
          /\ pc' = [pc EXCEPT ![r] = p] /\ UNCHANGED <<op, faults>>
          /\ p \notin {"row", "request"}
          /\ p \in {"record", "admit"} => op[r].kind = "login"
          /\ p = "insert" => op[r].kind \in Registers
          /\ p = "drain" => op[r].kind = "approve"
          /\ p = "write" => op[r].kind \in Updates
    BY <1>3, <2>1, Decisions DEF ReadRow
  <2>3. sawRow' \in [Requests -> Nat] /\ sawStatus' \in [Requests -> Statuses]
    BY <1>3 DEF ReadRow
  <2> QED
    BY <1>3, <2>2, <2>3 DEF ReadRow
<1>4. ASSUME NEW r \in Requests, Record(r) PROVE TypeOK'
  BY <1>4 DEF Record, Recorded, Pending, Points
<1>5. ASSUME NEW r \in Requests, Admit(r) PROVE TypeOK'
  BY <1>5 DEF Admit, Points, Statuses
<1>6. ASSUME NEW r \in Requests, Insert(r) PROVE TypeOK'
  <2>1. CASE Registered
    <3>1. /\ status' = "INVITED" /\ rowId' = lastRow + 1 /\ lastRow' = lastRow + 1
          /\ sawRow' = [sawRow EXCEPT ![r] = rowId']
          /\ byHand' \in BOOLEAN
          /\ UNCHANGED <<entry, lastEntry, sawStatus, asked, undercut, op, faults>>
      BY <1>6, <2>1 DEF Insert, Only, Registered
    <3>2. pc' = [pc EXCEPT ![r] = IF op[r].kind = "approve" THEN "drain" ELSE "done"]
      BY <1>6, <2>1 DEF Insert, Only, Registered
    <3> QED
      BY <3>1, <3>2 DEF Points, Statuses
  <2>2. CASE ~Registered
    BY <1>6, <2>2 DEF Insert, Only, Points
  <2> QED
    BY <2>1, <2>2
<1>7. ASSUME NEW r \in Requests, Drain(r) PROVE TypeOK'
  BY <1>7 DEF Drain, Points
<1>8. ASSUME NEW r \in Requests, WriteRow(r) PROVE TypeOK'
  BY <1>8 DEF WriteRow, StatusOf, Points, Statuses, Updates
<1>9. ASSUME NEW r \in Requests, DeleteRow(r) PROVE TypeOK'
  <2>1. /\ pc' = [pc EXCEPT ![r] = "done"]
        /\ UNCHANGED <<op, sawRow, sawStatus, overlaps, failures, status, lastRow, entry,
                       lastEntry>>
        /\ rowId' \in {0, rowId}
    BY <1>9 DEF DeleteRow
  <2>2. asked' \in BOOLEAN /\ byHand' \in BOOLEAN /\ undercut' \in BOOLEAN
    BY <1>9 DEF DeleteRow
  <2> QED
    BY <2>1, <2>2 DEF Points
<1>10. ASSUME NEW r \in Requests, Fail(r) PROVE TypeOK'
  BY <1>10, QueueAssumption DEF Fail, Points
<1>11. CASE UNCHANGED vars
  BY <1>11 DEF vars
<1> QED
  BY <1>1, <1>2, <1>3, <1>4, <1>5, <1>6, <1>7, <1>8, <1>9, <1>10, <1>11 DEF Next, Step, Wait

\* The type invariant: ids were handed out, and each point of a request belongs to its kind.
THEOREM TypeCorrect == Spec => []TypeOK
  BY TypesAtStart, TypesNext, PTL DEF Spec

-----------------------------------------------------------------------------
(* Who asked is found.                                                     *)

\* An approval that is about to delete the request knows a row, unless one was removed
\* under it.
Approving(r) == pc[r] = "drain" /\ op[r].kind = "approve"
RowBehindApproval == ~undercut => \A r \in Requests : Approving(r) => ~Unregistered

FoundInv == TypeOK /\ RowBehindApproval /\ NobodyIsLost

LEMMA FoundInvNext == FoundInv /\ [Next]_vars => FoundInv'
<1> SUFFICES ASSUME FoundInv, [Next]_vars PROVE RowBehindApproval' /\ NobodyIsLost'
  BY TypesNext DEF FoundInv
<1> USE DEF FoundInv, RowBehindApproval, NobodyIsLost, Approving, Unregistered, Pending,
            TypeOK, Goes, End, faults, local, history, tables
<1>1. ASSUME NEW r \in Requests, Arrive(r) PROVE RowBehindApproval' /\ NobodyIsLost'
  <2>1. PICK k \in Kinds : \E i \in Nat :
          /\ op' = [op EXCEPT ![r] = [kind |-> k, id |-> i]]
          /\ pc' = [pc EXCEPT ![r] = Entry(k)]
    BY <1>1, ShownIds DEF Arrive
  <2>2. Entry(k) = "drain" => k = "dismiss"
    BY Entries
  <2> QED
    BY <1>1, <2>1, <2>2 DEF Arrive
<1>2. ASSUME NEW r \in Requests, ReadRequest(r) PROVE RowBehindApproval' /\ NobodyIsLost'
  BY <1>2 DEF ReadRequest, Only
<1>3. ASSUME NEW r \in Requests, ReadRow(r) PROVE RowBehindApproval' /\ NobodyIsLost'
  <2>1. op[r].kind \in Kinds /\ op[r].kind # "dismiss"
    BY <1>3 DEF ReadRow
  <2>2. ASSUME Approving(r)' PROVE ~Unregistered
    <3>1. /\ op' = op /\ pc'[r] = "drain" /\ op[r].kind = "approve"
          /\ pc'[r] = IF ~Unregistered THEN Found("approve") ELSE Missing("approve")
      BY <1>3, <2>2 DEF ReadRow, Updates
    <3>2. Missing("approve") # "drain"
      BY DEF Missing, Registers
    <3> QED
      BY <3>1, <3>2
  <2> QED
    BY <1>3, <2>2 DEF ReadRow
<1>4. ASSUME NEW r \in Requests, Record(r) PROVE RowBehindApproval' /\ NobodyIsLost'
  BY <1>4 DEF Record, Recorded
<1>5. ASSUME NEW r \in Requests, Admit(r) PROVE RowBehindApproval' /\ NobodyIsLost'
  BY <1>5 DEF Admit
<1>6. ASSUME NEW r \in Requests, Insert(r) PROVE RowBehindApproval' /\ NobodyIsLost'
  BY <1>6 DEF Insert, Only, Registered
<1>7. ASSUME NEW r \in Requests, Drain(r) PROVE RowBehindApproval' /\ NobodyIsLost'
  <2>1. op[r].kind \in {"approve", "dismiss"}
    BY <1>7 DEF Drain
  <2>2. CASE op[r].kind = "dismiss"
    BY <1>7, <2>2 DEF Drain
  <2>3. CASE op[r].kind = "approve"
    BY <1>7, <2>3 DEF Drain
  <2> QED
    BY <2>1, <2>2, <2>3
<1>8. ASSUME NEW r \in Requests, WriteRow(r) PROVE RowBehindApproval' /\ NobodyIsLost'
  BY <1>8 DEF WriteRow
<1>9. ASSUME NEW r \in Requests, DeleteRow(r) PROVE RowBehindApproval' /\ NobodyIsLost'
  <2>1. CASE rowId = op[r].id
    <3>1. ~undercut' => \A q \in Requests : ~Approving(q)
      BY <1>9, <2>1 DEF DeleteRow
    <3> QED
      BY <1>9, <2>1, <3>1 DEF DeleteRow
  <2>2. CASE rowId # op[r].id
    BY <1>9, <2>2 DEF DeleteRow
  <2> QED
    BY <2>1, <2>2
<1>10. ASSUME NEW r \in Requests, Fail(r) PROVE RowBehindApproval' /\ NobodyIsLost'
  BY <1>10 DEF Fail
<1>11. CASE UNCHANGED vars
  BY <1>11 DEF vars
<1> QED
  BY <1>1, <1>2, <1>3, <1>4, <1>5, <1>6, <1>7, <1>8, <1>9, <1>10, <1>11 DEF Next, Step, Wait

\* Who was queued and not turned down is pending or registered, for any requests, overlapping
\* or dying, as long as no row is removed while an approval counts on it.
THEOREM NobodyLost == Spec => []NobodyIsLost
<1>1. Init => FoundInv
  BY TypesAtStart DEF Init, FoundInv, RowBehindApproval, NobodyIsLost, Approving, Unregistered, Pending
<1>2. FoundInv => NobodyIsLost
  BY DEF FoundInv
<1> QED
  BY <1>1, <1>2, FoundInvNext, PTL DEF Spec

-----------------------------------------------------------------------------
(* A block is kept.                                                        *)

LEMMA StepKeepsBlock ==
  ASSUME TypeOK, [Next]_vars,
         status = "BLOCKED", status' # "BLOCKED", ~Unregistered, rowId' = rowId
  PROVE  \E r \in Requests :
           \/ pc[r] = "write" /\ op[r].id = rowId /\ op[r].kind # "block"
           \/ pc[r] = "admit" /\ sawRow[r] = rowId /\ sawStatus[r] = "INVITED"
<1>1. \A r \in Requests : ~Insert(r)
  BY DEF Insert, Only, Registered, Unregistered, tables, TypeOK
<1>2. ~UNCHANGED tables
  BY DEF tables
<1>3. PICK r \in Requests : Step(r)
  BY <1>2 DEF Next, Arrive, Fail, Wait, vars
<1>4. CASE Admit(r)
  BY <1>4 DEF Admit
<1>5. CASE WriteRow(r)
  BY <1>5 DEF WriteRow, StatusOf
<1>6. ~(ReadRequest(r) \/ ReadRow(r) \/ Record(r) \/ Drain(r) \/ DeleteRow(r))
  BY <1>2 DEF ReadRequest, Only, ReadRow, Record, Drain, DeleteRow, tables
<1> QED
  BY <1>1, <1>3, <1>4, <1>5, <1>6 DEF Step

\* No approval, registration or boot takes an account out of BLOCKED, whatever overlaps.
THEOREM BlockKept == Spec => BlockIsKept
<1>1. TypeOK /\ [Next]_vars =>
        [status = "BLOCKED" /\ status' # "BLOCKED" /\ ~Unregistered /\ rowId' = rowId =>
           \E r \in Requests :
             \/ pc[r] = "write" /\ op[r].id = rowId /\ op[r].kind # "block"
             \/ pc[r] = "admit" /\ sawRow[r] = rowId /\ sawStatus[r] = "INVITED"]_vars
  BY StepKeepsBlock
<1> QED
  BY <1>1, TypeCorrect, PTL DEF Spec, BlockIsKept

-----------------------------------------------------------------------------
(* One request at a time.                                                  *)

\* What the one request in flight has read is still so.
Serial ==
  /\ \A q, r \in InFlight : q = r
  /\ \A r \in Requests :
       /\ pc[r] \in {"record", "insert"} => Unregistered
       /\ pc[r] \in {"row", "insert", "drain"} /\ op[r].kind = "approve" => entry = op[r].id
  /\ Pending /\ ~Unregistered => byHand \/ \E r \in Requests : Approving(r)

SerialInv == TypeOK /\ (Undisturbed => Serial)

LEMMA UndisturbedBefore == TypeOK /\ [Next]_vars /\ Undisturbed' => Undisturbed
  BY QueueAssumption
  DEF TypeOK, Undisturbed, Next, Arrive, Step, ReadRequest, ReadRow, Record, Admit, Insert, Drain,
      WriteRow, DeleteRow, Only, End, Goes, Fail, Wait, faults, vars

LEMMA StepIsSerial ==
  ASSUME TypeOK, Serial, NEW r \in Requests, Step(r)
  PROVE  Serial'
<1> USE DEF Goes, End, faults, local, history, tables
<1>1. r \in InFlight /\ op' = op /\ \A q \in Requests : q # r => pc'[q] = pc[q]
  BY DEF Step, ReadRequest, Only, ReadRow, Record, Admit, Insert, Drain, WriteRow, DeleteRow,
         InFlight, TypeOK
<1>2. \A q \in Requests : q # r => pc[q] \in {"idle", "done"} /\ pc'[q] \in {"idle", "done"}
  BY <1>1 DEF Serial, InFlight
<1>3. \A p, q \in InFlight' : p = q
  BY <1>2 DEF InFlight
<1>4. /\ op[r].kind \in Kinds
      /\ pc[r] \in Points
  BY DEF TypeOK
<1> SUFFICES /\ pc'[r] \in {"record", "insert"} => Unregistered'
             /\ pc'[r] \in {"row", "insert", "drain"} /\ op[r].kind = "approve" => entry' = op[r].id
             /\ Pending' /\ ~Unregistered' => byHand' \/ Approving(r)'
  BY <1>1, <1>2, <1>3 DEF Serial
<1> USE DEF Pending, Unregistered, Approving
<1>5. (Pending /\ ~Unregistered) => byHand \/ Approving(r)
  BY <1>2 DEF Serial
<1>6. CASE ReadRequest(r)
  BY <1>5, <1>6 DEF ReadRequest, Only, TypeOK
<1>7. CASE ReadRow(r)
  <2>1. /\ op[r].kind # "dismiss" /\ pc[r] = "row" /\ UNCHANGED <<rowId, entry, byHand>>
    BY <1>7 DEF ReadRow, TypeOK
  <2>2. op[r].kind = "approve" => entry = op[r].id
    BY <2>1 DEF Serial
  <2>3. PICK p \in {Found(op[r].kind), Missing(op[r].kind)} : pc'[r] = p
    BY <1>7 DEF ReadRow, TypeOK
  <2>4. ASSUME pc'[r] \in {"record", "insert"} PROVE Unregistered
    <3>1. pc'[r] # Found(op[r].kind)
      BY <1>4, <2>1, <2>4 DEF Found, Kinds, Registers, Updates
    <3>2. op[r].kind \notin Updates \cup {"remove"}
      BY <1>4, <2>1, <2>3, <2>4 DEF Found, Missing, Kinds, Registers, Updates
    <3> QED
      BY <1>7, <3>1, <3>2 DEF ReadRow, TypeOK
  <2> QED
    BY <1>5, <2>1, <2>2, <2>4
<1>8. CASE Record(r)
  BY <1>8 DEF Record, Serial, TypeOK
<1>9. CASE Admit(r)
  BY <1>5, <1>9 DEF Admit, TypeOK
<1>10. CASE Insert(r)
  <2>1. /\ Registered /\ pc[r] = "insert"
        /\ pc'[r] = IF op[r].kind = "approve" THEN "drain" ELSE "done"
        /\ byHand' = (byHand \/ (op[r].kind # "approve" /\ Pending))
        /\ entry' = entry
    BY <1>10 DEF Insert, Only, Serial, TypeOK
  <2>2. op[r].kind = "approve" => entry = op[r].id
    BY <2>1 DEF Serial
  <2>3. CASE op[r].kind = "approve"
    BY <1>1, <2>1, <2>2, <2>3
  <2>4. CASE op[r].kind # "approve"
    <3>1. Pending => byHand'
      BY <2>1, <2>4
    <3> QED
      BY <2>1, <2>4, <3>1
  <2> QED
    BY <2>3, <2>4
<1>11. CASE Drain(r)
  <2>1. op[r].kind = "approve" => Drained(r)
    BY <1>11 DEF Drain, Drained, Serial
  <2> QED
    BY <1>5, <1>11, <2>1 DEF Drain, Drained, TypeOK
<1>12. CASE WriteRow(r)
  BY <1>5, <1>12 DEF WriteRow, TypeOK
<1>13. CASE DeleteRow(r)
  BY <1>5, <1>13 DEF DeleteRow, TypeOK
<1> QED
  BY <1>6, <1>7, <1>8, <1>9, <1>10, <1>11, <1>12, <1>13 DEF Step

LEMMA SerialInvNext == SerialInv /\ [Next]_vars => SerialInv'
<1> SUFFICES ASSUME SerialInv, [Next]_vars, Undisturbed' PROVE Serial'
  BY TypesNext DEF SerialInv
<1>1. TypeOK /\ Serial
  BY UndisturbedBefore DEF SerialInv
<1>2. ASSUME NEW r \in Requests, Arrive(r) PROVE Serial'
  <2>1. PICK k \in Kinds : \E i \in Nat :
          /\ op' = [op EXCEPT ![r] = [kind |-> k, id |-> i]]
          /\ pc' = [pc EXCEPT ![r] = Entry(k)]
    BY <1>1, <1>2, ShownIds DEF Arrive, TypeOK
  <2>2. Quiet
    BY <1>1, <1>2 DEF Arrive, Undisturbed, TypeOK
  <2>3. \A q \in Requests : pc[q] \in {"idle", "done"} /\ (q # r => pc'[q] = pc[q])
    BY <1>1, <2>1, <2>2 DEF Quiet, InFlight, TypeOK
  <2>4. pc'[r] \in {"row", "request", "drain"} /\ op'[r].kind = k
    BY <1>1, <2>1, Entries DEF TypeOK
  <2>5. k = "approve" => pc'[r] = "request"
    BY <1>1, <2>1 DEF Entry, TypeOK, Updates
  <2>6. UNCHANGED <<rowId, entry, byHand>> /\ \A q \in Requests : ~Approving(q)
    BY <1>2, <2>3 DEF Arrive, tables, history, Approving
  <2> QED
    BY <1>1, <2>3, <2>4, <2>5, <2>6 DEF Serial, InFlight, Pending, Unregistered, Approving
<1>3. ASSUME NEW r \in Requests, Step(r) PROVE Serial'
  BY <1>1, <1>3, StepIsSerial
<1>4. ASSUME NEW r \in Requests, Fail(r) PROVE FALSE
  BY <1>1, <1>4 DEF Fail, Undisturbed, TypeOK
<1>5. CASE UNCHANGED vars
  BY <1>1, <1>5 DEF Serial, InFlight, Pending, Unregistered, Approving, vars, tables, history
<1> QED
  BY <1>2, <1>3, <1>4, <1>5 DEF Next, Wait

LEMMA SerialAlways == Spec => []SerialInv
<1>1. Init => SerialInv
  BY TypesAtStart DEF Init, SerialInv, Serial, InFlight, Pending, Unregistered, Approving
<1> QED
  BY <1>1, SerialInvNext, PTL DEF Spec

\* As long as requests are handled one at a time and none dies, an approval leaves no request
\* behind: who is registered and pending was registered past the request.
THEOREM QueueClean == Spec => []QueueIsClean
<1>1. SerialInv => QueueIsClean
  BY DEF SerialInv, Serial, QueueIsClean, Quiet, InFlight, Approving
<1> QED
  BY <1>1, SerialAlways, PTL
=============================================================================
