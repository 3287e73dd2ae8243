----------------------------- MODULE AccessQueue ----------------------------
(***************************************************************************)
(* How one Kakao account enters the closed platform: a login that is not   *)
(* registered joins the queue of access requests, an administrator         *)
(* approves or dismisses the request, or registers the account by hand, or *)
(* a booting node does (src/auth, src/admin).                              *)
(*                                                                         *)
(* The whitelist row and the request are rows of two tables, read and      *)
(* written in statements of their own: pc[r] names the next one of r.      *)
(* What a block and an admitted login do beyond these two rows is the      *)
(* subject of Sessions.                                                    *)
(***************************************************************************)
EXTENDS Naturals

CONSTANTS
  Requests,     \* logins, calls of administrators and boots of nodes
  MaxOverlaps,  \* bound on the requests that arrive while another is handled
  MaxFailures   \* bound on the requests that die half-way

ASSUME QueueAssumption == MaxOverlaps \in Nat /\ MaxFailures \in Nat

VARIABLES
  rowId,      \* the Whitelist row of the account, 0 if there is none
  status,     \* its status
  lastRow,    \* the rows created so far
  entry,      \* the AccessRequest of the account, 0 if there is none
  lastEntry,  \* the requests created so far
  pc,         \* pc[r]: what r is about to do
  op,         \* op[r]: its kind and the id it was called with
  sawRow,     \* sawRow[r]: the row it read, 0 if there was none
  sawStatus,  \* sawStatus[r]: and its status
  asked,      \* an attempt was queued, and not turned down since (history)
  byHand,     \* the row was registered past the pending request (history)
  undercut,   \* a row was removed while an approval counted on it (history)
  overlaps,   \* requests that arrived while another was handled
  failures    \* requests that died

tables == <<rowId, status, lastRow, entry, lastEntry>>
local == <<sawRow, sawStatus>>
history == <<asked, byHand, undercut>>
faults == <<overlaps, failures>>
vars == <<tables, pc, op, local, history, faults>>

-----------------------------------------------------------------------------
Statuses == {"INVITED", "ACTIVE", "BLOCKED"}
Registers == {"approve", "create", "boot"}
Updates == {"block", "invite", "activate"}
Kinds == {"login", "dismiss", "remove"} \cup Registers \cup Updates
Points == {"idle", "request", "row", "record", "admit", "insert", "write", "delete", "drain", "done"}

Unregistered == rowId = 0
Pending == entry # 0
InFlight == {r \in Requests : pc[r] \notin {"idle", "done"}}
Quiet == InFlight = {}

\* Any account: registered or not, pending or not; create leaves a request where it is.
Init ==
  /\ rowId \in {0, 1} /\ lastRow = 1
  /\ entry \in {0, 1} /\ lastEntry = 1
  /\ status \in Statuses /\ (Unregistered => status = "INVITED")
  /\ pc = [r \in Requests |-> "idle"]
  /\ op = [r \in Requests |-> [kind |-> "login", id |-> 0]]
  /\ sawRow = [r \in Requests |-> 0]
  /\ sawStatus = [r \in Requests |-> "INVITED"]
  /\ asked = (Pending /\ Unregistered)
  /\ byHand = (Pending /\ ~Unregistered)
  /\ undercut = FALSE
  /\ overlaps = 0
  /\ failures = 0

Goes(r, p) == pc' = [pc EXCEPT ![r] = p] /\ UNCHANGED <<op, faults>>
End(r) == Goes(r, "done")
Only(r, p) == Goes(r, p) /\ UNCHANGED <<tables, local, history>>

-----------------------------------------------------------------------------
\* Administrators name rows and requests they were shown, which may be gone.
Entry(k) ==
  CASE k \in {"login", "create", "boot"} \cup Updates \cup {"remove"} -> "row"
    [] k = "approve" -> "request"
    [] k = "dismiss" -> "drain"

Shown(k) ==
  CASE k \in {"approve", "dismiss"} -> 1..lastEntry
    [] k \in Updates \cup {"remove"} -> 1..lastRow
    [] OTHER -> {0}

Arrive(r) ==
  /\ pc[r] = "idle"
  /\ Quiet \/ overlaps < MaxOverlaps
  /\ overlaps' = IF Quiet THEN overlaps ELSE overlaps + 1
  /\ \E k \in Kinds : \E i \in Shown(k) :
       /\ op' = [op EXCEPT ![r] = [kind |-> k, id |-> i]]
       /\ pc' = [pc EXCEPT ![r] = Entry(k)]
  /\ UNCHANGED <<tables, local, history, failures>>

\* approveAccessRequest reads the request by its id.
ReadRequest(r) ==
  /\ pc[r] = "request"
  /\ \/ entry = op[r].id /\ Only(r, "row")
     \/ entry # op[r].id /\ Only(r, "done")

-----------------------------------------------------------------------------
(* The whitelist row is read, by kakaoId or by id, and the call decides.   *)

\* Where the call goes when the row is there, and when it is not.
Found(k) ==
  CASE k = "login" -> IF status = "BLOCKED" THEN "done" ELSE "admit"
    [] k = "approve" -> IF status = "BLOCKED" THEN "done" ELSE "drain"
    [] k \in {"create", "boot"} -> "done"
    [] k \in Updates -> "write"
    [] k = "remove" -> "delete"

Missing(k) ==
  CASE k = "login" -> "record"
    [] k \in Registers -> "insert"
    [] k \in Updates \cup {"remove"} -> "done"

ReadRow(r) ==
  LET k == op[r].kind
      found == IF k \in Updates \cup {"remove"} THEN rowId = op[r].id ELSE ~Unregistered IN
  /\ pc[r] = "row"
  /\ Goes(r, IF found THEN Found(k) ELSE Missing(k))
  /\ sawRow' = [sawRow EXCEPT ![r] = IF found THEN rowId ELSE 0]
  /\ sawStatus' = [sawStatus EXCEPT ![r] = IF found THEN status ELSE @]
  /\ UNCHANGED <<tables, history>>

-----------------------------------------------------------------------------
(* kakaoLogin                                                              *)

\* Mutant of Recorded: an update, not an upsert.
RecordedIfPending == entry' = entry
Recorded == entry' = IF Pending THEN entry ELSE lastEntry + 1

\* recordAccessRequest, an upsert; its failure is swallowed.
Record(r) ==
  /\ pc[r] = "record"
  /\ Recorded
  /\ lastEntry' = IF entry' > lastEntry THEN entry' ELSE lastEntry
  /\ asked' = TRUE
  /\ End(r)
  /\ UNCHANGED <<rowId, status, lastRow, local, byHand, undercut>>

\* The transaction updates the row it read, if that was INVITED; a row that is gone throws.
Admit(r) ==
  /\ pc[r] = "admit"
  /\ status' = IF sawStatus[r] = "INVITED" /\ rowId = sawRow[r] THEN "ACTIVE" ELSE status
  /\ End(r)
  /\ UNCHANGED <<rowId, lastRow, entry, lastEntry, local, history>>

-----------------------------------------------------------------------------
(* Registration: approve, create and the bootstrap.                        *)

\* Mutant of Registered: an upsert instead of a create.
RegisteredOver == rowId' = IF Unregistered THEN lastRow + 1 ELSE rowId
Registered == Unregistered /\ rowId' = lastRow + 1

Insert(r) ==
  /\ pc[r] = "insert"
  /\ \/ /\ Registered
        /\ status' = "INVITED"
        /\ lastRow' = IF rowId' > lastRow THEN rowId' ELSE lastRow
        /\ sawRow' = [sawRow EXCEPT ![r] = rowId']
        /\ byHand' = (byHand \/ (op[r].kind # "approve" /\ Pending))
        /\ Goes(r, IF op[r].kind = "approve" THEN "drain" ELSE "done")
        /\ UNCHANGED <<entry, lastEntry, sawStatus, asked, undercut>>
     \/ ~Unregistered /\ Only(r, "done")

\* Mutant of Drained: the request stays.
DrainedNever(r) == FALSE
Drained(r) == entry = op[r].id

\* The request is deleted by its id, after an approval or by dismissAccessRequest.
Drain(r) ==
  /\ pc[r] = "drain"
  /\ entry' = IF Drained(r) THEN 0 ELSE entry
  /\ asked' = (asked /\ ~(op[r].kind = "dismiss" /\ Drained(r)))
  /\ byHand' = (byHand /\ ~Drained(r))
  /\ End(r)
  /\ UNCHANGED <<rowId, status, lastRow, lastEntry, local, undercut>>

-----------------------------------------------------------------------------
(* update and remove of the row, by its id                                 *)

StatusOf(k) == CASE k = "block" -> "BLOCKED" [] k = "invite" -> "INVITED" [] k = "activate" -> "ACTIVE"

WriteRow(r) ==
  /\ pc[r] = "write"
  /\ status' = IF rowId = op[r].id THEN StatusOf(op[r].kind) ELSE status
  /\ End(r)
  /\ UNCHANGED <<rowId, lastRow, entry, lastEntry, local, history>>

\* Who is removed has been turned down.
DeleteRow(r) ==
  /\ pc[r] = "delete"
  /\ \/ /\ rowId = op[r].id
        /\ rowId' = 0
        /\ asked' = FALSE
        /\ byHand' = FALSE
        /\ undercut' = (undercut \/ \E q \in Requests :
                          pc[q] = "drain" /\ op[q].kind = "approve")
        /\ UNCHANGED <<status, lastRow, entry, lastEntry>>
     \/ rowId # op[r].id /\ UNCHANGED <<tables, history>>
  /\ End(r)
  /\ UNCHANGED local

-----------------------------------------------------------------------------
Step(r) ==
  \/ ReadRequest(r) \/ ReadRow(r) \/ Record(r) \/ Admit(r)
  \/ Insert(r) \/ Drain(r) \/ WriteRow(r) \/ DeleteRow(r)

\* A statement throws, or the node dies: what was written stays.
Fail(r) ==
  /\ r \in InFlight
  /\ failures < MaxFailures
  /\ failures' = failures + 1
  /\ pc' = [pc EXCEPT ![r] = "done"]
  /\ UNCHANGED <<tables, op, local, history, overlaps>>

\* The server waits for calls.
Wait == Quiet /\ UNCHANGED vars

Next ==
  \/ \E r \in Requests : Arrive(r) \/ Step(r) \/ Fail(r)
  \/ Wait

Spec == Init /\ [][Next]_vars

-----------------------------------------------------------------------------
(* Properties.                                                             *)

\* The types; each point of a request belongs to its kind.
TypeOK ==
  /\ lastRow \in Nat /\ rowId \in 0..lastRow
  /\ lastEntry \in Nat /\ entry \in 0..lastEntry
  /\ status \in Statuses
  /\ pc \in [Requests -> Points]
  /\ op \in [Requests -> [kind : Kinds, id : Nat]]
  /\ sawRow \in [Requests -> Nat]
  /\ sawStatus \in [Requests -> Statuses]
  /\ {asked, byHand, undercut} \subseteq BOOLEAN
  /\ overlaps \in 0..MaxOverlaps
  /\ failures \in 0..MaxFailures
  /\ \A r \in Requests :
       /\ pc[r] \in {"record", "admit"} => op[r].kind = "login"
       /\ pc[r] = "row" => op[r].kind # "dismiss"
       /\ pc[r] = "request" => op[r].kind = "approve"
       /\ pc[r] = "insert" => op[r].kind \in Registers
       /\ pc[r] = "drain" => op[r].kind \in {"approve", "dismiss"}
       /\ pc[r] = "write" => op[r].kind \in Updates

Undisturbed == overlaps = 0 /\ failures = 0

\* The queue exists so that an administrator finds whoever tried: an attempt that was queued
\* and not turned down is in the queue or the account is registered, however requests overlap
\* or die, unless a row was removed while an approval counted on it.
NobodyIsLost == asked /\ ~undercut => Pending \/ ~Unregistered

\* "Clear the queue entry": handled one at a time, requests leave nobody both registered and
\* pending but those who were registered past their request.
QueueIsClean == Undisturbed /\ Quiet /\ Pending /\ ~Unregistered => byHand

\* "A BLOCKED entry is never re-activated by this path": no registration and no approval takes
\* a row out of BLOCKED, but an administrator's update, or a login that read it as INVITED.
BlockIsKept ==
  [][status = "BLOCKED" /\ status' # "BLOCKED" /\ ~Unregistered /\ rowId' = rowId =>
       \E r \in Requests :
         \/ pc[r] = "write" /\ op[r].id = rowId /\ op[r].kind # "block"
         \/ pc[r] = "admit" /\ sawRow[r] = rowId /\ sawStatus[r] = "INVITED"]_vars
=============================================================================
