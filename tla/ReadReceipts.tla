---------------------------- MODULE ReadReceipts ----------------------------
(***************************************************************************)
(* What the members of one group room have been sent and have read:        *)
(* MessagesService.markRead, softDelete and listMessages, against the      *)
(* sends, additions and removals that move the room's head and its members *)
(* (src/messages, src/rooms).                                              *)
(*                                                                         *)
(* A receipt is one number per member, lastReadSeq: every message at or    *)
(* below it counts as read.  A seq is drawn from Redis before its row is   *)
(* stored, and recipients are read before an event is emitted, each in a   *)
(* statement of its own: pc names the next.  How createMessage draws a seq *)
(* when Redis drifts is the subject of MessageSend; here it does not.      *)
(***************************************************************************)
EXTENDS Naturals

CONSTANTS
  Users,
  Requests,     \* calls of the endpoints, over REST or the socket
  Nobody,       \* no user
  Marks,        \* the numbers a client may give as what it has read
  MaxOverlaps,  \* bound on the requests that arrive while another is handled
  MaxFailures   \* bound on the requests that die half-way

ASSUME ReceiptsAssumption ==
  /\ Nobody \notin Users
  /\ Marks \subseteq Nat
  /\ MaxOverlaps \in Nat
  /\ MaxFailures \in Nat

VARIABLES
  messages,   \* table Message, the rows of this room
  counter,    \* Redis key room:<id>:seq
  rows,       \* the users with a RoomMember row
  active,     \* those of them whose leftAt is null
  lastRead,   \* lastRead[u]: RoomMember.lastReadSeq
  sent,       \* sent[u]: the messages u's client was sent since u joined
  visible,    \* visible[u]: those whose body it shows
  pc,         \* pc[r]: what request r is about to do
  op,         \* op[r]: its endpoint and parameters
  at,         \* at[r]: the seq it drew, or the head it read
  saw,        \* saw[r]: the target's standing as it read it
  to,         \* to[r]: the recipients it read
  page,       \* page[r]: the rows it read
  due,        \* due[u]: messages stored since u joined (history)
  before,     \* before[u]: messages stored when u joined (history)
  overlaps,   \* requests that arrived while another was handled
  failures    \* requests that died

room == <<messages, counter, rows, active, lastRead>>
clients == <<sent, visible>>
local == <<at, saw, to, page>>
history == <<due, before>>
faults == <<overlaps, failures>>
vars == <<room, clients, pc, op, local, history, faults>>

-----------------------------------------------------------------------------
Points == {"idle", "guard", "member", "reserve", "insert", "mark", "find", "wipe", "rows",
           "reply", "head", "existing", "join", "target", "out", "recipients", "emit", "done"}
Standing == {"none", "left"}
Message == [seq : Nat, by : Users, system : BOOLEAN, deleted : BOOLEAN]
Op == [kind : {"send", "read", "unsend", "list", "add", "remove"},
       actor : Users, target : Users \cup {Nobody}, seq : Nat]
NoOp == [kind |-> "none", actor |-> Nobody, target |-> Nobody, seq |-> 0]

Seqs(ms) == {m.seq : m \in ms}
Stored == Seqs(messages)
Unsent(ms) == {m \in ms : m.deleted}
InFlight == {r \in Requests : pc[r] \notin {"idle", "done"}}
Quiet == InFlight = {}

Posted(s, u) == [seq |-> s, by |-> u, system |-> TRUE, deleted |-> FALSE]

\* The room as createGroup leaves it, its creator's ROOM_CREATED message sent to all, or
\* after one member has left it.
Init ==
  /\ active \in SUBSET Users \ {{}}
  /\ \E u \in active :
       \/ rows = active /\ messages = {Posted(1, u)} /\ counter = 1
       \/ \E v \in Users \ active :
            /\ rows = active \cup {v}
            /\ messages = {Posted(1, u), Posted(2, v)}
            /\ counter = 2
  /\ lastRead = [u \in Users |-> 0]
  /\ sent = [u \in Users |-> IF u \in active THEN Stored ELSE {}]
  /\ visible = sent
  /\ pc = [r \in Requests |-> "idle"]
  /\ op = [r \in Requests |-> NoOp]
  /\ at = [r \in Requests |-> 0]
  /\ saw = [r \in Requests |-> "none"]
  /\ to = [r \in Requests |-> {}]
  /\ page = [r \in Requests |-> {}]
  /\ due = sent
  /\ before = [u \in Users |-> {}]
  /\ overlaps = 0
  /\ failures = 0

Go(r, p) == pc' = [pc EXCEPT ![r] = p] /\ UNCHANGED <<op, faults>>

\* The handler returns or throws: its locals are gone.
Forget(r) ==
  /\ pc' = [pc EXCEPT ![r] = "done"]
  /\ op' = [op EXCEPT ![r] = NoOp]
  /\ at' = [at EXCEPT ![r] = 0]
  /\ saw' = [saw EXCEPT ![r] = "none"]
  /\ to' = [to EXCEPT ![r] = {}]
  /\ page' = [page EXCEPT ![r] = {}]

End(r) == Forget(r) /\ UNCHANGED faults
Goes(r, p) == Go(r, p) /\ UNCHANGED local
LocalOnly == UNCHANGED <<room, clients, history>>

-----------------------------------------------------------------------------
\* The calls a client may make.  Nothing asks whether the number it marks as read is the seq of a
\* message, or of one it was sent; what it takes back is a message of the room.
Call ==
  [kind : {"send", "list"}, actor : Users, target : {Nobody}, seq : {0}]
    \cup [kind : {"read"}, actor : Users, target : {Nobody}, seq : Marks]
    \cup [kind : {"unsend"}, actor : Users, target : {Nobody}, seq : Stored]
    \cup [kind : {"add", "remove"}, actor : Users, target : Users, seq : {0}]

Entry(k) ==
  CASE k = "send" -> "member"
    [] k = "read" -> "mark"
    [] k = "unsend" -> "find"
    [] k \in {"list", "add", "remove"} -> "guard"

Arrive(r) ==
  /\ pc[r] = "idle"
  /\ Quiet \/ overlaps < MaxOverlaps
  /\ overlaps' = IF Quiet THEN overlaps ELSE overlaps + 1
  /\ \E c \in Call :
       /\ op' = [op EXCEPT ![r] = c]
       /\ pc' = [pc EXCEPT ![r] = Entry(c.kind)]
  /\ UNCHANGED local
  /\ LocalOnly
  /\ UNCHANGED failures

-----------------------------------------------------------------------------
(* RoomMemberGuard, and the membership createMessage asks of a sender.     *)

\* Roles are the subject of GroupRoles: here the endpoint may refuse its caller.
Guard(r) ==
  /\ pc[r] = "guard"
  /\ \/ /\ op[r].actor \in active
        /\ Goes(r, CASE op[r].kind = "list" -> "rows"
                     [] op[r].kind = "add" -> "head"
                     [] op[r].kind = "remove" -> "target")
     \/ End(r)
  /\ LocalOnly

AssertMember(r) ==
  /\ pc[r] = "member"
  /\ \/ op[r].actor \in active /\ Goes(r, "reserve")
     \/ End(r)
  /\ LocalOnly

-----------------------------------------------------------------------------
(* createMessage, for a sender or as the system message of an endpoint.    *)

Incr == counter' = counter + 1

Reserve(r) ==
  /\ pc[r] = "reserve"
  /\ Incr
  /\ at' = [at EXCEPT ![r] = counter + 1]
  /\ Go(r, "insert")
  /\ UNCHANGED <<messages, rows, active, lastRead, clients, saw, to, page, history>>

Insert(r) ==
  /\ pc[r] = "insert"
  /\ messages' = messages \cup {[seq |-> at[r], by |-> op[r].actor,
                                 system |-> op[r].kind # "send", deleted |-> FALSE]}
  /\ due' = [u \in Users |-> IF u \in active THEN due[u] \cup {at[r]} ELSE due[u]]
  /\ Goes(r, "recipients")
  /\ UNCHANGED <<counter, rows, active, lastRead, clients, before>>

\* Mutant of Recipients: the caller is not sent its own event.
RecipientsOthers(r) == active \ {op[r].actor}
Recipients(r) == active

\* getActiveMemberIds, before an event is emitted.
ReadRecipients(r) ==
  /\ pc[r] = "recipients"
  /\ to' = [to EXCEPT ![r] = Recipients(r)]
  /\ Go(r, "emit")
  /\ UNCHANGED <<at, saw, page>> /\ LocalOnly

\* The gateway sends message:new, with the body as it was stored, or message:deleted.
Emit(r) ==
  LET new == op[r].kind \in {"send", "add", "remove"}
      Shows(u) == IF new THEN visible[u] \cup {at[r]}
                  ELSE IF op[r].kind = "unsend" THEN visible[u] \ {op[r].seq}
                  ELSE visible[u] IN
  /\ pc[r] = "emit"
  /\ sent' = [u \in Users |-> IF u \in to[r] /\ new THEN sent[u] \cup {at[r]} ELSE sent[u]]
  /\ visible' = [u \in Users |-> IF u \in to[r] THEN Shows(u) ELSE visible[u]]
  /\ End(r)
  /\ UNCHANGED <<room, history>>

-----------------------------------------------------------------------------
(* markRead                                                                *)

\* Mutant of Advances: the update does not ask for a lower lastReadSeq.
AdvancesAlways(r) == op[r].actor \in active
Advances(r) == op[r].actor \in active /\ lastRead[op[r].actor] < op[r].seq

\* One UPDATE with its condition; no row, no event.
Mark(r) ==
  /\ pc[r] = "mark"
  /\ \/ /\ Advances(r)
        /\ lastRead' = [lastRead EXCEPT ![op[r].actor] = op[r].seq]
        /\ Goes(r, "recipients")
        /\ UNCHANGED <<messages, counter, rows, active, clients, history>>
     \/ ~Advances(r) /\ End(r) /\ LocalOnly

-----------------------------------------------------------------------------
(* softDelete                                                              *)

\* The message is read, and checked; the window may have passed.
Find(r) ==
  /\ pc[r] = "find"
  /\ \/ /\ \E m \in messages : m.seq = op[r].seq /\ m.by = op[r].actor /\ ~m.system /\ ~m.deleted
        /\ Goes(r, "wipe")
     \/ End(r)
  /\ LocalOnly

Wipe(r) ==
  /\ pc[r] = "wipe"
  /\ messages' = {IF m.seq = op[r].seq THEN [m EXCEPT !.deleted = TRUE] ELSE m : m \in messages}
  /\ Goes(r, "recipients")
  /\ UNCHANGED <<counter, rows, active, lastRead, clients, history>>

-----------------------------------------------------------------------------
(* listMessages, a history that fits in a page (see Paging).               *)

ReadRows(r) ==
  /\ pc[r] = "rows"
  /\ page' = [page EXCEPT ![r] = messages]
  /\ Go(r, "reply")
  /\ UNCHANGED <<at, saw, to>> /\ LocalOnly

\* Mutant of Shown: serialize returns the body of a deleted message.
ShownAll(ms) == Seqs(ms)
Shown(ms) == Seqs(ms \ Unsent(ms))

\* After the receipts are counted the page is returned.
ReplyPage(r) ==
  LET u == op[r].actor IN
  /\ pc[r] = "reply"
  /\ sent' = [sent EXCEPT ![u] = @ \cup Seqs(page[r])]
  /\ visible' = [visible EXCEPT ![u] = (@ \ Seqs(page[r])) \cup Shown(page[r])]
  /\ End(r)
  /\ UNCHANGED <<room, history>>

-----------------------------------------------------------------------------
(* addMembers of one user                                                  *)

ReadHead(r) ==
  /\ pc[r] = "head"
  /\ \E h \in Stored :
       /\ \A s \in Stored : s <= h
       /\ at' = [at EXCEPT ![r] = h]
  /\ Go(r, "existing")
  /\ UNCHANGED <<saw, to, page>> /\ LocalOnly

\* The target's row; an active member is passed over.
ReadExisting(r) ==
  LET t == op[r].target IN
  /\ pc[r] = "existing"
  /\ \/ /\ t \notin active
        /\ saw' = [saw EXCEPT ![r] = IF t \in rows THEN "left" ELSE "none"]
        /\ Go(r, "join")
        /\ UNCHANGED <<at, to, page>>
     \/ t \in active /\ End(r)
  /\ LocalOnly

\* Mutant of JoinsAt: a member who comes back keeps the lastReadSeq it had.
JoinsAtOld(r) == IF saw[r] = "left" THEN lastRead[op[r].target] ELSE at[r]
JoinsAt(r) == at[r]

\* The row is updated or created; a row that has come since makes the INSERT fail.  Clients
\* of a user who was not active start the room afresh.
Join(r) ==
  LET t == op[r].target IN
  /\ pc[r] = "join"
  /\ \/ /\ saw[r] = "none" => t \notin rows
        /\ rows' = rows \cup {t}
        /\ active' = active \cup {t}
        /\ lastRead' = [lastRead EXCEPT ![t] = JoinsAt(r)]
        /\ IF t \in active THEN UNCHANGED <<clients, history>>
           ELSE /\ sent' = [sent EXCEPT ![t] = {}]
                /\ visible' = [visible EXCEPT ![t] = {}]
                /\ due' = [due EXCEPT ![t] = {}]
                /\ before' = [before EXCEPT ![t] = Stored]
        /\ Goes(r, "reserve")
        /\ UNCHANGED <<messages, counter>>
     \/ saw[r] = "none" /\ t \in rows /\ End(r) /\ LocalOnly

-----------------------------------------------------------------------------
(* removeMember, the ranks of GroupRoles left aside                        *)

ReadTarget(r) ==
  /\ pc[r] = "target"
  /\ \/ op[r].target \in active /\ Goes(r, "out")
     \/ End(r)
  /\ LocalOnly

Out(r) ==
  /\ pc[r] = "out"
  /\ active' = active \ {op[r].target}
  /\ Goes(r, "reserve")
  /\ UNCHANGED <<messages, counter, rows, lastRead, clients, history>>

-----------------------------------------------------------------------------
Step(r) ==
  \/ Guard(r) \/ AssertMember(r)
  \/ Reserve(r) \/ Insert(r) \/ ReadRecipients(r) \/ Emit(r)
  \/ Mark(r) \/ Find(r) \/ Wipe(r) \/ ReadRows(r) \/ ReplyPage(r)
  \/ ReadHead(r) \/ ReadExisting(r) \/ Join(r) \/ ReadTarget(r) \/ Out(r)

\* A statement throws or the node dies: what was written stays.
Fail(r) ==
  /\ r \in InFlight
  /\ failures < MaxFailures
  /\ failures' = failures + 1
  /\ Forget(r)
  /\ UNCHANGED overlaps /\ LocalOnly

\* The server waits for calls.
Wait == Quiet /\ UNCHANGED vars

Next ==
  \/ \E r \in Requests : Arrive(r) \/ Step(r) \/ Fail(r)
  \/ Wait

Spec == Init /\ [][Next]_vars

-----------------------------------------------------------------------------
(* Properties.                                                             *)

\* The types; members have rows, nothing is stored beyond the counter.
TypeOK ==
  /\ messages \subseteq Message
  /\ counter \in Nat /\ \A s \in Stored : s <= counter
  /\ rows \subseteq Users /\ active \subseteq rows
  /\ lastRead \in [Users -> Nat]
  /\ sent \in [Users -> SUBSET Nat]
  /\ visible \in [Users -> SUBSET Nat]
  /\ pc \in [Requests -> Points]
  /\ op \in [Requests -> Op \cup {NoOp}]
  /\ at \in [Requests -> Nat]
  /\ saw \in [Requests -> Standing]
  /\ to \in [Requests -> SUBSET Users]
  /\ page \in [Requests -> SUBSET Message]
  /\ due \in [Users -> SUBSET Nat]
  /\ before \in [Users -> SUBSET Nat]
  /\ overlaps \in 0..MaxOverlaps
  /\ failures \in 0..MaxFailures

Undisturbed == overlaps = 0 /\ failures = 0

\* README: message:new goes to all members, the sender included.  However sends, joins and
\* departures overlap, unless a request has died, whoever is a member when no request is
\* being handled has been sent every message stored since it joined.
MembersAreSent ==
  Quiet /\ failures = 0 => \A u \in active : due[u] \subseteq sent[u]

\* README: lastReadSeq of a newcomer is the head, so that the history is not unread.  While
\* requests are handled one at a time a member has no unread message from before it joined.
NewcomersStartRead ==
  Undisturbed => \A u \in active : \A s \in before[u] : s <= lastRead[u]

\* softDelete and serialize: an unsent message hides its body.  Between requests no member's
\* client shows it.
UnsentIsHidden ==
  Quiet => \A u \in active : visible[u] \cap Seqs(Unsent(messages)) = {}

\* So it is while requests are handled one at a time.
UnsentIsHiddenInPeace == Undisturbed => UnsentIsHidden

\* "Only ever advance lastReadSeq (monotonic)": the receipt of a member goes back only when
\* an addMembers that read it as gone writes over the row another addMembers revived.
OnlyStaleJoinRewinds ==
  [][\A u \in active : lastRead'[u] < lastRead[u] =>
       overlaps > 0 /\ \E r \in Requests : pc[r] = "join" /\ op[r].target = u /\ saw[r] = "left"]_vars
=============================================================================
