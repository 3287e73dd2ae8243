------------------------- MODULE ReadReceiptsProofs -------------------------
(***************************************************************************)
(* Theorems about ReadReceipts for any users, calls, overlaps and          *)
(* failures: type correctness, who is sent what, which step may take a     *)
(* receipt back, and, when calls come one after the other, what a newcomer *)
(* has read and that unsent messages are hidden.                           *)
(***************************************************************************)
EXTENDS ReadReceipts, TLAPS

New == {"send", "add", "remove"}

\* Each point of a request belongs to its endpoints; a seq that was drawn is not above the
\* counter.
OpFits(r) ==
  /\ r \in InFlight => op[r] \in Op
  /\ pc[r] \in {"head", "existing", "join", "target", "out"} => op[r].target \in Users
  /\ pc[r] \in {"insert"} => at[r] <= counter /\ op[r].kind \in New
  /\ pc[r] \in {"member", "reserve", "head", "existing", "join", "target", "out"} =>
       op[r].kind \in New
  /\ pc[r] = "guard" => op[r].kind \in {"list", "add", "remove"}
  /\ pc[r] = "guard" /\ op[r].kind \in {"add", "remove"} => op[r].target \in Users

TypeInv == TypeOK /\ \A r \in Requests : OpFits(r)

\* The room as it was created, or after a departure, is of the right types.
LEMMA TypesAtStart == Init => TypeInv
<1> SUFFICES ASSUME Init PROVE TypeInv
  OBVIOUS
<1>1. \A s \in Nat, u \in Users : Posted(s, u) \in Message /\ Posted(s, u).seq = s
  BY DEF Posted, Message
<1>2. PICK u \in active :
        \/ rows = active /\ messages = {Posted(1, u)} /\ counter = 1
        \/ \E v \in Users \ active : /\ rows = active \cup {v}
                                    /\ messages = {Posted(1, u), Posted(2, v)}
                                    /\ counter = 2
  BY DEF Init
<1>3. /\ rows \subseteq Users /\ active \subseteq rows /\ counter \in Nat
      /\ messages \subseteq Message /\ Stored \subseteq Nat /\ \A s \in Stored : s <= counter
  <2>1. active \subseteq Users
    BY DEF Init
  <2>2. CASE rows = active /\ messages = {Posted(1, u)} /\ counter = 1
    BY <1>1, <2>1, <2>2 DEF Stored, Seqs
  <2>3. ASSUME NEW v \in Users, rows = active \cup {v},
               messages = {Posted(1, u), Posted(2, v)}, counter = 2
        PROVE  <1>3
    BY <1>1, <2>1, <2>3 DEF Stored, Seqs
  <2> QED
    BY <1>2, <2>2, <2>3
<1>4. sent \in [Users -> SUBSET Nat] /\ visible = sent /\ due = sent
  BY <1>3 DEF Init
<1>5. overlaps \in 0..MaxOverlaps /\ failures \in 0..MaxFailures
  BY ReceiptsAssumption DEF Init
<1> QED
  BY <1>3, <1>4, <1>5
  DEF Init, TypeInv, TypeOK, OpFits, InFlight, Points, Standing, NoOp, Op

\* An unsent message keeps its row and its seq.
LEMMA WipeKeepsSeqs ==
  ASSUME messages \subseteq Message, NEW r \in Requests, Wipe(r)
  PROVE  messages' \subseteq Message /\ Stored' = Stored
<1>1. messages' = {IF m.seq = op[r].seq THEN [m EXCEPT !.deleted = TRUE] ELSE m : m \in messages}
  BY DEF Wipe
<1> DEFINE Wiped(m) == IF m.seq = op[r].seq THEN [m EXCEPT !.deleted = TRUE] ELSE m
<1>2. messages' = {Wiped(m) : m \in messages}
  BY <1>1
<1>3. ASSUME NEW m \in messages PROVE Wiped(m) \in Message /\ Wiped(m).seq = m.seq
  <2>1. m \in Message
    OBVIOUS
  <2>2. [m EXCEPT !.deleted = TRUE] \in Message /\ [m EXCEPT !.deleted = TRUE].seq = m.seq
    BY <2>1 DEF Message
  <2> QED
    BY <2>1, <2>2
<1> HIDE DEF Wiped
<1>4. messages' \subseteq Message
  BY <1>2, <1>3
<1>5. ASSUME NEW s \in Stored PROVE s \in Stored'
  <2>1. PICK m \in messages : m.seq = s
    BY DEF Stored, Seqs
  <2>2. Wiped(m) \in messages' /\ Wiped(m).seq = s
    BY <1>2, <1>3, <2>1
  <2> QED
    BY <2>2 DEF Stored, Seqs
<1>6. ASSUME NEW s \in Stored' PROVE s \in Stored
  <2>1. PICK n \in messages' : n.seq = s
    BY DEF Stored, Seqs
  <2>2. PICK m \in messages : n = Wiped(m)
    BY <1>2, <2>1
  <2>3. m.seq = s
    BY <1>3, <2>1, <2>2
  <2> QED
    BY <2>3 DEF Stored, Seqs
<1> QED
  BY <1>4, <1>5, <1>6

\* Every endpoint keeps the types.
LEMMA TypesNext == TypeInv /\ [Next]_vars => TypeInv'
<1> SUFFICES ASSUME TypeInv, [Next]_vars PROVE TypeInv'
  OBVIOUS
<1> USE ReceiptsAssumption
    DEF TypeInv, TypeOK, OpFits, InFlight, Points, Standing, New, room, clients, local, history,
        faults, LocalOnly, Go, Goes, End, Forget
<1>0. Stored \subseteq Nat
  BY DEF Stored, Seqs, Message
<1>1. ASSUME NEW r \in Requests, Arrive(r) PROVE TypeInv'
  <2>1. PICK c \in Call : /\ op' = [op EXCEPT ![r] = c]
                          /\ pc' = [pc EXCEPT ![r] = Entry(c.kind)]
    BY <1>1 DEF Arrive
  <2>2. /\ c \in Op
        /\ c.kind \in {"send", "read", "unsend", "list", "add", "remove"}
        /\ c.kind \in {"add", "remove"} => c.target \in Users
    <3>1. CASE c \in [kind : {"read"}, actor : Users, target : {Nobody}, seq : Marks]
      BY <3>1 DEF Op
    <3>2. CASE c \in [kind : {"send", "list"}, actor : Users, target : {Nobody}, seq : {0}]
      BY <3>2 DEF Op
    <3>3. CASE c \in [kind : {"unsend"}, actor : Users, target : {Nobody}, seq : Stored]
      BY <1>0, <3>3 DEF Op
    <3>4. CASE c \in [kind : {"add", "remove"}, actor : Users, target : Users, seq : {0}]
      BY <3>4 DEF Op
    <3> QED
      BY <3>1, <3>2, <3>3, <3>4 DEF Call
  <2>3. /\ Entry(c.kind) \in {"member", "mark", "find", "guard"}
        /\ Entry(c.kind) = "member" => c.kind = "send"
        /\ Entry(c.kind) = "guard" => c.kind \in {"list", "add", "remove"}
    BY <2>2 DEF Entry
  <2>4. overlaps' \in 0..MaxOverlaps
    BY <1>1 DEF Arrive
  <2> QED
    BY <1>1, <2>1, <2>2, <2>3, <2>4 DEF Arrive, Stored
<1>2. ASSUME NEW r \in Requests, Guard(r) PROVE TypeInv'
  <2>1. CASE End(r)
    BY <1>2, <2>1 DEF Guard, Stored
  <2>2. CASE ~End(r)
    <3>1. /\ pc[r] = "guard" /\ LocalOnly
          /\ Goes(r, CASE op[r].kind = "list" -> "rows"
                       [] op[r].kind = "add" -> "head"
                       [] op[r].kind = "remove" -> "target")
      BY <1>2, <2>2, Zenon DEF Guard
    <3>2. CASE op[r].kind = "list" /\ Goes(r, "rows")
      BY <3>1, <3>2 DEF Stored
    <3>3. CASE op[r].kind = "add" /\ Goes(r, "head")
      BY <3>1, <3>3 DEF Stored
    <3>4. CASE op[r].kind = "remove" /\ Goes(r, "target")
      BY <3>1, <3>4 DEF Stored
    <3> QED
      BY <3>1, <3>2, <3>3, <3>4 DEF Op
  <2> QED
    BY <2>1, <2>2
<1>3. ASSUME NEW r \in Requests, AssertMember(r) PROVE TypeInv'
  BY <1>3 DEF AssertMember, Stored
<1>4. ASSUME NEW r \in Requests, Reserve(r) PROVE TypeInv'
  BY <1>0, <1>4 DEF Reserve, Incr, Stored
<1>5. ASSUME NEW r \in Requests, Insert(r) PROVE TypeInv'
  <2>1. [seq |-> at[r], by |-> op[r].actor, system |-> op[r].kind # "send", deleted |-> FALSE]
          \in Message
    BY <1>5 DEF Insert, Message, Op
  <2>2. PICK m \in Message : messages' = messages \cup {m} /\ m.seq = at[r]
    BY <1>5, <2>1 DEF Insert
  <2>3. messages' \subseteq Message /\ \A s \in Stored' : s \in Stored \cup {at[r]}
    BY <2>2 DEF Stored, Seqs
  <2> QED
    BY <1>5, <2>3 DEF Insert
<1>6. ASSUME NEW r \in Requests, ReadRecipients(r) PROVE TypeInv'
  BY <1>6 DEF ReadRecipients, Recipients, Stored
<1>7. ASSUME NEW r \in Requests, Emit(r) PROVE TypeInv'
  <2>1. sent' \in [Users -> SUBSET Nat] /\ visible' \in [Users -> SUBSET Nat]
    BY <1>7 DEF Emit
  <2> QED
    BY <1>7, <2>1 DEF Emit, Stored
<1>8. ASSUME NEW r \in Requests, Mark(r) PROVE TypeInv'
  <2>1. CASE End(r) /\ LocalOnly
    BY <1>8, <2>1 DEF Mark, Stored
  <2>2. CASE Goes(r, "recipients")
    <3>1. op[r].seq \in Nat
      BY <1>8 DEF Mark, Op
    <3>2. lastRead' \in [Users -> Nat]
      BY <1>8, <2>2, <3>1 DEF Mark
    <3> QED
      BY <1>8, <2>2, <3>2 DEF Mark, Stored
  <2> QED
    BY <1>8, <2>1, <2>2 DEF Mark
<1>9. ASSUME NEW r \in Requests, Find(r) PROVE TypeInv'
  <2>1. CASE End(r) /\ LocalOnly
    BY <2>1 DEF Stored
  <2>2. CASE pc[r] = "find" /\ Goes(r, "wipe") /\ LocalOnly
    BY <2>2 DEF Stored
  <2> QED
    BY <1>9, <2>1, <2>2 DEF Find
<1>10. ASSUME NEW r \in Requests, Wipe(r) PROVE TypeInv'
  BY <1>10, WipeKeepsSeqs DEF Wipe
<1>11. ASSUME NEW r \in Requests, ReadRows(r) PROVE TypeInv'
  BY <1>11 DEF ReadRows, Stored
<1>12. ASSUME NEW r \in Requests, ReplyPage(r) PROVE TypeInv'
  <2>1. Seqs(page[r]) \subseteq Nat /\ Shown(page[r]) \subseteq Nat
    BY DEF Seqs, Shown, Unsent, Message
  <2> QED
    BY <1>12, <2>1 DEF ReplyPage, Stored
<1>13. ASSUME NEW r \in Requests, ReadHead(r) PROVE TypeInv'
  BY <1>0, <1>13 DEF ReadHead, Stored
<1>14. ASSUME NEW r \in Requests, ReadExisting(r) PROVE TypeInv'
  BY <1>14 DEF ReadExisting, Stored
<1>15. ASSUME NEW r \in Requests, Join(r) PROVE TypeInv'
  <2>1. CASE End(r) /\ LocalOnly
    BY <1>15, <2>1 DEF Join, Stored
  <2>2. CASE ~(End(r) /\ LocalOnly)
    <3>1. /\ pc[r] = "join" /\ Goes(r, "reserve") /\ UNCHANGED <<messages, counter>>
          /\ rows' = rows \cup {op[r].target} /\ active' = active \cup {op[r].target}
          /\ lastRead' = [lastRead EXCEPT ![op[r].target] = at[r]]
          /\ \/ UNCHANGED <<clients, history>>
             \/ /\ sent' = [sent EXCEPT ![op[r].target] = {}]
                /\ visible' = [visible EXCEPT ![op[r].target] = {}]
                /\ due' = [due EXCEPT ![op[r].target] = {}]
                /\ before' = [before EXCEPT ![op[r].target] = Stored]
      BY <1>15, <2>2 DEF Join, JoinsAt
    <3>2. /\ sent' \in [Users -> SUBSET Nat] /\ visible' \in [Users -> SUBSET Nat]
          /\ due' \in [Users -> SUBSET Nat] /\ before' \in [Users -> SUBSET Nat]
      BY <1>0, <3>1
    <3>3. op[r].target \in Users /\ at[r] \in Nat
      BY <3>1
    <3>4. TypeOK'
      BY <3>1, <3>2, <3>3 DEF Stored
    <3>5. ASSUME NEW q \in Requests PROVE OpFits(q)'
      BY <3>1
    <3> QED
      BY <3>4, <3>5
  <2> QED
    BY <2>1, <2>2
<1>16. ASSUME NEW r \in Requests, ReadTarget(r) \/ Out(r) PROVE TypeInv'
  <2>1. CASE ReadTarget(r)
    BY <2>1 DEF ReadTarget, Stored
  <2>2. CASE Out(r)
    BY <2>2 DEF Out, Stored
  <2> QED
    BY <1>16, <2>1, <2>2
<1>17. ASSUME NEW r \in Requests, Fail(r) PROVE TypeInv'
  BY <1>17 DEF Fail, Stored
<1>18. CASE Wait \/ UNCHANGED vars
  BY <1>18 DEF Wait, vars, Stored
<1> QED
  BY <1>1, <1>2, <1>3, <1>4, <1>5, <1>6, <1>7, <1>8, <1>9, <1>10, <1>11, <1>12, <1>13, <1>14,
     <1>15, <1>16, <1>17, <1>18 DEF Next, Step

\* Members have rows, and no row of a message is above the counter.
THEOREM TypeCorrect == Spec => []TypeOK
<1>1. TypeInv => TypeOK
  BY DEF TypeInv
<1> QED
  BY <1>1, TypesAtStart, TypesNext, PTL DEF Spec

-----------------------------------------------------------------------------
(* Who is sent what.                                                       *)

\* A message is on its way to u: its recipients have not been read, or u is one of them.
Coming(s, u) ==
  \E r \in Requests : /\ op[r].kind \in New /\ at[r] = s
                      /\ pc[r] = "recipients" \/ (pc[r] = "emit" /\ u \in to[r])

\* Unless a request died, what was stored since a member joined was sent to it or is coming.
SentInv == failures = 0 => \A u \in active : \A s \in due[u] : s \in sent[u] \/ Coming(s, u)

\* However requests overlap, a message stays on its way to a member until it is sent to it.
LEMMA SentInvNext == TypeInv /\ SentInv /\ [Next]_vars => SentInv'
<1> SUFFICES ASSUME TypeInv, SentInv, [Next]_vars PROVE SentInv'
  OBVIOUS
<1> USE DEF TypeInv, TypeOK, room, clients, local, history, faults, LocalOnly, Go, Goes, End, Forget
<1>1. ASSUME NEW r \in Requests, Arrive(r) PROVE SentInv'
  <2>1. /\ pc[r] = "idle" /\ UNCHANGED <<room, clients, history, local, failures>>
        /\ \A q \in Requests \ {r} : pc'[q] = pc[q] /\ op'[q] = op[q]
    BY <1>1 DEF Arrive
  <2> QED
    BY <2>1 DEF SentInv, Coming
<1>2. ASSUME NEW r \in Requests, Guard(r) PROVE SentInv'
  BY <1>2 DEF Guard, SentInv, Coming, OpFits
<1>3. ASSUME NEW r \in Requests, AssertMember(r) PROVE SentInv'
  BY <1>3 DEF AssertMember, SentInv, Coming, OpFits
<1>4. ASSUME NEW r \in Requests, Reserve(r) PROVE SentInv'
  BY <1>4 DEF Reserve, Incr, SentInv, Coming, OpFits
<1>5. ASSUME NEW r \in Requests, Insert(r) PROVE SentInv'
  BY <1>5 DEF Insert, SentInv, Coming, OpFits
<1>6. ASSUME NEW r \in Requests, ReadRecipients(r) PROVE SentInv'
  BY <1>6 DEF ReadRecipients, Recipients, SentInv, Coming, OpFits
<1>7. ASSUME NEW r \in Requests, Emit(r) PROVE SentInv'
  <2> SUFFICES ASSUME failures' = 0, NEW u \in active, NEW s \in due[u]
               PROVE  s \in sent'[u] \/ Coming(s, u)'
    BY <1>7 DEF Emit, SentInv
  <2>1. s \in sent[u] => s \in sent'[u]
    BY <1>7 DEF Emit
  <2>2. ASSUME NEW q \in Requests, q # r, op[q].kind \in New, at[q] = s,
               pc[q] = "recipients" \/ (pc[q] = "emit" /\ u \in to[q])
        PROVE  Coming(s, u)'
    BY <1>7, <2>2 DEF Emit, Coming
  <2>3. CASE op[r].kind \in New /\ at[r] = s /\ u \in to[r]
    BY <1>7, <2>3 DEF Emit, New
  <2>4. s \in sent[u] \/ Coming(s, u)
    BY <1>7 DEF Emit, SentInv
  <2> QED
    BY <1>7, <2>1, <2>2, <2>3, <2>4 DEF Emit, Coming
<1>8. ASSUME NEW r \in Requests, Mark(r) PROVE SentInv'
  BY <1>8 DEF Mark, SentInv, Coming, OpFits
<1>9. ASSUME NEW r \in Requests, Find(r) \/ Wipe(r) PROVE SentInv'
  BY <1>9 DEF Find, Wipe, SentInv, Coming, OpFits
<1>10. ASSUME NEW r \in Requests, ReadRows(r) \/ ReplyPage(r) PROVE SentInv'
  BY <1>10 DEF ReadRows, ReplyPage, SentInv, Coming, OpFits
<1>11. ASSUME NEW r \in Requests, ReadHead(r) \/ ReadExisting(r) PROVE SentInv'
  BY <1>11 DEF ReadHead, ReadExisting, SentInv, Coming, OpFits
<1>12. ASSUME NEW r \in Requests, Join(r) PROVE SentInv'
  BY <1>12 DEF Join, SentInv, Coming, OpFits
<1>13. ASSUME NEW r \in Requests, ReadTarget(r) PROVE SentInv'
  BY <1>13 DEF ReadTarget, SentInv, Coming, OpFits
<1>14. ASSUME NEW r \in Requests, Out(r) PROVE SentInv'
  BY <1>14 DEF Out, SentInv, Coming, OpFits
<1>15. ASSUME NEW r \in Requests, Fail(r) PROVE SentInv'
  BY <1>15, ReceiptsAssumption DEF Fail, SentInv
<1>16. CASE Wait \/ UNCHANGED vars
  BY <1>16 DEF Wait, vars, SentInv, Coming
<1> QED
  BY <1>1, <1>2, <1>3, <1>4, <1>5, <1>6, <1>7, <1>8, <1>9, <1>10, <1>11,
     <1>12, <1>13, <1>14, <1>15, <1>16 DEF Next, Step

\* README: message:new goes to all members.  Unless a request has died, whoever is a member
\* when no request is in flight has been sent every message stored since it joined, for any
\* overlap of sends, joins, departures and receipts.
THEOREM EveryMemberIsSent == Spec => []MembersAreSent
<1>1. Init => SentInv
  BY DEF Init, SentInv
<1>2. SentInv => MembersAreSent
  BY DEF SentInv, MembersAreSent, Coming, Quiet, InFlight
<1> QED
  BY <1>1, <1>2, TypesAtStart, TypesNext, SentInvNext, PTL DEF Spec

-----------------------------------------------------------------------------
(* Receipts advance.                                                       *)

\* Without overlaps an addMembers that is about to write has just seen that its target is gone.
JoinInv ==
  overlaps = 0 =>
    /\ \A q, r \in InFlight : q = r
    /\ \A r \in Requests : pc[r] = "join" => op[r].target \notin active

\* Every step keeps it.
LEMMA JoinInvNext == TypeInv /\ JoinInv /\ [Next]_vars => JoinInv'
<1> SUFFICES ASSUME TypeInv, JoinInv, [Next]_vars PROVE JoinInv'
  OBVIOUS
<1> USE DEF TypeInv, TypeOK, room, clients, local, history, faults, LocalOnly, Go, Goes, End, Forget
<1>1. ASSUME NEW r \in Requests, Arrive(r) PROVE JoinInv'
  <2>1. /\ pc[r] = "idle" /\ UNCHANGED active
        /\ overlaps' = IF Quiet THEN overlaps ELSE overlaps + 1
        /\ \A q \in Requests \ {r} : pc'[q] = pc[q] /\ op'[q] = op[q]
        /\ pc'[r] \in {"member", "mark", "find", "guard"}
    BY <1>1 DEF Arrive, Entry, Call
  <2> QED
    BY <2>1, ReceiptsAssumption DEF JoinInv, Quiet, InFlight
<1>2. ASSUME NEW r \in Requests, Guard(r) PROVE JoinInv'
  <2>1. /\ UNCHANGED <<active, overlaps>> /\ pc[r] = "guard"
        /\ \A q \in Requests \ {r} : pc'[q] = pc[q] /\ op'[q] = op[q]
        /\ pc'[r] \in {"rows", "head", "target", "done"}
    BY <1>2 DEF Guard, OpFits
  <2> QED
    BY <2>1 DEF JoinInv, InFlight
<1>3. ASSUME NEW r \in Requests, AssertMember(r) PROVE JoinInv'
  BY <1>3 DEF AssertMember, JoinInv, InFlight
<1>4. ASSUME NEW r \in Requests, Reserve(r) PROVE JoinInv'
  BY <1>4 DEF Reserve, Incr, JoinInv, InFlight
<1>5. ASSUME NEW r \in Requests, Insert(r) PROVE JoinInv'
  BY <1>5 DEF Insert, JoinInv, InFlight
<1>6. ASSUME NEW r \in Requests, ReadRecipients(r) PROVE JoinInv'
  BY <1>6 DEF ReadRecipients, Recipients, JoinInv, InFlight
<1>7. ASSUME NEW r \in Requests, Emit(r) PROVE JoinInv'
  BY <1>7 DEF Emit, JoinInv, InFlight
<1>8. ASSUME NEW r \in Requests, Mark(r) PROVE JoinInv'
  BY <1>8 DEF Mark, JoinInv, InFlight
<1>9. ASSUME NEW r \in Requests, Find(r) \/ Wipe(r) PROVE JoinInv'
  BY <1>9 DEF Find, Wipe, JoinInv, InFlight
<1>10. ASSUME NEW r \in Requests, ReadRows(r) \/ ReplyPage(r) PROVE JoinInv'
  BY <1>10 DEF ReadRows, ReplyPage, JoinInv, InFlight
<1>11. ASSUME NEW r \in Requests, ReadHead(r) \/ ReadExisting(r) PROVE JoinInv'
  BY <1>11 DEF ReadHead, ReadExisting, JoinInv, InFlight
<1>12. ASSUME NEW r \in Requests, Join(r) PROVE JoinInv'
  BY <1>12 DEF Join, JoinInv, InFlight
<1>13. ASSUME NEW r \in Requests, ReadTarget(r) PROVE JoinInv'
  BY <1>13 DEF ReadTarget, JoinInv, InFlight
<1>14. ASSUME NEW r \in Requests, Out(r) PROVE JoinInv'
  BY <1>14 DEF Out, JoinInv, InFlight
<1>15. ASSUME NEW r \in Requests, Fail(r) PROVE JoinInv'
  BY <1>15 DEF Fail, JoinInv, InFlight
<1>16. CASE Wait \/ UNCHANGED vars
  BY <1>16 DEF Wait, vars, JoinInv, InFlight
<1> QED
  BY <1>1, <1>2, <1>3, <1>4, <1>5, <1>6, <1>7, <1>8, <1>9, <1>10, <1>11,
     <1>12, <1>13, <1>14, <1>15, <1>16 DEF Next, Step

\* "Only ever advance lastReadSeq (monotonic)": no overlap of markRead with anything takes
\* a member's receipt back; one step can, the write of an addMembers that had read the row as
\* left when another one was about to revive it.
THEOREM ReceiptsAdvance == Spec => OnlyStaleJoinRewinds
<1> DEFINE A == \A u \in active : lastRead'[u] < lastRead[u] =>
                 overlaps > 0 /\ \E r \in Requests : pc[r] = "join" /\ op[r].target = u /\ saw[r] = "left"
<1>1. TypeInv /\ JoinInv /\ [Next]_vars => [A]_vars
  <2> SUFFICES ASSUME TypeInv, JoinInv, [Next]_vars PROVE A
    OBVIOUS
  <2> USE DEF TypeInv, TypeOK
  <2>1. ASSUME NEW r \in Requests, Mark(r) PROVE A
    <3>1. op[r].seq \in Nat
      BY <2>1 DEF Mark, OpFits, InFlight, Op
    <3> QED
      BY <2>1, <3>1 DEF Mark, Advances, LocalOnly, room
  <2>2. ASSUME NEW r \in Requests, Join(r) PROVE A
    <3>1. overlaps \in Nat
      BY ReceiptsAssumption
    <3> QED
      BY <2>2, <3>1 DEF Join, JoinInv, OpFits, LocalOnly, room, Standing
  <2>3. CASE UNCHANGED lastRead
    BY <2>3
  <2>4. \/ UNCHANGED lastRead
        \/ \E r \in Requests : Mark(r) \/ Join(r)
    BY DEF Next, Step, Arrive, Guard, AssertMember, Reserve, Insert, ReadRecipients, Emit, Find,
       Wipe, ReadRows, ReplyPage, ReadHead, ReadExisting, ReadTarget, Out, Fail, Wait, LocalOnly,
       room, vars
  <2> QED
    BY <2>1, <2>2, <2>3, <2>4
<1>2. Init => JoinInv
  BY DEF Init, JoinInv, InFlight
<1> QED
  BY <1>1, <1>2, TypesAtStart, TypesNext, JoinInvNext, PTL DEF Spec, OnlyStaleJoinRewinds

-----------------------------------------------------------------------------
(* Calls that come one after the other.                                    *)

\* What an addMembers has read as the head is still the head, so that it brings its member
\* in with nothing unread.
HeadInv ==
  overlaps = 0 =>
    /\ \A r \in Requests : pc[r] \in {"existing", "join"} => \A s \in Stored : s <= at[r]
    /\ \A u \in active : \A s \in before[u] : s <= lastRead[u]

\* Every step keeps it.
LEMMA HeadInvNext == TypeInv /\ JoinInv /\ HeadInv /\ [Next]_vars => HeadInv'
<1> SUFFICES ASSUME TypeInv, JoinInv, HeadInv, [Next]_vars, overlaps' = 0 PROVE HeadInv'
  BY DEF HeadInv
<1> USE DEF TypeInv, TypeOK, room, clients, local, history, faults, LocalOnly, Go, Goes, End, Forget
<1>1. ASSUME NEW r \in Requests, Arrive(r) PROVE HeadInv'
  <2>1. overlaps = 0 /\ UNCHANGED <<messages, active, lastRead, before, at>>
    BY <1>1, ReceiptsAssumption DEF Arrive
  <2>2. PICK c \in Call : pc' = [pc EXCEPT ![r] = Entry(c.kind)]
    BY <1>1 DEF Arrive
  <2>3. c.kind \in {"send", "read", "unsend", "list", "add", "remove"}
    BY DEF Call
  <2>4. Entry(c.kind) \in {"member", "mark", "find", "guard"}
    BY <2>3 DEF Entry
  <2> QED
    BY <2>1, <2>2, <2>4 DEF HeadInv, Stored
<1>0. ASSUME overlaps = 0, NEW r \in InFlight
      PROVE  \A q \in Requests \ {r} : pc[q] \in {"idle", "done"}
  BY <1>0 DEF JoinInv, InFlight
<1>2. ASSUME NEW r \in Requests,
             pc[r] \notin {"idle", "done"}, UNCHANGED <<overlaps, active, lastRead, before>>,
             NEW p \in Points \ {"existing", "join"}, pc' = [pc EXCEPT ![r] = p]
      PROVE  HeadInv'
  <2>1. overlaps = 0 /\ r \in InFlight
    BY <1>2 DEF InFlight
  <2>2. \A q \in Requests : pc'[q] \notin {"existing", "join"}
    BY <1>0, <1>2, <2>1
  <2> QED
    BY <1>2, <2>1, <2>2 DEF HeadInv
<1>3. ASSUME NEW r \in Requests, Guard(r) PROVE HeadInv'
  <2>1. PICK p \in {"rows", "head", "target", "done"} : pc' = [pc EXCEPT ![r] = p]
    BY <1>3 DEF Guard, OpFits
  <2>2. p \in Points \ {"existing", "join"}
    BY <2>1 DEF Points
  <2> QED
    BY <1>2, <1>3, <2>1, <2>2 DEF Guard
<1>4. ASSUME NEW r \in Requests, AssertMember(r) \/ Reserve(r) \/ Insert(r) \/ ReadRecipients(r)
      PROVE  HeadInv'
  BY <1>2, <1>4 DEF AssertMember, Reserve, Incr, Insert, ReadRecipients, Points
<1>5. ASSUME NEW r \in Requests, Emit(r) \/ Find(r) \/ Wipe(r) \/ ReadRows(r) \/ ReplyPage(r)
      PROVE  HeadInv'
  BY <1>2, <1>5 DEF Emit, Find, Wipe, ReadRows, ReplyPage, Points
<1>6. ASSUME NEW r \in Requests, Mark(r) PROVE HeadInv'
  <2>1. CASE End(r) /\ LocalOnly
    BY <1>2, <1>6, <2>1 DEF Mark, Points
  <2>2. CASE Goes(r, "recipients")
    <3>1. op[r].seq \in Nat /\ r \in InFlight
      BY <1>6 DEF Mark, OpFits, InFlight, Op
    <3>2. /\ Advances(r) /\ lastRead' = [lastRead EXCEPT ![op[r].actor] = op[r].seq]
          /\ UNCHANGED <<overlaps, messages, active, before, at>>
          /\ pc' = [pc EXCEPT ![r] = "recipients"]
      BY <1>6, <2>2 DEF Mark, Advances
    <3>3. \A u \in active : lastRead[u] <= lastRead'[u]
      BY <3>1, <3>2 DEF Advances
    <3>4. \A u \in active : \A s \in before'[u] : s <= lastRead'[u]
      BY <3>1, <3>2, <3>3 DEF HeadInv
    <3> QED
      BY <3>2, <3>4 DEF HeadInv, Stored
  <2> QED
    BY <1>6, <2>1, <2>2 DEF Mark
<1>7. ASSUME NEW r \in Requests, ReadHead(r) PROVE HeadInv'
  <2>1. PICK h \in Stored : /\ \A s \in Stored : s <= h
                            /\ at' = [at EXCEPT ![r] = h]
    BY <1>7 DEF ReadHead
  <2>2. /\ pc' = [pc EXCEPT ![r] = "existing"]
        /\ UNCHANGED <<overlaps, messages, active, lastRead, before>>
    BY <1>7 DEF ReadHead
  <2> QED
    BY <2>1, <2>2 DEF HeadInv, Stored
<1>8. ASSUME NEW r \in Requests, ReadExisting(r) PROVE HeadInv'
  <2>1. CASE End(r)
    BY <1>2, <1>8, <2>1 DEF ReadExisting, Points
  <2>2. CASE ~End(r)
    <3>1. /\ pc[r] = "existing" /\ pc' = [pc EXCEPT ![r] = "join"]
          /\ UNCHANGED <<overlaps, messages, active, lastRead, before, at>>
      BY <1>8, <2>2 DEF ReadExisting
    <3> QED
      BY <3>1 DEF HeadInv, Stored
  <2> QED
    BY <2>1, <2>2
<1>9. ASSUME NEW r \in Requests, Join(r) PROVE HeadInv'
  <2>1. pc[r] = "join" /\ overlaps = 0 /\ r \in InFlight
    BY <1>9 DEF Join, InFlight
  <2>2. op[r].target \in Users \ active
    BY <2>1 DEF JoinInv, OpFits
  <2>3. CASE End(r) /\ LocalOnly
    BY <1>2, <2>1, <2>3 DEF Points
  <2>4. CASE ~(End(r) /\ LocalOnly)
    <3>1. /\ pc' = [pc EXCEPT ![r] = "reserve"] /\ UNCHANGED <<overlaps, messages, at>>
          /\ active' = active \cup {op[r].target}
          /\ lastRead' = [lastRead EXCEPT ![op[r].target] = at[r]]
          /\ before' = [before EXCEPT ![op[r].target] = Stored]
      BY <1>9, <2>2, <2>4 DEF Join, JoinsAt
    <3>2. \A u \in active' : \A s \in before'[u] : s <= lastRead'[u]
      BY <2>1, <2>2, <3>1 DEF HeadInv
    <3>3. \A q \in Requests : pc'[q] \notin {"existing", "join"}
      BY <1>0, <2>1, <3>1
    <3> QED
      BY <3>2, <3>3 DEF HeadInv
  <2> QED
    BY <2>3, <2>4
<1>10. ASSUME NEW r \in Requests, ReadTarget(r) PROVE HeadInv'
  BY <1>2, <1>10 DEF ReadTarget, Points
<1>11. ASSUME NEW r \in Requests, Out(r) PROVE HeadInv'
  <2>1. /\ pc' = [pc EXCEPT ![r] = "reserve"] /\ active' \subseteq active
        /\ UNCHANGED <<overlaps, messages, lastRead, before, at>>
    BY <1>11 DEF Out
  <2> QED
    BY <2>1 DEF HeadInv, Stored
<1>12. ASSUME NEW r \in Requests, Fail(r) PROVE HeadInv'
  BY <1>2, <1>12 DEF Fail, InFlight, Points
<1>13. CASE Wait \/ UNCHANGED vars
  BY <1>13 DEF Wait, vars, HeadInv, Stored
<1> QED
  BY <1>1, <1>3, <1>4, <1>5, <1>6, <1>7, <1>8, <1>9, <1>10, <1>11, <1>12, <1>13 DEF Next, Step

\* README: lastReadSeq of a newcomer is the head.  While requests are handled one at a time
\* no member has an unread message from before it joined.
THEOREM NewcomersHaveRead == Spec => []NewcomersStartRead
<1>1. Init => JoinInv /\ HeadInv
  BY DEF Init, JoinInv, HeadInv, InFlight
<1>2. HeadInv => NewcomersStartRead
  BY DEF HeadInv, NewcomersStartRead, Undisturbed
<1> QED
  BY <1>1, <1>2, TypesAtStart, TypesNext, JoinInvNext, HeadInvNext, PTL DEF Spec

-----------------------------------------------------------------------------
(* Bodies of unsent messages, when calls come one after the other.         *)

Hidden == Seqs(Unsent(messages))
Exposed == {s \in Hidden : \E u \in active : s \in visible[u]}
OneEach == \A m, n \in messages : m.seq = n.seq => m = n

\* The message whose members are still to be told that it was unsent.
Pending(r) ==
  IF op[r].kind = "unsend" /\ pc[r] \in {"recipients", "emit"} THEN {op[r].seq} ELSE {}

\* Of the unsent messages a member may only be shown the one the request in flight is about
\* to tell of; what that request has read is still so.
HiddenAt(r) ==
  /\ Exposed \subseteq Pending(r)
  /\ pc[r] = "mark" => op[r].kind = "read"
  /\ pc[r] \in {"find", "wipe"} => op[r].kind = "unsend"
  /\ pc[r] = "insert" => at[r] \notin Stored
  /\ pc[r] \in {"recipients", "emit"} /\ op[r].kind \in New => at[r] \notin Hidden
  /\ pc[r] = "emit" => to[r] = active
  /\ pc[r] = "reply" => page[r] = messages

HiddenInv ==
  /\ OneEach
  /\ \A r \in InFlight : HiddenAt(r)
  /\ Quiet => Exposed = {}

\* As of the step of one request nothing else moves.
LEMMA HiddenMove ==
  ASSUME NEW r \in Requests, \A q \in Requests \ {r} : q \notin InFlight', OneEach',
         IF r \in InFlight' THEN HiddenAt(r)' ELSE Exposed' = {}
  PROVE  HiddenInv'
<1>1. \A q \in InFlight' : q = r
  BY DEF InFlight
<1>2. (\A q \in InFlight : HiddenAt(q))'
  BY <1>1
<1>3. Quiet' => Exposed' = {}
  BY DEF Quiet
<1> QED
  BY <1>2, <1>3 DEF HiddenInv

\* A step that writes no message and shows nothing, to a point that asks for nothing.
LEMMA HiddenKept ==
  ASSUME HiddenInv, NEW r \in InFlight, InFlight = {r}, pc \in [Requests -> Points],
         UNCHANGED <<messages, visible>>, active' \subseteq active,
         NEW p \in Points \ {"insert", "recipients", "emit", "reply", "mark", "find", "wipe"},
         pc' = [pc EXCEPT ![r] = p], pc[r] \notin {"recipients", "emit"}
  PROVE  HiddenInv'
<1>1. r \in Requests /\ HiddenAt(r) /\ OneEach
  BY DEF HiddenInv, InFlight
<1>2. Exposed = {}
  BY <1>1 DEF HiddenAt, Pending
<1>3. Exposed' = {}
  BY <1>2 DEF Exposed, Hidden, Unsent, Seqs
<1>4. OneEach'
  BY <1>1 DEF OneEach
<1>5. pc'[r] = p /\ \A q \in Requests \ {r} : q \notin InFlight'
  BY <1>1 DEF InFlight
<1>6. HiddenAt(r)'
  BY <1>3, <1>5 DEF HiddenAt
<1> QED
  BY <1>1, <1>3, <1>4, <1>5, <1>6, HiddenMove

\* softDelete makes one message an unsent one.
LEMMA WipeHides ==
  ASSUME messages \subseteq Message, OneEach, NEW r \in Requests, Wipe(r)
  PROVE  OneEach' /\ Hidden' \subseteq Hidden \cup {op[r].seq}
<1> DEFINE Wiped(m) == IF m.seq = op[r].seq THEN [m EXCEPT !.deleted = TRUE] ELSE m
<1>1. messages' = {Wiped(m) : m \in messages}
  BY DEF Wipe
<1>2. ASSUME NEW m \in messages
      PROVE  Wiped(m).seq = m.seq /\ (m.seq # op[r].seq => Wiped(m) = m)
  <2>1. m \in Message
    OBVIOUS
  <2>2. [m EXCEPT !.deleted = TRUE].seq = m.seq
    BY <2>1 DEF Message
  <2> QED
    BY <2>2
<1> HIDE DEF Wiped
<1>3. ASSUME NEW m \in messages', NEW n \in messages', m.seq = n.seq PROVE m = n
  <2>1. PICK a \in messages : m = Wiped(a)
    BY <1>1
  <2>2. PICK b \in messages : n = Wiped(b)
    BY <1>1
  <2>3. a = b
    BY <1>2, <1>3, <2>1, <2>2 DEF OneEach
  <2> QED
    BY <2>1, <2>2, <2>3
<1>4. ASSUME NEW s \in Hidden' PROVE s \in Hidden \cup {op[r].seq}
  <2>1. PICK n \in messages' : n.deleted /\ n.seq = s
    BY DEF Hidden, Unsent, Seqs
  <2>2. PICK m \in messages : n = Wiped(m)
    BY <1>1, <2>1
  <2>3. CASE m.seq = op[r].seq
    BY <1>2, <2>1, <2>2, <2>3
  <2>4. CASE m.seq # op[r].seq
    BY <1>2, <2>1, <2>2, <2>4 DEF Hidden, Unsent, Seqs
  <2> QED
    BY <2>3, <2>4
<1> QED
  BY <1>3, <1>4 DEF OneEach

\* Every call that is handled alone keeps unsent messages hidden.
LEMMA HiddenInvNext ==
  ASSUME TypeInv, JoinInv, HiddenInv, Undisturbed, Undisturbed', [Next]_vars
  PROVE  HiddenInv'
<1> USE DEF room, clients, local, history, faults, LocalOnly, Go, Goes, End, Forget
<1>t. TypeOK /\ \A r \in Requests : OpFits(r)
  BY DEF TypeInv
<1>0. ASSUME NEW r \in InFlight PROVE InFlight = {r} /\ HiddenAt(r) /\ OneEach
  BY <1>0 DEF JoinInv, Undisturbed, HiddenInv
<1>p. pc \in [Requests -> Points]
  BY <1>t DEF TypeOK
<1>g. ASSUME NEW r \in InFlight, NEW p \in Points, pc' = [pc EXCEPT ![r] = p]
      PROVE  r \in Requests /\ pc'[r] = p /\ \A q \in Requests \ {r} : q \notin InFlight'
  BY <1>0, <1>p, <1>g DEF InFlight
<1>e. ASSUME NEW r \in InFlight, pc[r] \notin {"recipients", "emit"} PROVE Exposed = {}
  BY <1>0, <1>e DEF HiddenAt, Pending
<1>u. ASSUME UNCHANGED messages
      PROVE  Hidden' = Hidden /\ Stored' = Stored /\ (OneEach' <=> OneEach)
  BY <1>u DEF Hidden, Unsent, Seqs, Stored, OneEach
<1>v. ASSUME UNCHANGED <<messages, visible, active>> PROVE Exposed' = Exposed
  BY <1>u, <1>v DEF Exposed
<1>s. Hidden \subseteq Stored
  BY DEF Hidden, Unsent, Seqs, Stored
<1>1. ASSUME NEW r \in Requests, Arrive(r) PROVE HiddenInv'
  <2>1. Quiet /\ UNCHANGED <<messages, visible, active>>
    BY <1>1 DEF Arrive, Undisturbed
  <2>2. PICK c \in Call : op' = [op EXCEPT ![r] = c] /\ pc' = [pc EXCEPT ![r] = Entry(c.kind)]
    BY <1>1 DEF Arrive
  <2>3. c.kind \in {"send", "read", "unsend", "list", "add", "remove"}
    BY DEF Call
  <2>4. /\ Entry(c.kind) \in {"member", "mark", "find", "guard"}
        /\ Entry(c.kind) = "mark" => c.kind = "read"
        /\ Entry(c.kind) = "find" => c.kind = "unsend"
    BY <2>3 DEF Entry
  <2>5. /\ pc'[r] \in {"member", "mark", "find", "guard"}
        /\ pc'[r] = "mark" => op'[r].kind = "read"
        /\ pc'[r] = "find" => op'[r].kind = "unsend"
        /\ \A q \in Requests \ {r} : pc'[q] = pc[q]
    BY <1>t, <2>2, <2>4 DEF TypeOK
  <2>6. Exposed' = {} /\ OneEach'
    BY <1>u, <1>v, <2>1 DEF HiddenInv
  <2>7. HiddenAt(r)'
    BY <2>5, <2>6 DEF HiddenAt
  <2>8. \A q \in Requests \ {r} : q \notin InFlight'
    BY <2>1, <2>5 DEF Quiet, InFlight
  <2>9. r \in InFlight'
    BY <2>5 DEF InFlight
  <2> QED
    BY <2>6, <2>7, <2>8, <2>9, HiddenMove
<1>2. ASSUME NEW r \in Requests, Guard(r) PROVE HiddenInv'
  <2>1. PICK p \in {"rows", "head", "target", "done"} : pc' = [pc EXCEPT ![r] = p]
    BY <1>2, <1>t DEF Guard, OpFits
  <2>2. p \in Points \ {"insert", "recipients", "emit", "reply", "mark", "find", "wipe"}
    BY <2>1 DEF Points
  <2>3. pc[r] = "guard" /\ r \in InFlight /\ UNCHANGED <<messages, visible, active>>
    BY <1>2 DEF Guard, InFlight
  <2> QED
    BY <1>0, <1>p, <2>1, <2>2, <2>3, HiddenKept
<1>3. ASSUME NEW r \in Requests,
             AssertMember(r) \/ ReadHead(r) \/ ReadExisting(r) \/ ReadTarget(r) \/ Out(r)
      PROVE  HiddenInv'
  <2>1. PICK p \in {"reserve", "existing", "join", "out", "done"} : pc' = [pc EXCEPT ![r] = p]
    BY <1>3 DEF AssertMember, ReadHead, ReadExisting, ReadTarget, Out
  <2>2. p \in Points \ {"insert", "recipients", "emit", "reply", "mark", "find", "wipe"}
    BY <2>1 DEF Points
  <2>3. /\ pc[r] \in {"member", "head", "existing", "target", "out"} /\ r \in InFlight
        /\ UNCHANGED <<messages, visible>> /\ active' \subseteq active
    BY <1>3 DEF AssertMember, ReadHead, ReadExisting, ReadTarget, Out, InFlight
  <2> QED
    BY <1>0, <1>p, <2>1, <2>2, <2>3, HiddenKept
<1>4. ASSUME NEW r \in Requests, Reserve(r) PROVE HiddenInv'
  <2>1. /\ pc[r] = "reserve" /\ r \in InFlight /\ pc' = [pc EXCEPT ![r] = "insert"]
        /\ at' = [at EXCEPT ![r] = counter + 1] /\ UNCHANGED <<messages, visible, active>>
    BY <1>4 DEF Reserve, InFlight
  <2>2. pc'[r] = "insert" /\ \A q \in Requests \ {r} : q \notin InFlight'
    BY <1>g, <2>1 DEF Points
  <2>3. at'[r] \notin Stored
    BY <1>t, <2>1 DEF TypeOK
  <2>4. Exposed' = {} /\ OneEach' /\ Stored' = Stored
    BY <1>0, <1>e, <1>u, <1>v, <2>1
  <2>5. HiddenAt(r)'
    BY <2>2, <2>3, <2>4 DEF HiddenAt
  <2> QED
    BY <2>2, <2>4, <2>5, HiddenMove DEF InFlight
<1>5. ASSUME NEW r \in Requests, Insert(r) PROVE HiddenInv'
  <2>1. /\ pc[r] = "insert" /\ r \in InFlight /\ pc' = [pc EXCEPT ![r] = "recipients"]
        /\ UNCHANGED <<visible, active, at, op>>
    BY <1>5 DEF Insert, InFlight
  <2>2. pc'[r] = "recipients" /\ \A q \in Requests \ {r} : q \notin InFlight'
    BY <1>g, <2>1 DEF Points
  <2>a. /\ [seq |-> at[r], by |-> op[r].actor, system |-> op[r].kind # "send",
            deleted |-> FALSE].seq = at[r]
        /\ [seq |-> at[r], by |-> op[r].actor, system |-> op[r].kind # "send",
            deleted |-> FALSE].deleted = FALSE
    OBVIOUS
  <2>3. PICK m : messages' = messages \cup {m} /\ m.seq = at[r] /\ m.deleted = FALSE
    BY <1>5, <2>a, Zenon DEF Insert
  <2>4. at[r] \notin Stored /\ op[r].kind \in New
    BY <1>0, <1>t, <2>1 DEF HiddenAt, OpFits
  <2>5. OneEach'
    BY <1>0, <2>1, <2>3, <2>4 DEF OneEach, Stored, Seqs
  <2>6. Hidden' = Hidden
    BY <2>3 DEF Hidden, Unsent, Seqs
  <2>7. Exposed' = {}
    BY <1>e, <2>1, <2>6 DEF Exposed
  <2>8. HiddenAt(r)'
    BY <1>s, <2>1, <2>2, <2>4, <2>6, <2>7 DEF HiddenAt
  <2> QED
    BY <2>2, <2>5, <2>7, <2>8, HiddenMove DEF InFlight
<1>6. ASSUME NEW r \in Requests, ReadRecipients(r) PROVE HiddenInv'
  <2>1. /\ pc[r] = "recipients" /\ r \in InFlight /\ pc' = [pc EXCEPT ![r] = "emit"]
        /\ to' = [to EXCEPT ![r] = active] /\ UNCHANGED <<messages, visible, active, at, op>>
    BY <1>6 DEF ReadRecipients, Recipients, InFlight
  <2>2. pc'[r] = "emit" /\ \A q \in Requests \ {r} : q \notin InFlight'
    BY <1>g, <2>1 DEF Points
  <2>3. to'[r] = active'
    BY <1>t, <2>1 DEF TypeOK
  <2>4. Exposed' = Exposed /\ Hidden' = Hidden /\ OneEach'
    BY <1>0, <1>u, <1>v, <2>1
  <2>5. Pending(r)' = Pending(r)
    BY <2>1, <2>2 DEF Pending
  <2>6. HiddenAt(r)'
    BY <1>0, <2>1, <2>2, <2>3, <2>4, <2>5 DEF HiddenAt
  <2> QED
    BY <2>2, <2>4, <2>6, HiddenMove DEF InFlight
<1>7. ASSUME NEW r \in Requests, Emit(r) PROVE HiddenInv'
  <2>1. /\ pc[r] = "emit" /\ r \in InFlight /\ pc' = [pc EXCEPT ![r] = "done"]
        /\ UNCHANGED <<messages, active>>
    BY <1>7 DEF Emit, InFlight
  <2>2. pc'[r] = "done" /\ \A q \in Requests \ {r} : q \notin InFlight'
    BY <1>g, <2>1 DEF Points
  <2>3. /\ Exposed \subseteq Pending(r) /\ to[r] = active
        /\ op[r].kind \in New => at[r] \notin Hidden
    BY <1>0, <2>1 DEF HiddenAt
  <2>4. OneEach' /\ Hidden' = Hidden /\ active \subseteq Users
    BY <1>0, <1>t, <1>u, <2>1 DEF TypeOK
  <2>5. \A u \in active :
          visible'[u] = IF op[r].kind \in New THEN visible[u] \cup {at[r]}
                        ELSE IF op[r].kind = "unsend" THEN visible[u] \ {op[r].seq}
                        ELSE visible[u]
    BY <1>7, <2>3, <2>4 DEF Emit, New
  <2>6. Exposed' = {}
    <3>1. CASE op[r].kind \in New
      BY <2>1, <2>3, <2>4, <2>5, <3>1 DEF Exposed, Pending, New
    <3>2. CASE op[r].kind = "unsend"
      BY <2>1, <2>3, <2>4, <2>5, <3>2 DEF Exposed, Pending, New
    <3>3. CASE op[r].kind \notin New \cup {"unsend"}
      BY <2>1, <2>3, <2>4, <2>5, <3>3 DEF Exposed, Pending
    <3> QED
      BY <3>1, <3>2, <3>3
  <2> QED
    BY <2>2, <2>4, <2>6, HiddenMove DEF InFlight
<1>8. ASSUME NEW r \in Requests, Mark(r) PROVE HiddenInv'
  <2>1. pc[r] = "mark" /\ r \in InFlight /\ UNCHANGED <<messages, visible, active>>
    BY <1>8 DEF Mark, InFlight
  <2>2. CASE End(r)
    <3>1. "done" \in Points \ {"insert", "recipients", "emit", "reply", "mark", "find", "wipe"}
      BY DEF Points
    <3> QED
      BY <1>0, <1>p, <2>1, <2>2, <3>1, HiddenKept
  <2>3. CASE Goes(r, "recipients")
    <3>1. pc'[r] = "recipients" /\ \A q \in Requests \ {r} : q \notin InFlight'
      BY <1>g, <2>1, <2>3 DEF Points
    <3>2. op'[r].kind = "read"
      BY <1>0, <2>1, <2>3 DEF HiddenAt
    <3>3. Exposed' = {} /\ OneEach'
      BY <1>0, <1>e, <1>u, <1>v, <2>1
    <3>4. HiddenAt(r)'
      BY <3>1, <3>2, <3>3 DEF HiddenAt, New
    <3> QED
      BY <3>1, <3>3, <3>4, HiddenMove DEF InFlight
  <2> QED
    BY <1>8, <2>2, <2>3 DEF Mark
<1>9. ASSUME NEW r \in Requests, Find(r) PROVE HiddenInv'
  <2>1. pc[r] = "find" /\ r \in InFlight /\ UNCHANGED <<messages, visible, active>>
    BY <1>9 DEF Find, InFlight
  <2>2. CASE End(r)
    <3>1. "done" \in Points \ {"insert", "recipients", "emit", "reply", "mark", "find", "wipe"}
      BY DEF Points
    <3> QED
      BY <1>0, <1>p, <2>1, <2>2, <3>1, HiddenKept
  <2>3. CASE Goes(r, "wipe")
    <3>1. pc'[r] = "wipe" /\ \A q \in Requests \ {r} : q \notin InFlight'
      BY <1>g, <2>1, <2>3 DEF Points
    <3>2. op'[r].kind = "unsend"
      BY <1>0, <2>1, <2>3 DEF HiddenAt
    <3>3. Exposed' = {} /\ OneEach'
      BY <1>0, <1>e, <1>u, <1>v, <2>1
    <3>4. HiddenAt(r)'
      BY <3>1, <3>2, <3>3 DEF HiddenAt
    <3> QED
      BY <3>1, <3>3, <3>4, HiddenMove DEF InFlight
  <2> QED
    BY <1>9, <2>2, <2>3 DEF Find
<1>10. ASSUME NEW r \in Requests, Wipe(r) PROVE HiddenInv'
  <2>1. /\ pc[r] = "wipe" /\ r \in InFlight /\ pc' = [pc EXCEPT ![r] = "recipients"]
        /\ UNCHANGED <<visible, active, op>>
    BY <1>10 DEF Wipe, InFlight
  <2>2. pc'[r] = "recipients" /\ \A q \in Requests \ {r} : q \notin InFlight'
    BY <1>g, <2>1 DEF Points
  <2>3. op[r].kind = "unsend" /\ OneEach /\ messages \subseteq Message
    BY <1>0, <1>t, <2>1 DEF HiddenAt, TypeOK
  <2>4. OneEach' /\ Hidden' \subseteq Hidden \cup {op[r].seq}
    BY <1>10, <2>3, WipeHides
  <2>5. Exposed' \subseteq {op[r].seq}
    BY <1>e, <2>1, <2>4 DEF Exposed
  <2>6. HiddenAt(r)'
    BY <2>1, <2>2, <2>3, <2>5 DEF HiddenAt, Pending, New
  <2> QED
    BY <2>2, <2>4, <2>6, HiddenMove DEF InFlight
<1>11. ASSUME NEW r \in Requests, ReadRows(r) PROVE HiddenInv'
  <2>1. /\ pc[r] = "rows" /\ r \in InFlight /\ pc' = [pc EXCEPT ![r] = "reply"]
        /\ page' = [page EXCEPT ![r] = messages] /\ UNCHANGED <<messages, visible, active>>
    BY <1>11 DEF ReadRows, InFlight
  <2>2. pc'[r] = "reply" /\ \A q \in Requests \ {r} : q \notin InFlight'
    BY <1>g, <2>1 DEF Points
  <2>3. page'[r] = messages'
    BY <1>t, <2>1 DEF TypeOK
  <2>4. Exposed' = {} /\ OneEach'
    BY <1>0, <1>e, <1>u, <1>v, <2>1
  <2>5. HiddenAt(r)'
    BY <2>2, <2>3, <2>4 DEF HiddenAt
  <2> QED
    BY <2>2, <2>4, <2>5, HiddenMove DEF InFlight
<1>12. ASSUME NEW r \in Requests, ReplyPage(r) PROVE HiddenInv'
  <2>1. /\ pc[r] = "reply" /\ r \in InFlight /\ pc' = [pc EXCEPT ![r] = "done"]
        /\ UNCHANGED <<messages, active>>
    BY <1>12 DEF ReplyPage, InFlight
  <2>2. pc'[r] = "done" /\ \A q \in Requests \ {r} : q \notin InFlight'
    BY <1>g, <2>1 DEF Points
  <2>3. page[r] = messages /\ OneEach /\ Exposed = {}
    BY <1>0, <1>e, <2>1 DEF HiddenAt
  <2>4. OneEach' /\ Hidden' = Hidden
    BY <1>u, <2>1, <2>3
  <2>5. \A s \in Hidden : s \notin Shown(messages)
    BY <2>3 DEF Shown, Hidden, Unsent, Seqs, OneEach
  <2>6. \A u \in active : visible'[u] \subseteq visible[u] \cup Shown(messages)
    BY <1>12, <1>t, <2>3 DEF ReplyPage, TypeOK
  <2>7. Exposed' = {}
    BY <2>1, <2>3, <2>4, <2>5, <2>6 DEF Exposed
  <2> QED
    BY <2>2, <2>4, <2>7, HiddenMove DEF InFlight
<1>13. ASSUME NEW r \in Requests, Join(r) PROVE HiddenInv'
  <2>1. pc[r] = "join" /\ r \in InFlight
    BY <1>13 DEF Join, InFlight
  <2>2. op[r].target \in Users \ active
    BY <1>t, <2>1 DEF JoinInv, Undisturbed, OpFits
  <2>3. CASE End(r) /\ LocalOnly
    <3>1. "done" \in Points \ {"insert", "recipients", "emit", "reply", "mark", "find", "wipe"}
      BY DEF Points
    <3> QED
      BY <1>0, <1>p, <2>1, <2>3, <3>1, HiddenKept
  <2>4. CASE ~(End(r) /\ LocalOnly)
    <3>1. /\ pc' = [pc EXCEPT ![r] = "reserve"] /\ UNCHANGED messages
          /\ active' = active \cup {op[r].target}
          /\ visible' = [visible EXCEPT ![op[r].target] = {}]
      BY <1>13, <2>2, <2>4 DEF Join
    <3>2. pc'[r] = "reserve" /\ \A q \in Requests \ {r} : q \notin InFlight'
      BY <1>g, <2>1, <3>1 DEF Points
    <3>3. Exposed = {} /\ OneEach' /\ Hidden' = Hidden
      BY <1>0, <1>e, <1>u, <2>1, <3>1
    <3>4. Exposed' = {}
      BY <1>t, <2>2, <3>1, <3>3 DEF Exposed, TypeOK
    <3>5. HiddenAt(r)'
      BY <3>2, <3>4 DEF HiddenAt
    <3> QED
      BY <3>2, <3>3, <3>5, HiddenMove DEF InFlight
  <2> QED
    BY <2>3, <2>4
<1>14. ASSUME NEW r \in Requests, Fail(r) PROVE FALSE
  BY <1>14, <1>t DEF Fail, Undisturbed, TypeOK
<1>15. CASE Wait \/ UNCHANGED vars
  <2>1. UNCHANGED <<messages, visible, active, pc, op, at, to, page>>
    BY <1>15 DEF Wait, vars
  <2>2. InFlight' = InFlight /\ \A r \in Requests : HiddenAt(r)' <=> HiddenAt(r)
    BY <1>u, <1>v, <2>1 DEF HiddenAt, Pending, InFlight
  <2> QED
    BY <1>u, <1>v, <2>1, <2>2 DEF HiddenInv, Quiet, InFlight
<1> QED
  BY <1>1, <1>2, <1>3, <1>4, <1>5, <1>6, <1>7, <1>8, <1>9, <1>10, <1>11, <1>12, <1>13, <1>14,
     <1>15 DEF Next, Step

\* What has been disturbed stays so.
LEMMA UndisturbedBefore ==
  ASSUME TypeOK, Undisturbed', [Next]_vars
  PROVE  Undisturbed
<1> USE DEF faults, Go, Goes, End
<1>1. overlaps \in Nat /\ failures \in Nat
  BY ReceiptsAssumption DEF TypeOK
<1>2. \/ UNCHANGED faults
      \/ overlaps' \in {overlaps, overlaps + 1} /\ UNCHANGED failures
      \/ failures' = failures + 1
  <2>1. ASSUME NEW r \in Requests, Arrive(r)
        PROVE  overlaps' \in {overlaps, overlaps + 1} /\ UNCHANGED failures
    BY <2>1 DEF Arrive
  <2>2. ASSUME NEW r \in Requests, Step(r) PROVE UNCHANGED faults
    BY <2>2 DEF Step, Guard, AssertMember, Reserve, Insert, ReadRecipients, Emit, Mark, Find, Wipe,
       ReadRows, ReplyPage, ReadHead, ReadExisting, Join, ReadTarget, Out
  <2>3. ASSUME NEW r \in Requests, Fail(r) PROVE failures' = failures + 1
    BY <2>3 DEF Fail
  <2>4. CASE Wait \/ UNCHANGED vars
    BY <2>4 DEF Wait, vars
  <2> QED
    BY <2>1, <2>2, <2>3, <2>4 DEF Next
<1> QED
  BY <1>1, <1>2 DEF Undisturbed

\* The messages a room starts with have a seq each, and none is unsent.
LEMMA HiddenAtStart == Init => HiddenInv
<1> SUFFICES ASSUME Init PROVE HiddenInv
  OBVIOUS
<1>1. PICK u \in active :
        \/ messages = {Posted(1, u)}
        \/ \E v \in Users : messages = {Posted(1, u), Posted(2, v)}
  BY DEF Init
<1>2. OneEach /\ \A m \in messages : ~m.deleted
  <2>1. CASE messages = {Posted(1, u)}
    BY <2>1 DEF OneEach, Posted
  <2>2. ASSUME NEW v \in Users, messages = {Posted(1, u), Posted(2, v)}
        PROVE  <1>2
    BY <2>2 DEF OneEach, Posted
  <2> QED
    BY <1>1, <2>1, <2>2
<1>3. Exposed = {}
  BY <1>2 DEF Exposed, Hidden, Unsent, Seqs
<1>4. InFlight = {}
  BY DEF Init, InFlight
<1> QED
  BY <1>2, <1>3, <1>4 DEF HiddenInv

\* softDelete and serialize: while requests are handled one at a time and none dies, no member
\* is shown, between requests, the body of a message that was unsent.
THEOREM UnsentStaysHidden == Spec => []UnsentIsHiddenInPeace
<1>1. Init => JoinInv
  BY DEF Init, JoinInv, InFlight
<1>2. TypeInv /\ JoinInv /\ (Undisturbed => HiddenInv) /\ [Next]_vars
        => (Undisturbed => HiddenInv)'
  BY HiddenInvNext, UndisturbedBefore DEF TypeInv
<1>3. (Undisturbed => HiddenInv) => UnsentIsHiddenInPeace
  BY DEF HiddenInv, Exposed, Hidden, UnsentIsHidden, UnsentIsHiddenInPeace
<1> QED
  BY <1>1, <1>2, <1>3, TypesAtStart, TypesNext, JoinInvNext, HiddenAtStart, PTL DEF Spec
=============================================================================
