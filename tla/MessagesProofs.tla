--------------------------- MODULE MessagesProofs ---------------------------
(***************************************************************************)
(* Messages on their way in and out: theorems about MessageSend, for any   *)
(* number of calls, keys, attempts, drifts and failures, and further down  *)
(* about Paging, for any finite set of rows, page size and bound on keys.  *)
(***************************************************************************)
EXTENDS MessageSend, Paging, FiniteSetTheorems, TLAPS

-----------------------------------------------------------------------------
(* Type correctness.                                                       *)

\* Every step of the system keeps the types, the loop counter of persistWithSeq
\* included: a call never starts an attempt past SEQ_RETRY.
THEOREM TypeCorrect == Spec => []TypeOK
<1>1. Init => TypeOK
  BY SendAssumption DEF Init, TypeOK, Row, Points, Answers
<1>2. TypeOK /\ [Next]_vars => TypeOK'
  <2> SUFFICES ASSUME TypeOK, [Next]_vars PROVE TypeOK'
    OBVIOUS
  <2> USE SendAssumption DEF TypeOK, table, calls, history, LocalOnly
  <2>1. ASSUME NEW r \in Requests, Arrive(r) PROVE TypeOK'
    BY <2>1 DEF Arrive, Go, Hold, Points, InFlight
  <2>2. ASSUME NEW r \in Requests, Lookup(r) PROVE TypeOK'
    BY <2>2 DEF Lookup, AnswerDuplicate, Answer, Go, Hold, Points, Answers, WithCid, Row
  <2>3. ASSUME NEW r \in Requests, Validate(r) PROVE TypeOK'
    BY <2>3 DEF Validate, Answer, Go, Hold, Points, Answers
  <2>4. ASSUME NEW r \in Requests, CheckKey(r) PROVE TypeOK'
    BY <2>4 DEF CheckKey, Go, Hold, Points
  <2>5. ASSUME NEW r \in Requests, ReadSeed(r) PROVE TypeOK'
    BY <2>5 DEF ReadSeed, Hold, Points, Row, DbMaxCandidates
  <2>6. ASSUME NEW r \in Requests, SetNx(r) PROVE TypeOK'
    BY <2>6 DEF SetNx, RedisSetNx, Go, Hold, Points
  <2>7. ASSUME NEW r \in Requests, Incr(r) PROVE TypeOK'
    BY <2>7 DEF Incr, Hold, Points
  <2>8. ASSUME NEW r \in Requests, Insert(r) PROVE TypeOK'
    BY <2>8 DEF Insert, Stored, LostCidRace, SeqCollision, Go, Hold, Points, Row
  <2>9. ASSUME NEW r \in Requests, ReadResync(r) PROVE TypeOK'
    BY <2>9 DEF ReadResync, Hold, Points, Row, DbMaxCandidates
  <2>10. ASSUME NEW r \in Requests, Resync(r) PROVE TypeOK'
    BY <2>10 DEF Resync, RedisSet, LastAttempt, NextAttempt, Answer, Points, Answers
  <2>11. ASSUME NEW r \in Requests, FetchWinner(r) PROVE TypeOK'
    BY <2>11 DEF FetchWinner, AnswerDuplicate, Answer, Points, Answers, WithCid, Row
  <2>12. ASSUME NEW r \in Requests, Touch(r) PROVE TypeOK'
    BY <2>12 DEF Touch, Refreshed, Go, Hold, Points, Row
  <2>13. ASSUME NEW r \in Requests, EmitCreated(r) PROVE TypeOK'
    BY <2>13 DEF EmitCreated, Broadcast, Go, Hold, Points
  <2>14. ASSUME NEW r \in Requests, Reply(r) PROVE TypeOK'
    BY <2>14 DEF Reply, Answer, Points, Answers
  <2>15. ASSUME NEW r \in Requests, Fail(r) PROVE TypeOK'
    BY <2>15 DEF Fail, Answer, Points, Answers
  <2>16. CASE Drift
    BY <2>16 DEF Drift, InFlight
  <2>17. CASE Finished \/ UNCHANGED vars
    BY <2>17 DEF Finished, vars
  <2> QED
    BY <2>1, <2>2, <2>3, <2>4, <2>5, <2>6, <2>7, <2>8, <2>9, <2>10, <2>11, <2>12, <2>13,
       <2>14, <2>15, <2>16, <2>17 DEF Next, Step
<1> QED
  BY <1>1, <1>2, PTL DEF Spec

-----------------------------------------------------------------------------
(* What is stored, what was answered and what was broadcast.               *)

\* A row with a key is the only one with that key, and the row of a call carries
\* the call's own key and belongs to a call that is past its insert.
RowsInv ==
  /\ \A m, n \in messages : m.cid = n.cid /\ m.cid # NoCid => m = n
  /\ \A m \in messages : m.id = NoMessage => m.cid = NoCid
  /\ \A m \in messages : m.id # NoMessage =>
       m.cid = cid[m.id] /\ pc[m.id] \in {"touch", "emit", "reply", "done"}

\* A call past its insert has its row; a call is answered exactly when it is done;
\* what it was told of is stored under its key.
CallsInv ==
  /\ \A r \in Requests : pc[r] \in {"touch", "emit", "reply"} =>
       \E m \in messages : m.id = r
  /\ \A r \in Requests : answer[r] = "none" <=> pc[r] # "done"
  /\ \A r \in Requests : answer[r] = "duplicate" => cid[r] # NoCid
  /\ ConfirmedIsStored

\* Only the call that stored a message broadcasts it, after its insert, and before
\* it replies.
BroadcastInv ==
  /\ \A e \in announced : e.by = e.msg /\ pc[e.msg] \in {"reply", "done"}
  /\ \A r \in Requests : pc[r] = "reply" => [by |-> r, msg |-> r] \in announced

SendInv == TypeOK /\ RowsInv /\ CallsInv /\ BroadcastInv

\* A room with its history and no call satisfies the invariant.
LEMMA SendInvInit == Init => SendInv
  BY SendAssumption
  DEF Init, SendInv, TypeOK, Row, Points, Answers, RowsInv, CallsInv, BroadcastInv,
      ConfirmedIsStored, Confirmed

\* Every step keeps the invariant: a row is stored by a call past its insert, and what
\* a call has been told is a row.
LEMMA SendInvNext == SendInv /\ TypeOK' /\ [Next]_vars => SendInv'
<1> SUFFICES ASSUME SendInv, TypeOK', [Next]_vars PROVE SendInv'
  OBVIOUS
<1> USE SendAssumption
    DEF SendInv, RowsInv, CallsInv, BroadcastInv, ConfirmedIsStored, Confirmed, TypeOK,
        Row, table, calls, history, LocalOnly, WithCid, CidTaken
<1>1. ASSUME NEW r \in Requests, Arrive(r) PROVE SendInv'
  BY <1>1 DEF Arrive, Go, Hold
<1>2. ASSUME NEW r \in Requests, Lookup(r) PROVE SendInv'
  BY <1>2 DEF Lookup, AnswerDuplicate, Answer, Go, Hold
<1>3. ASSUME NEW r \in Requests, Validate(r) PROVE SendInv'
  BY <1>3 DEF Validate, Answer, Go, Hold
<1>4. ASSUME NEW r \in Requests, CheckKey(r) PROVE SendInv'
  BY <1>4 DEF CheckKey, Go, Hold
<1>5. ASSUME NEW r \in Requests, ReadSeed(r) PROVE SendInv'
  BY <1>5 DEF ReadSeed, Hold
<1>6. ASSUME NEW r \in Requests, SetNx(r) PROVE SendInv'
  BY <1>6 DEF SetNx, Go, Hold
<1>7. ASSUME NEW r \in Requests, Incr(r) PROVE SendInv'
  BY <1>7 DEF Incr, Hold
<1>8. ASSUME NEW r \in Requests, Insert(r) PROVE SendInv'
  <2>1. CASE LostCidRace(r)
    BY <1>8, <2>1 DEF Insert, LostCidRace, Go, Hold
  <2>2. CASE SeqCollision(r)
    BY <1>8, <2>2 DEF Insert, SeqCollision, Go, Hold
  <2>3. CASE Stored(r)
    <3> DEFINE row == [id |-> r, seq |-> got[r], cid |-> cid[r], createdAt |-> inserts + 1]
    <3>1. /\ messages' = messages \cup {row}
          /\ pc[r] = "insert" /\ pc' = [pc EXCEPT ![r] = "touch"]
          /\ UNCHANGED <<cid, answer, told, announced>>
      BY <1>8, <2>3 DEF Insert, Stored, Go, Hold
    <3>2. row.id = r /\ row.cid = cid[r]
      OBVIOUS
    <3>3. \A m \in messages : cid[r] # NoCid => m.cid # cid[r]
      BY <2>3 DEF Stored
    <3> HIDE DEF row
    <3>4. RowsInv'
      BY <3>1, <3>2, <3>3
    <3>5. CallsInv'
      BY <3>1, <3>2
    <3>6. BroadcastInv'
      BY <3>1
    <3> QED
      BY <3>4, <3>5, <3>6
  <2> QED
    BY <1>8, <2>1, <2>2, <2>3 DEF Insert
<1>9. ASSUME NEW r \in Requests, ReadResync(r) PROVE SendInv'
  BY <1>9 DEF ReadResync, Hold
<1>10. ASSUME NEW r \in Requests, Resync(r) PROVE SendInv'
  BY <1>10 DEF Resync, NextAttempt, Answer
<1>11. ASSUME NEW r \in Requests, FetchWinner(r) PROVE SendInv'
  BY <1>11 DEF FetchWinner, AnswerDuplicate, Answer
<1>12. ASSUME NEW r \in Requests, Touch(r) PROVE SendInv'
  BY <1>12 DEF Touch, Go, Hold
<1>13. ASSUME NEW r \in Requests, EmitCreated(r) PROVE SendInv'
  BY <1>13 DEF EmitCreated, Broadcast, Go, Hold
<1>14. ASSUME NEW r \in Requests, Reply(r) PROVE SendInv'
  BY <1>14 DEF Reply, Answer
<1>15. ASSUME NEW r \in Requests, Fail(r) PROVE SendInv'
  BY <1>15 DEF Fail, InFlight, Answer
<1>16. CASE Drift
  BY <1>16 DEF Drift
<1>17. CASE Finished \/ UNCHANGED vars
  BY <1>17 DEF Finished, vars
<1> QED
  BY <1>1, <1>2, <1>3, <1>4, <1>5, <1>6, <1>7, <1>8, <1>9, <1>10, <1>11, <1>12,
     <1>13, <1>14, <1>15, <1>16, <1>17 DEF Next, Step

\* The invariant holds in every reachable state.
LEMMA SendInvAlways == Spec => []SendInv
  BY TypeCorrect, SendInvInit, SendInvNext, PTL DEF Spec

\* An acknowledged message is in the table, under the caller's own key.
THEOREM AcknowledgementIsStored == Spec => []ConfirmedIsStored
<1>1. SendInv => ConfirmedIsStored
  BY DEF SendInv, CallsInv
<1> QED
  BY <1>1, SendInvAlways, PTL

\* Idempotency of clientMessageId: calls with one key are told of one message, and
\* at most one of them that it is new.
THEOREM SendIsIdempotent == Spec => []Idempotent
<1>1. SendInv => Idempotent
  <2> SUFFICES ASSUME SendInv, NEW q \in Requests, NEW r \in Requests,
                      Confirmed(q), Confirmed(r), q # r, cid[q] = cid[r], cid[q] # NoCid
               PROVE  told[q] = told[r] /\ {answer[q], answer[r]} # {"stored"}
    BY DEF Idempotent
  <2>1. PICK m \in messages :
          m.id = told[q] /\ m.cid = cid[q] /\ (answer[q] = "stored" => m.id = q)
    BY DEF SendInv, CallsInv, ConfirmedIsStored
  <2>2. PICK n \in messages :
          n.id = told[r] /\ n.cid = cid[r] /\ (answer[r] = "stored" => n.id = r)
    BY DEF SendInv, CallsInv, ConfirmedIsStored
  <2>3. m = n
    BY <2>1, <2>2 DEF SendInv, RowsInv
  <2> QED
    BY <2>1, <2>2, <2>3
<1> QED
  BY <1>1, SendInvAlways, PTL

-----------------------------------------------------------------------------
(* Without drift no insert collides on seq.                                *)

\* The counter of Redis covers every seq stored or handed out, every seq handed out
\* is handed out once, and while the key is missing nothing has been handed out and
\* whoever is about to seed it has read the present head.
SeqInv ==
  drifts = 0 =>
    /\ counter # NoCounter =>
         /\ \A m \in messages : m.seq <= counter
         /\ \A r \in Requests : pc[r] = "insert" => got[r] <= counter
    /\ counter = NoCounter =>
         \A r \in Requests :
           /\ pc[r] \notin {"incr", "insert"}
           /\ pc[r] = "setNx" => \A m \in messages : m.seq <= got[r]
    /\ \A r \in Requests : pc[r] = "insert" => \A m \in messages : m.seq # got[r]
    /\ \A q, r \in Requests :
         q # r /\ pc[q] = "insert" /\ pc[r] = "insert" => got[q] # got[r]
    /\ \A r \in Requests : pc[r] \notin {"readResync", "resync"}

\* Without drift the counter stays at or above every seq handed out, seeding included.
LEMMA SeqInvNext == TypeOK /\ TypeOK' /\ SeqInv /\ [Next]_vars => SeqInv'
<1> SUFFICES ASSUME TypeOK, TypeOK', SeqInv, [Next]_vars PROVE SeqInv'
  OBVIOUS
<1> USE SendAssumption
    DEF SeqInv, TypeOK, Row, table, calls, history, LocalOnly, WithCid, CidTaken, SeqTaken
<1>1. ASSUME NEW r \in Requests, Arrive(r) PROVE SeqInv'
  BY <1>1 DEF Arrive, Go, Hold
<1>2. ASSUME NEW r \in Requests, Lookup(r) PROVE SeqInv'
  BY <1>2 DEF Lookup, AnswerDuplicate, Answer, Go, Hold
<1>3. ASSUME NEW r \in Requests, Validate(r) PROVE SeqInv'
  BY <1>3 DEF Validate, Answer, Go, Hold
<1>4. ASSUME NEW r \in Requests, CheckKey(r) PROVE SeqInv'
  BY <1>4 DEF CheckKey, Go, Hold
<1>5. ASSUME NEW r \in Requests, ReadSeed(r) PROVE SeqInv'
  BY <1>5 DEF ReadSeed, IsDbMaxSeq, Hold
<1>6. ASSUME NEW r \in Requests, SetNx(r) PROVE SeqInv'
  BY <1>6 DEF SetNx, RedisSetNx, Go, Hold
<1>7. ASSUME NEW r \in Requests, Incr(r) PROVE SeqInv'
  BY <1>7 DEF Incr, Hold
<1>8. ASSUME NEW r \in Requests, Insert(r) PROVE SeqInv'
  BY <1>8 DEF Insert, Stored, LostCidRace, SeqCollision, Go, Hold
<1>9. ASSUME NEW r \in Requests, ReadResync(r) PROVE SeqInv'
  BY <1>9 DEF ReadResync, Hold
<1>10. ASSUME NEW r \in Requests, Resync(r) PROVE SeqInv'
  BY <1>10 DEF Resync, NextAttempt, Answer
<1>11. ASSUME NEW r \in Requests, FetchWinner(r) PROVE SeqInv'
  BY <1>11 DEF FetchWinner, AnswerDuplicate, Answer
<1>12. ASSUME NEW r \in Requests, Touch(r) PROVE SeqInv'
  BY <1>12 DEF Touch, Go, Hold
<1>13. ASSUME NEW r \in Requests, EmitCreated(r) PROVE SeqInv'
  BY <1>13 DEF EmitCreated, Go, Hold
<1>14. ASSUME NEW r \in Requests, Reply(r) PROVE SeqInv'
  BY <1>14 DEF Reply, Answer
<1>15. ASSUME NEW r \in Requests, Fail(r) PROVE SeqInv'
  BY <1>15 DEF Fail, InFlight, Answer
<1>16. CASE Drift
  BY <1>16 DEF Drift
<1>17. CASE Finished \/ UNCHANGED vars
  BY <1>17 DEF Finished, vars
<1> QED
  BY <1>1, <1>2, <1>3, <1>4, <1>5, <1>6, <1>7, <1>8, <1>9, <1>10, <1>11, <1>12,
     <1>13, <1>14, <1>15, <1>16, <1>17 DEF Next, Step

\* As long as Redis keeps the counter, seeding it is safe for any number of nodes
\* and no call ever resyncs it.
THEOREM SeedingIsSafe == Spec => []NoCollisionWithoutDrift
<1>1. Init => SeqInv
  BY SendAssumption DEF Init, SeqInv
<1>2. SeqInv => NoCollisionWithoutDrift
  BY DEF SeqInv, NoCollisionWithoutDrift
<1> QED
  BY <1>1, <1>2, SeqInvNext, TypeCorrect, PTL DEF Spec

-----------------------------------------------------------------------------
(* One resync is enough for a call that is alone.                          *)

\* A call that nothing has disturbed is the only one in flight.  It collides in its
\* first attempt or not at all: what it reads for its resync is still the head when
\* it sets it, so its second attempt starts from a counter that covers the table.
LoneInv ==
  /\ \A r \in Requests : pc[r] = "idle" => attempt[r] = 0
  /\ \A r \in InFlight \ disturbed :
       /\ InFlight = {r}
       /\ attempt[r] <= 1
       /\ pc[r] \in {"readResync", "resync"} => attempt[r] = 0
       /\ pc[r] = "resync" => \A m \in messages : m.seq <= got[r]
       /\ attempt[r] = 1 => /\ counter # NoCounter
                            /\ \A m \in messages : m.seq <= counter
       /\ attempt[r] = 1 /\ pc[r] = "insert" =>
            got[r] <= counter /\ \A m \in messages : m.seq < got[r]
  /\ LoneCallRecovers

\* A call nobody disturbs that resyncs takes, in its next attempt, a seq that is free.
LEMMA LoneInvNext == TypeOK /\ TypeOK' /\ LoneInv /\ [Next]_vars => LoneInv'
<1> SUFFICES ASSUME TypeOK, TypeOK', LoneInv, [Next]_vars PROVE LoneInv'
  OBVIOUS
<1> USE SendAssumption
    DEF LoneInv, LoneCallRecovers, InFlight, TypeOK, Row, Answers, table, calls, history,
        LocalOnly, SeqTaken
<1>1. ASSUME NEW r \in Requests, Arrive(r) PROVE LoneInv'
  BY <1>1 DEF Arrive, Go, Hold
<1>2. ASSUME NEW r \in Requests, Lookup(r) PROVE LoneInv'
  BY <1>2 DEF Lookup, AnswerDuplicate, Answer, Go, Hold
<1>3. ASSUME NEW r \in Requests, Validate(r) PROVE LoneInv'
  BY <1>3 DEF Validate, Answer, Go, Hold
<1>4. ASSUME NEW r \in Requests, CheckKey(r) PROVE LoneInv'
  BY <1>4 DEF CheckKey, Go, Hold
<1>5. ASSUME NEW r \in Requests, ReadSeed(r) PROVE LoneInv'
  BY <1>5 DEF ReadSeed, Hold
<1>6. ASSUME NEW r \in Requests, SetNx(r) PROVE LoneInv'
  BY <1>6 DEF SetNx, RedisSetNx, Go, Hold
<1>7. ASSUME NEW r \in Requests, Incr(r) PROVE LoneInv'
  BY <1>7 DEF Incr, Hold
<1>8. ASSUME NEW r \in Requests, Insert(r) PROVE LoneInv'
  BY <1>8 DEF Insert, Stored, LostCidRace, SeqCollision, Go, Hold
<1>9. ASSUME NEW r \in Requests, ReadResync(r) PROVE LoneInv'
  BY <1>9 DEF ReadResync, IsDbMaxSeq, Hold
<1>10. ASSUME NEW r \in Requests, Resync(r) PROVE LoneInv'
  BY <1>10 DEF Resync, RedisSet, LastAttempt, NextAttempt, Answer
<1>11. ASSUME NEW r \in Requests, FetchWinner(r) PROVE LoneInv'
  BY <1>11 DEF FetchWinner, AnswerDuplicate, Answer
<1>12. ASSUME NEW r \in Requests, Touch(r) PROVE LoneInv'
  BY <1>12 DEF Touch, Go, Hold
<1>13. ASSUME NEW r \in Requests, EmitCreated(r) PROVE LoneInv'
  BY <1>13 DEF EmitCreated, Go, Hold
<1>14. ASSUME NEW r \in Requests, Reply(r) PROVE LoneInv'
  BY <1>14 DEF Reply, Answer
<1>15. ASSUME NEW r \in Requests, Fail(r) PROVE LoneInv'
  BY <1>15 DEF Fail, Answer
<1>16. CASE Drift
  BY <1>16 DEF Drift
<1>17. CASE Finished \/ UNCHANGED vars
  BY <1>17 DEF Finished, vars
<1> QED
  BY <1>1, <1>2, <1>3, <1>4, <1>5, <1>6, <1>7, <1>8, <1>9, <1>10, <1>11, <1>12,
     <1>13, <1>14, <1>15, <1>16, <1>17 DEF Next, Step

\* One resync repairs a lost or rewound counter for a call that is alone: it never
\* ends in CONFLICT, for any SEQ_RETRY above 1.
THEOREM ResyncRecovers == Spec => []LoneCallRecovers
<1>1. Init => LoneInv
  BY SendAssumption DEF Init, LoneInv, LoneCallRecovers, InFlight
<1>2. LoneInv => LoneCallRecovers
  BY DEF LoneInv
<1> QED
  BY <1>1, <1>2, LoneInvNext, TypeCorrect, PTL DEF Spec

-----------------------------------------------------------------------------
(* createMessage implements MessageLog.                                    *)

\* The names of the mapped state.
StoredIds == {m.id : m \in messages} \ {NoMessage}
AnnouncedIds == {e.msg : e \in announced}
PhaseOf == [r \in Requests |-> AbstractPhase(pc[r])]
OutcomeOf == [r \in Requests |-> [verdict |-> AbstractVerdict(answer[r]), msg |-> told[r]]]

\* The phase of a call in MessageLog is that of its point.
LEMMA PhaseAt ==
  ASSUME pc \in [Requests -> Points], NEW r \in Requests, NEW p \in Points,
         pc' = [pc EXCEPT ![r] = p]
  PROVE  PhaseOf' = [PhaseOf EXCEPT ![r] = AbstractPhase(p)]
  BY DEF PhaseOf

\* A step from a point to another of the same phase is a stutter of MessageLog.
LEMMA Stutter ==
  ASSUME pc \in [Requests -> Points], NEW r \in Requests, NEW p \in Points,
         pc' = [pc EXCEPT ![r] = p], AbstractPhase(p) = AbstractPhase(pc[r]),
         UNCHANGED <<messages, announced, cid, answer, told>>
  PROVE  UNCHANGED Log!logVars
  BY DEF Log!logVars

\* An answer is an outcome of MessageLog.
LEMMA AnswerMaps ==
  ASSUME TypeOK, NEW r \in Requests, NEW a \in Answers, NEW m, Answer(r, a, m),
         UNCHANGED <<messages, announced>>
  PROVE  Log!Finish(r, AbstractVerdict(a), m)
<1>1. PhaseOf' = [PhaseOf EXCEPT ![r] = "answered"]
  BY DEF TypeOK, Answer, Points, PhaseOf, AbstractPhase
<1>2. OutcomeOf' = [OutcomeOf EXCEPT ![r] = [verdict |-> AbstractVerdict(a), msg |-> m]]
  BY DEF TypeOK, Answer, OutcomeOf
<1>3. UNCHANGED cid
  BY DEF Answer
<1> QED
  BY <1>1, <1>2, <1>3 DEF Log!Finish, PhaseOf, OutcomeOf

\* The initial states of createMessage are initial states of MessageLog.
LEMMA RefinesInit == Init => Log!LogInit
  BY DEF Init, Log!LogInit, Log!NoOutcome, AbstractPhase, AbstractVerdict

\* Every step of createMessage is a step of MessageLog or a stutter.
LEMMA RefinesNext == SendInv /\ [Next]_vars => [Log!LogNext]_(Log!logVars)
<1> SUFFICES ASSUME SendInv, [Next]_vars
             PROVE  Log!LogNext \/ UNCHANGED Log!logVars
  OBVIOUS
<1> DEFINE Maps == Log!LogNext \/ UNCHANGED Log!logVars
<1>a. pc \in [Requests -> Points]
  BY DEF SendInv, TypeOK
<1>1. ASSUME NEW r \in Requests, Arrive(r) PROVE Maps
  <2>1. PICK c \in Cids \cup {NoCid} : cid' = [cid EXCEPT ![r] = c]
    BY <1>1 DEF Arrive, Go, Hold, SendInv, TypeOK
  <2>2. PhaseOf[r] = "new" /\ PhaseOf' = [PhaseOf EXCEPT ![r] = "working"]
    BY <1>1, <1>a DEF Arrive, Go, Hold, PhaseOf, AbstractPhase
  <2>3. UNCHANGED <<messages, announced, answer, told>>
    BY <1>1 DEF Arrive, Go, Hold, table
  <2>4. Log!Submit(r)
    BY <2>1, <2>2, <2>3 DEF Log!Submit, PhaseOf
  <2> QED
    BY <2>4 DEF Log!LogNext
<1>2. ASSUME NEW r \in Requests, AnswerDuplicate(r), pc[r] \in {"lookup", "winner"},
             LocalOnly
      PROVE  Maps
  <2>1. PICK m \in WithCid(cid[r]) : Answer(r, "duplicate", m.id)
    BY <1>2 DEF AnswerDuplicate
  <2>2. m.id \in StoredIds /\ cid[m.id] = cid[r] /\ cid[r] # NoCid
    BY DEF StoredIds, WithCid, SendInv, RowsInv
  <2>3. Log!Finish(r, "duplicate", m.id)
    BY <2>1, <1>2, AnswerMaps DEF SendInv, LocalOnly, table, Answers, AbstractVerdict
  <2>4. PhaseOf[r] = "working"
    BY <1>2 DEF PhaseOf, AbstractPhase
  <2>5. Log!ConfirmDuplicate(r)
    BY <2>2, <2>3, <2>4 DEF Log!ConfirmDuplicate, Log!SameKey, StoredIds, PhaseOf
  <2> QED
    BY <2>5 DEF Log!LogNext
<1>3. ASSUME NEW r \in Requests, NEW a \in {"invalid", "conflict"},
             Answer(r, a, NoMessage), AbstractPhase(pc[r]) = "working",
             UNCHANGED <<messages, announced>>
      PROVE  Maps
  <2>1. Log!Finish(r, "refused", NoMessage)
    BY <1>3, AnswerMaps DEF SendInv, Answers, AbstractVerdict
  <2>2. Log!Refuse(r)
    BY <1>3, <2>1 DEF Log!Refuse
  <2> QED
    BY <2>2 DEF Log!LogNext
<1>4. ASSUME NEW r \in Requests, Answer(r, "error", NoMessage),
             AbstractPhase(pc[r]) \in {"working", "stored"}, UNCHANGED <<messages, announced>>
      PROVE  Maps
  <2>1. Log!Finish(r, "failed", NoMessage)
    BY <1>4, AnswerMaps DEF SendInv, Answers, AbstractVerdict
  <2>2. Log!Break(r)
    BY <1>4, <2>1 DEF Log!Break
  <2> QED
    BY <2>2 DEF Log!LogNext
<1>5. ASSUME NEW r \in Requests, Lookup(r) \/ Validate(r) \/ FetchWinner(r) PROVE Maps
  <2>1. CASE (Lookup(r) \/ FetchWinner(r)) /\ AnswerDuplicate(r)
    BY <1>2, <2>1 DEF Lookup, FetchWinner
  <2>2. CASE Lookup(r) /\ Go(r, "validate")
    BY <1>a, <2>2, Stutter DEF Lookup, Go, Hold, LocalOnly, table, AbstractPhase, Points
  <2>3. CASE Validate(r) /\ Go(r, "exists")
    BY <1>a, <2>3, Stutter DEF Validate, Go, Hold, LocalOnly, table, AbstractPhase, Points
  <2>4. CASE Validate(r) /\ Answer(r, "invalid", NoMessage)
    BY <1>3, <2>4 DEF Validate, LocalOnly, table, AbstractPhase
  <2> QED
    BY <1>5, <2>1, <2>2, <2>3, <2>4 DEF Lookup, Validate, FetchWinner
<1>6. ASSUME NEW r \in Requests, CheckKey(r) \/ ReadSeed(r) \/ SetNx(r) \/ Incr(r)
                                 \/ ReadResync(r) \/ Touch(r)
      PROVE  Maps
  <2>1. PICK p \in Points : /\ pc' = [pc EXCEPT ![r] = p]
                            /\ AbstractPhase(p) = AbstractPhase(pc[r])
    BY <1>6 DEF CheckKey, ReadSeed, SetNx, Incr, ReadResync, Touch, Go, Hold,
                AbstractPhase, Points
  <2>2. UNCHANGED <<messages, announced, cid, answer, told>>
    BY <1>6 DEF CheckKey, ReadSeed, SetNx, Incr, ReadResync, Touch, Go, Hold,
                LocalOnly, table
  <2> QED
    BY <1>a, <2>1, <2>2, Stutter
<1>7. ASSUME NEW r \in Requests, Resync(r) PROVE Maps
  <2>1. CASE Answer(r, "conflict", NoMessage)
    BY <1>3, <1>7, <2>1 DEF Resync, table, AbstractPhase
  <2>2. CASE NextAttempt(r)
    BY <1>7, <1>a, <2>2, Stutter DEF Resync, NextAttempt, table, AbstractPhase, Points
  <2> QED
    BY <1>7, <2>1, <2>2 DEF Resync
<1>8. ASSUME NEW r \in Requests, Insert(r) PROVE Maps
  <2>1. CASE LostCidRace(r) \/ SeqCollision(r)
    BY <1>8, <1>a, <2>1, Stutter
    DEF Insert, LostCidRace, SeqCollision, Go, Hold, AbstractPhase, Points
  <2>2. CASE Stored(r)
    <3> DEFINE row == [id |-> r, seq |-> got[r], cid |-> cid[r], createdAt |-> inserts + 1]
    <3>a. messages' = messages \cup {row} /\ row.id = r
      BY <2>2 DEF Stored
    <3> HIDE DEF row
    <3>1. StoredIds' = StoredIds \cup {r}
      BY <3>a, SendAssumption DEF StoredIds
    <3>2. PhaseOf[r] = "working" /\ PhaseOf' = [PhaseOf EXCEPT ![r] = "stored"]
      BY <1>8, <2>2, <1>a DEF Insert, Stored, Go, Hold, PhaseOf, AbstractPhase
    <3>3. ASSUME NEW q \in StoredIds PROVE ~(cid[q] = cid[r] /\ cid[r] # NoCid)
      BY <2>2 DEF Stored, CidTaken, WithCid, StoredIds, SendInv, RowsInv
    <3>4. UNCHANGED <<announced, cid, answer, told>>
      BY <1>8, <2>2 DEF Insert, Stored, Go, Hold
    <3>5. Log!Store(r)
      BY <3>1, <3>2, <3>3, <3>4 DEF Log!Store, Log!SameKey, StoredIds, PhaseOf
    <3> QED
      BY <3>5 DEF Log!LogNext
  <2> QED
    BY <1>8, <2>1, <2>2 DEF Insert
<1>9. ASSUME NEW r \in Requests, EmitCreated(r) PROVE Maps
  <2> DEFINE event == [by |-> r, msg |-> r]
  <2>a. announced' = announced \cup {event} /\ event.msg = r
    BY <1>9 DEF EmitCreated, Broadcast
  <2>b. r \notin AnnouncedIds
    BY <1>9 DEF EmitCreated, AnnouncedIds, SendInv, BroadcastInv
  <2> HIDE DEF event
  <2>1. AnnouncedIds' = AnnouncedIds \cup {r} /\ r \notin AnnouncedIds
    BY <2>a, <2>b DEF AnnouncedIds
  <2>2. PhaseOf[r] = "stored" /\ PhaseOf' = PhaseOf
    BY <1>9, <1>a DEF EmitCreated, Go, Hold, PhaseOf, AbstractPhase
  <2>3. UNCHANGED <<messages, cid, answer, told>>
    BY <1>9 DEF EmitCreated, Go, Hold, table
  <2>4. Log!Announce(r)
    BY <2>1, <2>2, <2>3 DEF Log!Announce, AnnouncedIds, PhaseOf
  <2> QED
    BY <2>4 DEF Log!LogNext
<1>10. ASSUME NEW r \in Requests, Reply(r) PROVE Maps
  <2>1. r \in AnnouncedIds
    BY <1>10 DEF Reply, AnnouncedIds, SendInv, BroadcastInv
  <2>2. Log!Finish(r, "stored", r)
    BY <1>10, AnswerMaps DEF Reply, SendInv, LocalOnly, table, Answers, AbstractVerdict
  <2>3. PhaseOf[r] = "stored"
    BY <1>10 DEF Reply, PhaseOf, AbstractPhase
  <2>4. Log!Confirm(r)
    BY <2>1, <2>2, <2>3 DEF Log!Confirm, AnnouncedIds, PhaseOf
  <2> QED
    BY <2>4 DEF Log!LogNext
<1>11. ASSUME NEW r \in Requests, Fail(r) PROVE Maps
  <2>1. AbstractPhase(pc[r]) \in {"working", "stored"}
    BY <1>11 DEF Fail, InFlight, AbstractPhase
  <2> QED
    BY <1>4, <1>11, <2>1 DEF Fail, table
<1>12. CASE Drift \/ Finished \/ UNCHANGED vars
  BY <1>12 DEF Drift, Finished, vars, table, calls, Log!logVars
<1> QED
  BY <1>1, <1>5, <1>6, <1>7, <1>8, <1>9, <1>10, <1>11, <1>12 DEF Next, Step

\* createMessage keeps the promise of MessageLog.
THEOREM SendImplementsLog == Spec => ImplementsLog
  BY RefinesInit, RefinesNext, SendInvAlways, PTL DEF Spec, ImplementsLog, Log!LogSpec

-----------------------------------------------------------------------------
(***************************************************************************)
(* Paging: what a scroll to the end has listed, and what it may list       *)
(* twice.                                                                  *)
(***************************************************************************)

-----------------------------------------------------------------------------
(* One page.                                                               *)

\* A page is made of candidates, and leaves some out only when it has a cursor, which no row
\* of the page is below and no row left out is above.
LEMMA PageFacts ==
  ASSUME key \in [Rows -> Keys], NEW C \in SUBSET Rows, NEW P \in Pages(C),
         NextCursor(P, C)
  PROVE  /\ P \subseteq C
         /\ cursor' \in Keys
         /\ P = C \/ /\ \E j \in P : key[j] = cursor'
                     /\ \A i \in C \ P : key[i] <= cursor'
         /\ cursor' # 0 => /\ \E j \in P : key[j] = cursor'
                           /\ \A j \in P : cursor' <= key[j]
<1>1. P \in SUBSET C /\ Cardinality(P) = PageSize(C) /\ Latest(P, C)
  BY DEF Pages
<1>2. IsFiniteSet(C) /\ Cardinality(C) \in Nat
  <2>1. IsFiniteSet(C)
    BY FS_Subset, PagingAssumption
  <2> QED
    BY <2>1, FS_CardinalityType
<1>3. CASE HasMore(C)
  <2>1. cursor' \in {key[i] : i \in P} /\ \A j \in P : cursor' <= key[j]
    BY <1>3 DEF NextCursor, Oldest
  <2>2. PICK j \in P : key[j] = cursor'
    BY <2>1
  <2>3. \A i \in C \ P : key[i] <= cursor'
    BY <1>1, <2>2 DEF Latest
  <2>4. cursor' \in Keys
    BY <1>1, <2>2
  <2> QED
    BY <1>1, <2>1, <2>2, <2>3, <2>4
<1>4. CASE ~HasMore(C)
  <2>1. Cardinality(C) <= Limit
    BY <1>2, <1>4, PagingAssumption DEF HasMore
  <2>2. Cardinality(P) = Cardinality(C)
    BY <1>1, <2>1 DEF PageSize
  <2>3. P = C
    BY <1>1, <1>2, <2>2, FS_Subset
  <2>4. cursor' = 0 /\ cursor' \in Keys
    BY <1>4, PagingAssumption DEF NextCursor, Keys
  <2> QED
    BY <2>3, <2>4
<1> QED
  BY <1>3, <1>4

-----------------------------------------------------------------------------
(* Types.                                                                  *)

LEMMA TypesNext == ScrollTypeOK /\ [ScrollNext]_scrollVars => ScrollTypeOK'
<1> SUFFICES ASSUME ScrollTypeOK, [ScrollNext]_scrollVars PROVE ScrollTypeOK'
  OBVIOUS
<1> USE DEF ScrollTypeOK
<1>1. ASSUME NEW i \in Rows, StoreMessage(i) PROVE ScrollTypeOK'
  <2>1. PICK s \in Keys \ {0} : SeqFree(s) /\ key' = [key EXCEPT ![i] = s]
    BY <1>1 DEF StoreMessage
  <2>2. UniqueSeqs(key)'
    BY <1>1, <2>1 DEF StoreMessage, SeqFree, UniqueSeqs
  <2> QED
    BY <1>1, <2>1, <2>2 DEF StoreMessage, client, scrollHistory
<1>2. ASSUME NEW i \in Rows, EnterRoom(i) PROVE ScrollTypeOK'
  BY <1>2 DEF EnterRoom, client, scrollHistory
<1>3. ASSUME NEW i \in Rows, LeaveRoom(i) PROVE ScrollTypeOK'
  BY <1>3 DEF LeaveRoom, client
<1>4. ASSUME NEW i \in Rows, TouchRoom(i) PROVE ScrollTypeOK'
  <2>1. PICK t \in Keys \ {0} : t <= now' /\ key' = [key EXCEPT ![i] = t]
    BY <1>4 DEF TouchRoom
  <2>2. now' \in Keys /\ now <= now'
    BY <1>4, PagingAssumption DEF TouchRoom, Keys
  <2>3. \A j \in Rows : key'[j] <= now'
    BY <1>4, <2>1, <2>2, PagingAssumption DEF TouchRoom, Keys
  <2> QED
    BY <1>4, <2>1, <2>2, <2>3 DEF TouchRoom, client
<1>5. ASSUME Load PROVE ScrollTypeOK'
  <2>1. Candidates \in SUBSET Rows
    BY DEF Candidates, Below
  <2>2. PICK P \in Pages(Candidates) : /\ NextCursor(P, Candidates)
                                       /\ listed' = listed \cup P
                                       /\ twice' = twice \cup (listed \cap P)
    BY <1>5 DEF Load
  <2>3. P \subseteq Candidates /\ cursor' \in Keys
    BY <2>1, <2>2, PageFacts
  <2>4. listing' = listing /\ rows' = rows
    BY <1>5 DEF Load
  <2>5. UniqueSeqs(key)' <=> UniqueSeqs(key)
    BY <2>4 DEF UniqueSeqs, rows
  <2>6. cursors' \subseteq Keys
    BY <1>5, <2>3 DEF Load
  <2> QED
    BY <1>5, <2>1, <2>2, <2>3, <2>4, <2>5, <2>6 DEF Load, rows
<1>6. CASE UNCHANGED scrollVars
  BY <1>6 DEF scrollVars, rows, client, scrollHistory, UniqueSeqs
<1> QED
  BY <1>1, <1>2, <1>3, <1>4, <1>5, <1>6 DEF ScrollNext, Rest

LEMMA TypesAtStart == ScrollInit => ScrollTypeOK
  BY PagingAssumption DEF ScrollInit, ScrollTypeOK, Keys

\* The type invariant, with the unique seqs: message rows keep the index (roomId, seq), and
\* cursors are keys, for any rows, page size and bounds.
THEOREM ScrollTypeCorrect == ScrollSpec => []ScrollTypeOK
  BY TypesAtStart, TypesNext, PTL DEF ScrollSpec

-----------------------------------------------------------------------------
(* What a scroll has listed, and what is still below its cursor.           *)

\* A row that was there at the first page, has not moved and is not listed yet is below the
\* cursor, or was lost to a tie with one or to a null.
StillBelow(i) == scroll = "next" /\ key[i] < cursor
Lost(i) == key[i] = 0 \/ key[i] \in cursors

CoverInv ==
  /\ scroll = "first" => cursors = {} /\ listed = {} /\ twice = {} /\ start = {}
  /\ start \ moved \subseteq present
  /\ \A i \in start \ (listed \cup moved) : Lost(i) \/ StillBelow(i)
  /\ scroll = "next" => \A i \in listed \ back : cursor <= key[i]
  /\ twice \subseteq back

\* A message that was listed keeps its key, and every cursor is the key of one.
MessagesInv ==
  listing = "messages" =>
    /\ listed \subseteq present
    /\ moved = {}
    /\ \A k \in cursors : \E j \in listed : key[j] = k

ScrollInv == ScrollTypeOK /\ CoverInv /\ MessagesInv

LEMMA CoverAtStart == ScrollInit => CoverInv /\ MessagesInv
  BY DEF ScrollInit, CoverInv, MessagesInv

\* A page takes the latest of what is below the cursor: what it leaves is below its own, or
\* ties with it, and what it has listed before is not below the cursor unless it was put back.
LEMMA LoadCovers == ScrollInv /\ Load => CoverInv' /\ MessagesInv'
<1> SUFFICES ASSUME ScrollInv, Load PROVE CoverInv' /\ MessagesInv'
  OBVIOUS
<1> USE DEF ScrollInv
<1>1. /\ key' = key /\ present' = present /\ listing' = listing
      /\ key \in [Rows -> Keys] /\ present \subseteq Rows /\ listed \subseteq Rows
      /\ cursor \in Keys /\ Keys \subseteq Nat
  BY DEF Load, rows, ScrollTypeOK, Keys
<1>2. Candidates \in SUBSET Rows
  BY <1>1 DEF Candidates, Below
<1>3. PICK P \in Pages(Candidates) : /\ NextCursor(P, Candidates)
                                     /\ listed' = listed \cup P
                                     /\ twice' = twice \cup (listed \cap P)
  BY DEF Load
<1>4. /\ P \subseteq Candidates
      /\ cursor' \in Keys
      /\ P = Candidates \/ /\ \E j \in P : key[j] = cursor'
                           /\ \A i \in Candidates \ P : key[i] <= cursor'
      /\ cursor' # 0 => /\ \E j \in P : key[j] = cursor'
                        /\ \A j \in P : cursor' <= key[j]
  BY <1>1, <1>2, <1>3, PageFacts
<1>5. Candidates \subseteq present
  BY DEF Candidates, Below
<1>6. /\ scroll = "first" => start' = present /\ moved' = {} /\ back' = {}
      /\ scroll # "first" => start' = start /\ moved' = moved /\ back' = back
      /\ cursor' = 0 => scroll' = "end" /\ cursors' = cursors
      /\ cursor' # 0 => scroll' = "next" /\ cursors' = cursors \cup {cursor'}
  BY DEF Load
<1>7. scroll \in {"first", "next"}
  BY DEF Load, ScrollTypeOK
<1>8. start' \ moved' \subseteq present'
  BY <1>1, <1>6, <1>7 DEF CoverInv
<1>9. ASSUME NEW i \in start' \ (listed' \cup moved') PROVE Lost(i)' \/ StillBelow(i)'
  <2>1. i \in present /\ i \notin P /\ i \in Rows /\ key[i] \in Nat
    BY <1>1, <1>3, <1>8, <1>9
  <2>2. i \in Candidates \/ Lost(i)
    <3>1. CASE scroll = "first"
      BY <2>1, <3>1 DEF Candidates
    <3>2. CASE scroll = "next"
      <4>1. Lost(i) \/ StillBelow(i)
        BY <1>3, <1>6, <1>9, <3>2 DEF CoverInv
      <4> QED
        BY <2>1, <3>2, <4>1 DEF Candidates, Below, Lost, StillBelow
    <3> QED
      BY <1>7, <3>1, <3>2
  <2>3. CASE Lost(i)
    BY <1>1, <1>6, <2>3 DEF Lost
  <2>4. CASE i \in Candidates
    <3>1. key[i] <= cursor'
      BY <1>4, <2>1, <2>4
    <3>2. CASE cursor' = 0
      BY <1>1, <2>1, <3>1, <3>2 DEF Lost
    <3>3. CASE cursor' # 0
      BY <1>1, <1>4, <1>6, <2>1, <3>1, <3>3 DEF Lost, StillBelow
    <3> QED
      BY <3>2, <3>3
  <2> QED
    BY <2>2, <2>3, <2>4
<1>10. scroll = "next" => \A i \in P : i \in listed => i \in back
  <2> SUFFICES ASSUME scroll = "next", NEW i \in P, i \in listed, i \notin back PROVE FALSE
    OBVIOUS
  <2>1. key[i] < cursor /\ key[i] \in Nat
    BY <1>1, <1>4, <1>2 DEF Candidates, Below
  <2>2. cursor <= key[i]
    BY DEF CoverInv
  <2> QED
    BY <1>1, <2>1, <2>2
<1>11. twice' \subseteq back'
  <2>1. CASE scroll = "first"
    BY <1>3, <1>6, <2>1 DEF CoverInv
  <2>2. CASE scroll = "next"
    BY <1>3, <1>6, <1>10, <2>2 DEF CoverInv
  <2> QED
    BY <1>7, <2>1, <2>2
<1>12. scroll' = "next" => \A i \in listed' \ back' : cursor' <= key'[i]
  <2> SUFFICES ASSUME scroll' = "next", NEW i \in listed', i \notin back' PROVE cursor' <= key[i]
    BY <1>1
  <2>1. cursor' # 0
    BY <1>6
  <2>2. CASE i \in P
    BY <1>4, <2>1, <2>2
  <2>3. CASE i \notin P
    <3>1. i \in listed /\ scroll = "next" /\ i \notin back
      BY <1>3, <1>6, <1>7, <2>3 DEF CoverInv
    <3>2. cursor <= key[i] /\ key[i] \in Nat
      BY <1>1, <3>1 DEF CoverInv
    <3>3. cursor' < cursor
      <4>1. PICK j \in P : cursor' <= key[j]
        BY <1>4, <2>1
      <4>2. j \in Rows /\ key[j] < cursor /\ key[j] \in Nat
        BY <1>1, <1>2, <1>4, <3>1 DEF Candidates, Below
      <4> QED
        BY <1>1, <1>4, <4>1, <4>2
    <3> QED
      BY <1>1, <1>4, <3>2, <3>3
  <2> QED
    BY <2>2, <2>3
<1>13. CoverInv'
  BY <1>6, <1>8, <1>9, <1>11, <1>12, <1>7 DEF CoverInv
<1>14. MessagesInv'
  <2> SUFFICES ASSUME listing = "messages"
               PROVE  /\ listed' \subseteq present'
                      /\ moved' = {}
                      /\ \A k \in cursors' : \E j \in listed' : key'[j] = k
    BY <1>1 DEF MessagesInv
  <2>1. listed \subseteq present /\ moved = {} /\ \A k \in cursors : \E j \in listed : key[j] = k
    BY DEF MessagesInv
  <2>2. listed' \subseteq present' /\ moved' = {}
    BY <1>1, <1>3, <1>4, <1>5, <1>6, <2>1
  <2>3. cursor' # 0 => \E j \in P : key[j] = cursor'
    BY <1>4
  <2> QED
    BY <1>1, <1>3, <1>6, <2>1, <2>2, <2>3
<1> QED
  BY <1>13, <1>14

\* Between pages a message takes a seq that was free, wherever it is, and a room that moves is
\* noted.
LEMMA ChangesCover ==
  ASSUME ScrollInv, NEW i \in Rows,
         StoreMessage(i) \/ EnterRoom(i) \/ LeaveRoom(i) \/ TouchRoom(i)
  PROVE  CoverInv' /\ MessagesInv'
<1> USE DEF ScrollInv
<1>1. /\ scroll' = scroll /\ cursor' = cursor /\ listed' = listed /\ cursors' = cursors
      /\ twice' = twice /\ start' = start /\ listing' = listing
  BY DEF StoreMessage, EnterRoom, LeaveRoom, TouchRoom, client, scrollHistory
<1>2. CASE StoreMessage(i)
  <2>1. /\ i \notin present /\ present' = present \cup {i} /\ moved' = moved /\ back' = back
        /\ \A j \in Rows : j # i => key'[j] = key[j]
    BY <1>2 DEF StoreMessage, scrollHistory, ScrollTypeOK
  <2>2. listing = "messages" /\ moved = {}
    BY <1>2 DEF StoreMessage, MessagesInv
  <2>3. i \notin listed /\ i \notin start /\ listed \subseteq Rows /\ start \subseteq Rows
    BY <2>1, <2>2 DEF CoverInv, MessagesInv, ScrollTypeOK
  <2>4. CoverInv'
    BY <1>1, <2>1, <2>2, <2>3 DEF CoverInv, Lost, StillBelow
  <2>5. MessagesInv'
    BY <1>1, <2>1, <2>3 DEF MessagesInv
  <2> QED
    BY <2>4, <2>5
<1>3. CASE EnterRoom(i)
  BY <1>1, <1>3 DEF EnterRoom, scrollHistory, CoverInv, MessagesInv, Lost, StillBelow
<1>4. CASE LeaveRoom(i)
  BY <1>1, <1>4 DEF LeaveRoom, CoverInv, MessagesInv, Lost, StillBelow
<1>5. CASE TouchRoom(i)
  <2>1. /\ listing = "rooms" /\ present' = present /\ moved' = moved \cup {i}
        /\ back' = IF key'[i] < key[i] THEN back \cup {i} ELSE back
        /\ \A j \in Rows : j # i => key'[j] = key[j]
        /\ key[i] \in Nat /\ key'[i] \in Nat /\ cursor \in Nat
        /\ listed \subseteq Rows /\ start \subseteq Rows
    BY <1>5 DEF TouchRoom, ScrollTypeOK, Keys
  <2>2. \A j \in start \ (listed \cup moved') : (Lost(j) \/ StillBelow(j))'
    BY <1>1, <2>1 DEF CoverInv, Lost, StillBelow
  <2>3. scroll = "next" => \A j \in listed \ back' : cursor <= key'[j]
    <3> SUFFICES ASSUME scroll = "next", NEW j \in listed, j \notin back' PROVE cursor <= key'[j]
      OBVIOUS
    <3>1. j \notin back /\ cursor <= key[j]
      BY <2>1 DEF CoverInv
    <3> QED
      BY <2>1, <3>1
  <2>4. CoverInv'
    BY <1>1, <2>1, <2>2, <2>3 DEF CoverInv
  <2>5. MessagesInv'
    BY <1>1, <2>1 DEF MessagesInv
  <2> QED
    BY <2>4, <2>5
<1> QED
  BY <1>2, <1>3, <1>4, <1>5

LEMMA ScrollInvNext == ScrollInv /\ [ScrollNext]_scrollVars => ScrollInv'
<1> SUFFICES ASSUME ScrollInv, [ScrollNext]_scrollVars PROVE ScrollInv'
  OBVIOUS
<1>1. ScrollTypeOK'
  BY TypesNext DEF ScrollInv
<1>2. CASE \E i \in Rows : StoreMessage(i) \/ EnterRoom(i) \/ LeaveRoom(i) \/ TouchRoom(i)
  BY <1>1, <1>2, ChangesCover DEF ScrollInv
<1>3. CASE Load
  BY <1>1, <1>3, LoadCovers DEF ScrollInv
<1>4. CASE UNCHANGED scrollVars
  BY <1>1, <1>4 DEF ScrollInv, CoverInv, MessagesInv, Lost, StillBelow, scrollVars, rows, client,
     scrollHistory
<1> QED
  BY <1>2, <1>3, <1>4 DEF ScrollNext, Rest

LEMMA ScrollAlways == ScrollSpec => []ScrollInv
<1>1. ScrollInit => ScrollInv
  BY TypesAtStart, CoverAtStart DEF ScrollInv
<1> QED
  BY <1>1, ScrollInvNext, PTL DEF ScrollSpec

-----------------------------------------------------------------------------
\* A client that scrolls down to a null cursor has every message that was stored before its
\* first page, for any history, page size and order of the inserts meanwhile.
THEOREM HistoryComplete == ScrollSpec => []HistoryIsComplete
<1>1. ScrollInv => HistoryIsComplete
  <2> SUFFICES ASSUME ScrollInv, listing = "messages", scroll = "end", NEW i \in start
               PROVE  i \in listed
    BY DEF HistoryIsComplete
  <2>1. moved = {} /\ i \in present /\ listed \subseteq present /\ UniqueSeqs(key)
    BY DEF ScrollInv, CoverInv, MessagesInv, ScrollTypeOK
  <2>2. i \in listed \/ key[i] \in cursors
    BY <2>1 DEF ScrollInv, CoverInv, Lost, StillBelow, UniqueSeqs
  <2>3. ASSUME key[i] \in cursors PROVE i \in listed
    <3>1. PICK j \in listed : key[j] = key[i]
      BY <2>3 DEF ScrollInv, MessagesInv
    <3> QED
      BY <2>1, <3>1 DEF UniqueSeqs
  <2> QED
    BY <2>2, <2>3
<1> QED
  BY <1>1, ScrollAlways, PTL

\* No row comes twice, but a room that was given an earlier time meanwhile.
THEOREM NothingTwice == ScrollSpec => []NoneTwice
<1>1. ScrollInv => NoneTwice
  BY DEF ScrollInv, CoverInv, NoneTwice
<1> QED
  BY <1>1, ScrollAlways, PTL

\* A scroll through the rooms misses none but those that moved, tied with a cursor or have no
\* message.
THEOREM RoomsListed == ScrollSpec => []RoomsAreListed
<1>1. ScrollInv => RoomsAreListed
  BY DEF ScrollInv, CoverInv, RoomsAreListed, Lost, StillBelow
<1> QED
  BY <1>1, ScrollAlways, PTL
=============================================================================
