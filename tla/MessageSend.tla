---------------------------- MODULE MessageSend -----------------------------
(***************************************************************************)
(* MessagesService.createMessage for one room (src/messages): the only     *)
(* place where the program stores a message.  Rooms share nothing here:    *)
(* the Redis counter and both unique constraints are per room.             *)
(*                                                                         *)
(* A call is one request handled by one of any number of nodes.  Between   *)
(* two awaits a handler runs alone; at each await any other handler, of    *)
(* the same node or of another, may run.  So every Redis command and every *)
(* database statement is an action of its own, and pc names the one the    *)
(* call is about to issue.                                                 *)
(***************************************************************************)
EXTENDS Naturals

CONSTANTS
  Requests,     \* the calls of createMessage
  Cids,         \* client message ids
  NoCid,        \* a call without clientMessageId
  EmptyCid,     \* the empty string, a clientMessageId that tests as absent
  NoMessage,    \* null, where a message is expected
  NoCounter,    \* the Redis key room:<id>:seq does not exist
  SeqRetry,     \* SEQ_RETRY
  History,      \* head of the room before the calls modelled here
  MaxDrifts,    \* bound on the times Redis loses or rewinds the counter
  MaxFailures   \* bound on the calls that die half-way

ASSUME SendAssumption ==
  /\ NoCid \notin Cids
  /\ NoMessage \notin Requests
  /\ NoCounter \notin Nat
  /\ SeqRetry \in Nat \ {0, 1}
  /\ History \in Nat
  /\ MaxDrifts \in Nat
  /\ MaxFailures \in Nat

VARIABLES
  messages,       \* table Message, the rows of this room
  inserts,        \* rows inserted so far: the clock createdAt is read from
  lastMessageAt,  \* Room.lastMessageAt, 0 for null
  counter,        \* Redis key room:<id>:seq
  announced,      \* MESSAGE_CREATED events: which call emitted which message
  pc,             \* pc[r]: what call r is about to do
  cid,            \* cid[r]: its clientMessageId
  attempt,        \* attempt[r]: the loop counter of persistWithSeq
  got,            \* got[r]: the head or the seq it last read and still holds
  answer,         \* answer[r]: how it ended for its caller
  told,           \* told[r]: the message in that answer
  drifts,         \* times the counter was lost or rewound
  failures,       \* calls that died
  disturbed       \* calls that did not have the room to themselves (history)

table == <<messages, inserts, lastMessageAt>>
calls == <<pc, cid, attempt, got, answer, told>>
history == <<drifts, failures, disturbed>>
vars == <<table, counter, announced, calls, history>>

-----------------------------------------------------------------------------
(* Rows, calls and their types.                                            *)

\* A row is known by the call that stored it (its primary key); the rows that
\* were there before are known by no call.
Row == [id : Requests \cup {NoMessage}, seq : Nat, cid : Cids \cup {NoCid},
        createdAt : Nat]

Points == {"idle", "lookup", "validate", "exists", "readSeed", "setNx", "incr",
           "insert", "readResync", "resync", "winner", "touch", "emit", "reply",
           "done"}

Answers == {"none", "stored", "duplicate", "invalid", "conflict", "error"}

\* Redis SET NX, and its mutant, a plain SET whose last writer wins.
SetLastWins(n) == counter' = n
RedisSetNx(n) == counter' = IF counter = NoCounter THEN n ELSE counter

\* Redis SET.
RedisSet(n) == counter' = n

InFlight == {r \in Requests : pc[r] \notin {"idle", "done"}}

WithCid(c) == {m \in messages : m.cid = c /\ c # NoCid}
SeqTaken(n) == \E m \in messages : m.seq = n

\* Mutant of CidTaken: no unique index on (roomId, clientMessageId).
NoCidIndex(c) == FALSE

CidTaken(c) == WithCid(c) # {}

\* dbMaxSeq: the aggregate _max.seq of the room, 0 when it has no message.
IsDbMaxSeq(n) ==
  /\ n = 0 \/ SeqTaken(n)
  /\ \A m \in messages : m.seq <= n
DbMaxCandidates == {0} \cup {m.seq : m \in messages}

-----------------------------------------------------------------------------
Init ==
  /\ messages = {[id |-> NoMessage, seq |-> n, cid |-> NoCid, createdAt |-> n] :
                   n \in 1..History}
  /\ inserts = History
  /\ lastMessageAt = History
  /\ counter \in {NoCounter, History}
  /\ announced = {}
  /\ pc = [r \in Requests |-> "idle"]
  /\ cid = [r \in Requests |-> NoCid]
  /\ attempt = [r \in Requests |-> 0]
  /\ got = [r \in Requests |-> 0]
  /\ answer = [r \in Requests |-> "none"]
  /\ told = [r \in Requests |-> NoMessage]
  /\ drifts = 0
  /\ failures = 0
  /\ disturbed = {}

\* Every step below moves one call and leaves the history variables alone.
Hold(r, n, p) ==
  /\ pc' = [pc EXCEPT ![r] = p]
  /\ got' = [got EXCEPT ![r] = n]
  /\ UNCHANGED <<cid, attempt, answer, told>>
Go(r, p) == Hold(r, 0, p)
LocalOnly == UNCHANGED <<table, counter, announced, history>>

\* The handler returns or throws: its locals are gone, the caller has its answer.
Answer(r, a, m) ==
  /\ pc' = [pc EXCEPT ![r] = "done"]
  /\ attempt' = [attempt EXCEPT ![r] = 0]
  /\ got' = [got EXCEPT ![r] = 0]
  /\ answer' = [answer EXCEPT ![r] = a]
  /\ told' = [told EXCEPT ![r] = m]
  /\ UNCHANGED cid

\* Mutant of AnswerDuplicate: the loser answers with the message it failed to insert.
AnswerItself(r) == CidTaken(cid[r]) /\ Answer(r, "duplicate", r)

AnswerDuplicate(r) ==
  \E m \in WithCid(cid[r]) : Answer(r, "duplicate", m.id)

\* A call arrives with its parameters: the lookup is for a clientMessageId that is
\* there and not empty.  A system message comes from the rooms service, without a
\* clientMessageId, and skips every check.
Arrive(r) ==
  /\ pc[r] = "idle"
  /\ \/ \E c \in Cids :
          /\ cid' = [cid EXCEPT ![r] = c]
          /\ pc' = [pc EXCEPT ![r] = IF c = EmptyCid THEN "validate" ELSE "lookup"]
          /\ UNCHANGED <<attempt, got, answer, told>>
     \/ Go(r, "validate")
     \/ Go(r, "exists")
  /\ disturbed' = IF InFlight = {} THEN disturbed
                  ELSE disturbed \cup InFlight \cup {r}
  /\ UNCHANGED <<table, counter, announced, drifts, failures>>

\* The short-circuit on a clientMessageId already stored.
Lookup(r) ==
  /\ pc[r] = "lookup"
  /\ \/ AnswerDuplicate(r)
     \/ ~CidTaken(cid[r]) /\ Go(r, "validate")
  /\ LocalOnly

\* assertActiveMember, validatePayload, assertOwnedMedia, assertReplyTarget: they
\* read what this module does not have, and either all pass or one throws.
Validate(r) ==
  /\ pc[r] = "validate"
  /\ Go(r, "exists") \/ Answer(r, "invalid", NoMessage)
  /\ LocalOnly

-----------------------------------------------------------------------------
(* nextSeq: three commands, or one when the key is there.                  *)

CheckKey(r) ==
  /\ pc[r] = "exists"
  /\ Go(r, IF counter = NoCounter THEN "readSeed" ELSE "incr")
  /\ LocalOnly

ReadSeed(r) ==
  /\ pc[r] = "readSeed"
  /\ \E n \in DbMaxCandidates :
       /\ IsDbMaxSeq(n)
       /\ Hold(r, n, "setNx")
  /\ LocalOnly

SetNx(r) ==
  /\ pc[r] = "setNx"
  /\ RedisSetNx(got[r])
  /\ Go(r, "incr")
  /\ UNCHANGED <<table, announced, history>>

\* INCR of a missing key gives 1.
Incr(r) ==
  /\ pc[r] = "incr"
  /\ LET n == IF counter = NoCounter THEN 1 ELSE counter + 1 IN
       /\ counter' = n
       /\ Hold(r, n, "insert")
  /\ UNCHANGED <<table, announced, history>>

-----------------------------------------------------------------------------
(* persistWithSeq: the insert and its three ways out.                      *)

Stored(r) ==
  /\ ~CidTaken(cid[r])
  /\ ~SeqTaken(got[r])
  /\ messages' = messages \cup {[id |-> r, seq |-> got[r],
                                 cid |-> cid[r], createdAt |-> inserts + 1]}
  /\ inserts' = inserts + 1
  /\ Go(r, "touch")

\* P2002 on (roomId, clientMessageId): null, and the caller fetches the winner.
LostCidRace(r) ==
  /\ CidTaken(cid[r])
  /\ Go(r, "winner")
  /\ UNCHANGED <<messages, inserts>>

\* P2002 on (roomId, seq): resync and go round again.
SeqCollision(r) ==
  /\ SeqTaken(got[r])
  /\ Go(r, "readResync")
  /\ UNCHANGED <<messages, inserts>>

\* When the row breaks both constraints the database reports one of them.
Insert(r) ==
  /\ pc[r] = "insert"
  /\ Stored(r) \/ LostCidRace(r) \/ SeqCollision(r)
  /\ UNCHANGED <<lastMessageAt, counter, announced, history>>

\* resyncSeq: read the head, then SET it, whatever happened in between.
ReadResync(r) ==
  /\ pc[r] = "readResync"
  /\ \E n \in DbMaxCandidates :
       /\ IsDbMaxSeq(n)
       /\ Hold(r, n, "resync")
  /\ LocalOnly

NextAttempt(r) ==
  /\ pc' = [pc EXCEPT ![r] = "exists"]
  /\ attempt' = [attempt EXCEPT ![r] = @ + 1]
  /\ got' = [got EXCEPT ![r] = 0]
  /\ UNCHANGED <<cid, answer, told>>

\* The loop's bound.
LastAttempt(r) == attempt[r] + 1 = SeqRetry

\* The SET, and the loop's test: the last attempt resyncs too before it throws.
Resync(r) ==
  /\ pc[r] = "resync"
  /\ RedisSet(got[r])
  /\ IF LastAttempt(r) THEN Answer(r, "conflict", NoMessage) ELSE NextAttempt(r)
  /\ UNCHANGED <<table, announced, history>>

-----------------------------------------------------------------------------
(* Back in createMessage.                                                  *)

\* existing! is the row that won: without one the call would have no answer.
FetchWinner(r) ==
  /\ pc[r] = "winner"
  /\ AnswerDuplicate(r)
  /\ LocalOnly

Refreshed(m) == m.createdAt

Touch(r) ==
  /\ pc[r] = "touch"
  /\ \E m \in messages : m.id = r /\ lastMessageAt' = Refreshed(m)
  /\ Go(r, "emit")
  /\ UNCHANGED <<messages, inserts, counter, announced, history>>

\* The event, and its mutant that is silent when a newer message refreshed the room.
BroadcastIfLatest(r) ==
  announced' = IF \E m \in messages : m.id = r /\ m.createdAt = lastMessageAt
               THEN announced \cup {[by |-> r, msg |-> r]} ELSE announced
Broadcast(r) == announced' = announced \cup {[by |-> r, msg |-> r]}

\* emitCreated: its three reads are awaited together, then the event is emitted;
\* the gateway broadcasts message:new from it.
EmitCreated(r) ==
  /\ pc[r] = "emit"
  /\ Broadcast(r)
  /\ Go(r, "reply")
  /\ UNCHANGED <<table, counter, history>>

Reply(r) ==
  /\ pc[r] = "reply"
  /\ Answer(r, "stored", r)
  /\ LocalOnly

Step(r) ==
  \/ Lookup(r) \/ Validate(r)
  \/ CheckKey(r) \/ ReadSeed(r) \/ SetNx(r) \/ Incr(r)
  \/ Insert(r) \/ ReadResync(r) \/ Resync(r) \/ FetchWinner(r)
  \/ Touch(r) \/ EmitCreated(r) \/ Reply(r)

-----------------------------------------------------------------------------
(* What the code does not do itself.                                       *)

\* A database or Redis call throws, or the node dies: the rest is not done.
\* What the call had already written stays.
Fail(r) ==
  /\ r \in InFlight
  /\ failures < MaxFailures
  /\ failures' = failures + 1
  /\ Answer(r, "error", NoMessage)
  /\ UNCHANGED <<table, counter, announced, drifts, disturbed>>

\* Redis comes back without the key, or with an older value of it.
Drift ==
  /\ drifts < MaxDrifts
  /\ drifts' = drifts + 1
  /\ counter # NoCounter
  /\ counter' \in {NoCounter} \cup 0..(counter - 1)
  /\ disturbed' = disturbed \cup InFlight
  /\ UNCHANGED <<table, announced, calls, failures>>

\* Nothing is left to do.
Finished ==
  /\ \A r \in Requests : pc[r] = "done"
  /\ UNCHANGED vars

Next ==
  \/ \E r \in Requests : Arrive(r) \/ Step(r) \/ Fail(r)
  \/ Drift
  \/ Finished

Spec == Init /\ [][Next]_vars

\* A command that was sent is answered, so a handler at an await resumes.
FairSpec == Spec /\ \A r \in Requests : WF_vars(Step(r))
-----------------------------------------------------------------------------
(* Properties.                                                             *)

\* The types, with the attempt counter inside its loop.
TypeOK ==
  /\ messages \subseteq Row
  /\ inserts \in Nat
  /\ lastMessageAt \in Nat
  /\ counter \in Nat \cup {NoCounter}
  /\ announced \subseteq [by : Requests, msg : Requests]
  /\ pc \in [Requests -> Points]
  /\ cid \in [Requests -> Cids \cup {NoCid}]
  /\ attempt \in [Requests -> 0..(SeqRetry - 1)]
  /\ got \in [Requests -> Nat]
  /\ answer \in [Requests -> Answers]
  /\ told \in [Requests -> Requests \cup {NoMessage}]
  /\ drifts \in 0..MaxDrifts
  /\ failures \in 0..MaxFailures
  /\ disturbed \subseteq Requests

Confirmed(r) == answer[r] \in {"stored", "duplicate"}

\* The acknowledgement of createMessage can be relied on: a caller told "stored" or
\* "duplicate" was told of a row of the room that carries its own clientMessageId,
\* and its own row when it was told "stored".
ConfirmedIsStored ==
  \A r \in Requests : Confirmed(r) =>
    \E m \in messages :
      /\ m.id = told[r]
      /\ m.cid = cid[r]
      /\ answer[r] = "stored" => m.id = r

\* Idempotency of clientMessageId: however the calls that carry one key overlap,
\* retry and fail, all that are confirmed are told of the same message, and only
\* one of them is told that it is new.
Idempotent ==
  \A q, r \in Requests :
    /\ Confirmed(q) /\ Confirmed(r)
    /\ q # r
    /\ cid[q] = cid[r]
    /\ cid[q] # NoCid
    => /\ told[q] = told[r]
       /\ {answer[q], answer[r]} # {"stored"}

\* As long as Redis keeps the counter, no insert ever collides on seq: the seeding
\* from the database (exists, max, SET NX) is safe against any number of nodes that
\* seed at once, and resyncSeq is never needed.
NoCollisionWithoutDrift ==
  drifts = 0 => \A r \in Requests : pc[r] \notin {"readResync", "resync"}

\* One resync repairs a lost or rewound counter: a call that had the room to itself
\* never runs out of its SEQ_RETRY attempts.
LoneCallRecovers ==
  \A r \in Requests : answer[r] = "conflict" => r \in disturbed

\* Every stored message is broadcast, unless its call dies: whatever collisions, resyncs
\* and lost races the other calls go through, and whether or not it is the newest.
EveryMessageAnnounced ==
  \A r \in Requests :
    (\E m \in messages : m.id = r)
      ~> ((\E e \in announced : e.msg = r) \/ answer[r] = "error")

\* The abstract state of MessageLog: a call past its insert has stored its message.
AbstractPhase(p) ==
  CASE p = "idle" -> "new"
    [] p \in {"touch", "emit", "reply"} -> "stored"
    [] p = "done" -> "answered"
    [] OTHER -> "working"

AbstractVerdict(a) ==
  CASE a \in {"none", "stored", "duplicate"} -> a
    [] a \in {"invalid", "conflict"} -> "refused"
    [] a = "error" -> "failed"

Log == INSTANCE MessageLog WITH
  stored <- {m.id : m \in messages} \ {NoMessage},
  key <- cid,
  announced <- {e.msg : e \in announced},
  phase <- [r \in Requests |-> AbstractPhase(pc[r])],
  outcome <- [r \in Requests |-> [verdict |-> AbstractVerdict(answer[r]),
                                  msg |-> told[r]]]

\* Through counters, collisions, resyncs and failures createMessage keeps the promise
\* of MessageLog: stored at most once per key, broadcast once and before "stored" is
\* answered, refused only when nothing was stored.
ImplementsLog == Log!LogSpec
=============================================================================
