----------------------------- MODULE MessageLog -----------------------------
(***************************************************************************)
(* What sending a message to one room promises its callers, with no word   *)
(* on how a position in the room is found: a message is stored at most     *)
(* once per client message id, it is announced to the room before its      *)
(* sender is told it was sent, and every call gets one final outcome that  *)
(* names the message it is about.                                          *)
(*                                                                         *)
(* MessageSend is the detailed system that implements this one.            *)
(***************************************************************************)
EXTENDS Naturals

CONSTANTS
  Requests,    \* the calls of createMessage
  Cids,        \* the client message ids (idempotency keys)
  NoCid,       \* a call that carries no key
  NoMessage    \* an outcome that names no message

VARIABLES
  stored,      \* the messages of the room, each known by the call that stored it
  key,         \* key[r]: the client message id of call r
  announced,   \* the messages broadcast to the room
  phase,       \* phase[r]: "new", "working", "stored" or "answered"
  outcome      \* outcome[r]: the verdict its caller was told, and the message it is about

logVars == <<stored, key, announced, phase, outcome>>

NoOutcome == [verdict |-> "none", msg |-> NoMessage]

LogInit ==
  /\ stored = {}
  /\ key = [r \in Requests |-> NoCid]
  /\ announced = {}
  /\ phase = [r \in Requests |-> "new"]
  /\ outcome = [r \in Requests |-> NoOutcome]

\* Two calls are about the same message when they carry the same key.
SameKey(q, r) == key[q] = key[r] /\ key[r] # NoCid

Submit(r) ==
  /\ phase[r] = "new"
  /\ \E c \in Cids \cup {NoCid} : key' = [key EXCEPT ![r] = c]
  /\ phase' = [phase EXCEPT ![r] = "working"]
  /\ UNCHANGED <<stored, announced, outcome>>

Store(r) ==
  /\ phase[r] = "working"
  /\ \A q \in stored : ~SameKey(q, r)
  /\ stored' = stored \cup {r}
  /\ phase' = [phase EXCEPT ![r] = "stored"]
  /\ UNCHANGED <<key, announced, outcome>>

Announce(r) ==
  /\ phase[r] = "stored"
  /\ r \notin announced
  /\ announced' = announced \cup {r}
  /\ UNCHANGED <<stored, key, phase, outcome>>

Finish(r, v, m) ==
  /\ phase' = [phase EXCEPT ![r] = "answered"]
  /\ outcome' = [outcome EXCEPT ![r] = [verdict |-> v, msg |-> m]]
  /\ UNCHANGED <<stored, key, announced>>

Confirm(r) ==
  /\ phase[r] = "stored"
  /\ r \in announced
  /\ Finish(r, "stored", r)

ConfirmDuplicate(r) ==
  /\ phase[r] = "working"
  /\ \E q \in stored : SameKey(q, r) /\ Finish(r, "duplicate", q)

\* A refusal leaves nothing behind.
Refuse(r) ==
  /\ phase[r] = "working"
  /\ Finish(r, "refused", NoMessage)

\* A failure may come at any time, after the message is stored or announced too.
Break(r) ==
  /\ phase[r] \in {"working", "stored"}
  /\ Finish(r, "failed", NoMessage)

LogNext ==
  \E r \in Requests :
    \/ Submit(r) \/ Store(r) \/ Announce(r)
    \/ Confirm(r) \/ ConfirmDuplicate(r) \/ Refuse(r) \/ Break(r)

LogSpec == LogInit /\ [][LogNext]_logVars
=============================================================================
