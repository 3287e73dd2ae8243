------------------------------ MODULE PairRoom ------------------------------
(***************************************************************************)
(* What the 1:1 rooms promise, with no word on how a room is looked for:   *)
(* two users have at most one room, opening it brings both of them in at   *)
(* once whether it is there or not, whoever founds it announces it before  *)
(* the answer, and no call fails because of what another one does.         *)
(*                                                                         *)
(* DirectRooms is the detailed system that implements this one.            *)
(***************************************************************************)
EXTENDS Naturals

CONSTANTS
  Users,
  Requests,    \* calls that open a room, leave it or remove the other from it
  Nobody,      \* the founder of a room that does not exist
  MaxFailures

VARIABLES
  founder,     \* founder[p]: who opened the room of the pair p first
  inside,      \* inside[p]: those of p who have not left
  announced,   \* the pairs whose room was announced
  call,        \* call[r]: its kind, the caller and the other user it names
  phase,       \* phase[r]: "new", "working", "founding", "done" or "answered"
  outcome,     \* outcome[r]: "none", "ok", "refused" or "failed"
  failures     \* the calls that failed

pairVars == <<founder, inside, announced, call, phase, outcome, failures>>

Pairs == {p \in SUBSET Users : \E a, b \in p : a # b /\ p = {a, b}}
Calls == [kind : {"open", "leave", "kick"}, actor : Users, other : Users]
PairOf(r) == {call[r].actor, call[r].other}

PairInit ==
  /\ founder = [p \in Pairs |-> Nobody]
  /\ inside = [p \in Pairs |-> {}]
  /\ announced = {}
  /\ call \in [Requests -> Calls]
  /\ phase = [r \in Requests |-> "new"]
  /\ outcome = [r \in Requests |-> "none"]
  /\ failures = 0

Becomes(r, p) == phase' = [phase EXCEPT ![r] = p]

Ask(r) ==
  /\ phase[r] = "new"
  /\ \E c \in Calls : call' = [call EXCEPT ![r] = c]
  /\ Becomes(r, "working")
  /\ UNCHANGED <<founder, inside, announced, outcome, failures>>

\* Both are in the room from one moment to the next.
Open(r) ==
  LET p == PairOf(r) IN
  /\ phase[r] = "working" /\ call[r].kind = "open" /\ p \in Pairs
  /\ inside' = [inside EXCEPT ![p] = p]
  /\ \/ founder[p] # Nobody /\ UNCHANGED founder /\ Becomes(r, "done")
     \/ /\ founder[p] = Nobody
        /\ founder' = [founder EXCEPT ![p] = call[r].actor]
        /\ Becomes(r, "founding")
  /\ UNCHANGED <<announced, call, outcome, failures>>

Announce(r) ==
  /\ phase[r] = "founding"
  /\ announced' = announced \cup {PairOf(r)}
  /\ Becomes(r, "done")
  /\ UNCHANGED <<founder, inside, call, outcome, failures>>

\* A user leaves for itself only; the room stays, and the other in it.
Leave(r) ==
  LET p == PairOf(r) IN
  /\ phase[r] = "working" /\ call[r].kind = "leave" /\ p \in Pairs
  /\ founder[p] # Nobody
  /\ inside' = [inside EXCEPT ![p] = @ \ {call[r].actor}]
  /\ Becomes(r, "done")
  /\ UNCHANGED <<founder, announced, call, outcome, failures>>

Ends(r, o) ==
  /\ Becomes(r, "answered")
  /\ outcome' = [outcome EXCEPT ![r] = o]
  /\ UNCHANGED <<founder, inside, announced, call>>

\* A refusal leaves nothing behind.
Answer(r) == phase[r] = "done" /\ Ends(r, "ok") /\ UNCHANGED failures
Refuse(r) == phase[r] = "working" /\ Ends(r, "refused") /\ UNCHANGED failures

Break(r) ==
  /\ phase[r] \in {"working", "founding", "done"}
  /\ failures < MaxFailures
  /\ failures' = failures + 1
  /\ Ends(r, "failed")

PairNext ==
  \E r \in Requests :
    Ask(r) \/ Open(r) \/ Announce(r) \/ Leave(r) \/ Answer(r) \/ Refuse(r) \/ Break(r)

PairSpec == PairInit /\ [][PairNext]_pairVars
=============================================================================
