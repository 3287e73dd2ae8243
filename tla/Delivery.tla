------------------------------ MODULE Delivery ------------------------------
(***************************************************************************)
(* What becomes of an event of one room: the gateway sends it to the       *)
(* channel of every member, the Redis adapter carries it to the node of    *)
(* each, and a message is pushed to the devices of those who are offline   *)
(* (src/realtime, src/push, emitCreated of src/messages).                  *)
(*                                                                         *)
(* A call is the announcement of a message or the relay of a typing event; *)
(* while it runs members come and go, connect and disconnect, and register *)
(* devices.  One socket stands for those of a user: several of them are    *)
(* the subject of Presence.                                                *)
(***************************************************************************)
EXTENDS Naturals, FiniteSets

CONSTANTS
  Calls,         \* announcements of messages and relays of typing events
  Users,
  Devices,       \* FCM tokens
  Nobody,        \* the owner of a token that has no row
  MulticastMax,  \* the tokens that one call of FCM takes
  MaxChanges,    \* bound on what users and administrators do meanwhile
  MaxBroken    \* bound on the calls that throw or die

ASSUME DeliveryAssumption ==
  /\ Nobody \notin Users
  /\ MulticastMax \in Nat /\ MaxChanges \in Nat /\ MaxBroken \in Nat

VARIABLES
  active,    \* the members of the room
  muted,     \* those whose mutedUntil is to come
  link,      \* link[u]: is its socket in user:<u>, is it in the presence set?
  owner,     \* owner[d]: the user of the PushToken row of d
  gone,      \* the tokens FCM no longer knows
  pc,        \* pc[c]: what c is about to do
  op,        \* op[c]: its kind and the user who sends or types
  to,        \* to[c]: the users it has selected so far
  asking,    \* asking[c]: those whose presence has not been read
  tokens,    \* tokens[c]: the tokens it has read, then those FCM refused
  underway,  \* the events on their way to the channel of a user
  got,       \* the events received by a socket
  pushed,    \* the messages handed to FCM, with their token
  heard,     \* heard[c]: who was a member at some time since c began (history)
  reach,     \* reach[c]: the devices they had since, but the sender's (history)
  settled,   \* settled[c]: the users for whom nothing changed since (history)
  broken,    \* the calls that threw or died (history)
  changes    \* what users and administrators did meanwhile

people == <<active, muted, link>>
devices == <<owner, gone>>
local == <<to, asking, tokens>>
events == <<underway, got, pushed>>
history == <<heard, reach, settled>>
deliveryVars == <<people, devices, pc, op, local, events, history, broken, changes>>

-----------------------------------------------------------------------------
Kinds == {"message", "system", "typing"}
Links == {"off", "joined", "on", "leaving"}
Points == {"idle", "member", "recipients", "emit", "presence", "muted", "tokens", "send", "purge", "done"}

InChannel(u) == link[u] \in {"joined", "on"}
IsOnline(u) == link[u] \in {"on", "leaving"}
DevicesOf(us) == {d \in Devices : owner[d] \in us}
Sender(c) == op[c].user

DeliveryInit ==
  /\ active \in SUBSET Users
  /\ muted \in SUBSET Users
  /\ link \in [Users -> {"off", "on"}]
  /\ owner \in [Devices -> Users \cup {Nobody}]
  /\ gone = {}
  /\ pc = [c \in Calls |-> "idle"]
  /\ op \in [Calls -> [kind : {"message"}, user : Users]]
  /\ to = [c \in Calls |-> {}] /\ asking = to /\ tokens = to
  /\ underway = {} /\ got = {} /\ pushed = {}
  /\ heard = to /\ reach = to /\ settled = to
  /\ broken = {}
  /\ changes = 0

Goes(c, p) ==
  /\ pc' = [pc EXCEPT ![c] = p]
  /\ UNCHANGED <<people, devices, op, history, broken, changes>>

-----------------------------------------------------------------------------
\* emitCreated has stored its message; relayTyping first asks whether the user is a member.
Arrive(c) ==
  /\ pc[c] = "idle"
  /\ \E k \in Kinds, u \in Users :
       /\ op' = [op EXCEPT ![c] = [kind |-> k, user |-> u]]
       /\ pc' = [pc EXCEPT ![c] = IF k = "typing" THEN "member" ELSE "recipients"]
       /\ reach' = [reach EXCEPT ![c] = DevicesOf(active \ {u})]
  /\ heard' = [heard EXCEPT ![c] = active]
  /\ settled' = [settled EXCEPT ![c] = Users]
  /\ UNCHANGED <<people, devices, local, events, broken, changes>>

CheckMember(c) ==
  /\ pc[c] = "member"
  /\ Goes(c, IF Sender(c) \in active THEN "recipients" ELSE "done")
  /\ UNCHANGED <<local, events>>

\* Mutant of Recipients: whoever is not there is told.
RecipientsLeft(c) == Users \ active
Recipients(c) == IF op[c].kind = "typing" THEN active \ {Sender(c)} ELSE active

\* getActiveMemberIds
ReadRecipients(c) ==
  /\ pc[c] = "recipients"
  /\ to' = [to EXCEPT ![c] = Recipients(c)]
  /\ Goes(c, "emit")
  /\ UNCHANGED <<asking, tokens, events>>

\* System messages are not pushed.
Pushable(c) == op[c].kind = "message"

\* emitToUsers, and onMessageCreated of push as far as its first await.
Emit(c) ==
  LET others == to[c] \ {Sender(c)} IN
  /\ pc[c] = "emit"
  /\ underway' = underway \cup ({c} \X to[c])
  /\ to' = [to EXCEPT ![c] = {}]
  /\ asking' = [asking EXCEPT ![c] = others]
  /\ Goes(c, IF Pushable(c) /\ others # {} THEN "presence" ELSE "done")
  /\ UNCHANGED <<tokens, got, pushed>>

\* The adapter brings the event to the sockets that are in the channel by then.  It is taken to
\* lose nothing, though the pub/sub of Redis under it delivers at most once: while a node has no
\* connection to Redis its sockets hear of nothing, and nothing is sent again.
Deliver(c, u) ==
  /\ <<c, u>> \in underway
  /\ underway' = underway \ {<<c, u>>}
  /\ got' = IF InChannel(u) THEN got \cup {<<c, u>>} ELSE got
  /\ UNCHANGED <<people, devices, pc, op, local, pushed, history, broken, changes>>

-----------------------------------------------------------------------------
(* onMessageCreated of push                                                *)

\* Mutant of Offline: those who are connected are pushed to.
OfflineWrong(u) == IsOnline(u)
Offline(u) == ~IsOnline(u)

\* isOnline of one recipient, in any order.
ReadPresence(c) ==
  /\ pc[c] = "presence"
  /\ \E u \in asking[c] :
       /\ asking' = [asking EXCEPT ![c] = @ \ {u}]
       /\ to' = [to EXCEPT ![c] = IF Offline(u) THEN @ \cup {u} ELSE @]
  /\ Goes(c, CASE asking'[c] # {} -> "presence"
               [] asking'[c] = {} /\ to'[c] # {} -> "muted"
               [] OTHER -> "done")
  /\ UNCHANGED <<tokens, events>>

ReadMuted(c) ==
  /\ pc[c] = "muted"
  /\ to' = [to EXCEPT ![c] = @ \ muted]
  /\ Goes(c, IF to'[c] # {} THEN "tokens" ELSE "done")
  /\ UNCHANGED <<asking, tokens, events>>

ReadTokens(c) ==
  /\ pc[c] = "tokens"
  /\ tokens' = [tokens EXCEPT ![c] = DevicesOf(to[c])]
  /\ Goes(c, IF tokens'[c] # {} THEN "send" ELSE "done")
  /\ UNCHANGED <<to, asking, events>>

\* Mutant of Refused: whatever failed is dropped.
RefusedAll(failed, unknown) == failed \cup unknown
Refused(failed, unknown) == unknown

\* sendToTokens: FCM answers for each token, or refuses a call with too many of them.
Send(c) ==
  /\ pc[c] = "send"
  /\ \/ /\ Cardinality(tokens[c]) <= MulticastMax
        /\ pushed' = pushed \cup ({c} \X tokens[c])
        /\ \E failed \in SUBSET (tokens[c] \ gone) :
             tokens' = [tokens EXCEPT ![c] = Refused(failed, @ \cap gone)]
        /\ Goes(c, IF tokens'[c] # {} THEN "purge" ELSE "done")
     \/ /\ Cardinality(tokens[c]) > MulticastMax
        /\ Goes(c, "done")
        /\ UNCHANGED <<tokens, pushed>>
  /\ UNCHANGED <<to, asking, underway, got>>

-----------------------------------------------------------------------------
(* What happens meanwhile; us are the users for whom something changes.    *)

Running(c) == pc[c] \notin {"idle", "done"}

Changes(us) ==
  /\ heard' = [c \in Calls |-> IF Running(c) THEN heard[c] \cup active' ELSE heard[c]]
  /\ reach' = [c \in Calls |->
                IF Running(c)
                THEN reach[c] \cup {d \in Devices : owner'[d] \in heard'[c] \ {Sender(c)}}
                ELSE reach[c]]
  /\ settled' = [c \in Calls |-> settled[c] \ us]
  /\ UNCHANGED <<op, events>>

Does(us) ==
  /\ changes < MaxChanges
  /\ changes' = changes + 1
  /\ Changes(us)
  /\ UNCHANGED <<pc, local, broken>>

\* Invalid tokens are deleted by their value, whosever they are by now.
Purge(c) ==
  /\ pc[c] = "purge"
  /\ owner' = [d \in Devices |-> IF d \in tokens[c] THEN Nobody ELSE owner[d]]
  /\ pc' = [pc EXCEPT ![c] = "done"]
  /\ UNCHANGED <<people, gone, local, broken, changes>>
  /\ Changes({owner[d] : d \in tokens[c]})

\* Rooms add and remove members.
Enter(u) == u \notin active /\ active' = active \cup {u} /\ UNCHANGED <<muted, link, devices>> /\ Does({u})
Leave(u) == u \in active /\ active' = active \ {u} /\ UNCHANGED <<muted, link, devices>> /\ Does({u})

\* mutedUntil passes; no endpoint sets it.
Unmute(u) == u \in muted /\ muted' = muted \ {u} /\ UNCHANGED <<active, link, devices>> /\ Does({u})

\* A socket joins its channel, then enters the presence set; it closes, then is taken out.
Moves(u, from, into) ==
  /\ link[u] = from
  /\ link' = [link EXCEPT ![u] = into]
  /\ UNCHANGED <<active, muted, devices>>
  /\ Does({u})

Relink(u) ==
  \/ Moves(u, "off", "joined") \/ Moves(u, "joined", "on")
  \/ Moves(u, "on", "leaving") \/ Moves(u, "leaving", "off")

\* registerToken, an upsert that takes the token from whoever had it.
RegisterToken(u, d) ==
  /\ owner' = [owner EXCEPT ![d] = u]
  /\ UNCHANGED <<people, gone>>
  /\ Does({owner[d], u})

\* removeToken deletes the row only if it is the caller's.
RemoveToken(u, d) ==
  /\ owner[d] = u
  /\ owner' = [owner EXCEPT ![d] = Nobody]
  /\ UNCHANGED <<people, gone>>
  /\ Does({owner[d]})

\* FCM forgets the token of an application that was removed.
Forget(d) == d \notin gone /\ gone' = gone \cup {d} /\ UNCHANGED <<people, owner>> /\ Does({})

UserSteps ==
  \/ \E u \in Users : Enter(u) \/ Leave(u) \/ Unmute(u) \/ Relink(u)
  \/ \E u \in Users, d \in Devices : RegisterToken(u, d) \/ RemoveToken(u, d)
  \/ \E d \in Devices : Forget(d)

-----------------------------------------------------------------------------
\* A statement throws, which push catches and logs, or the node dies.
Fail(c) ==
  /\ Running(c)
  /\ Cardinality(broken) < MaxBroken
  /\ broken' = broken \cup {c}
  /\ pc' = [pc EXCEPT ![c] = "done"]
  /\ UNCHANGED <<people, devices, op, local, events, history, changes>>

Step(c) ==
  \/ CheckMember(c) \/ ReadRecipients(c) \/ Emit(c) \/ ReadPresence(c) \/ ReadMuted(c)
  \/ ReadTokens(c) \/ Send(c) \/ Purge(c)

\* The server waits for calls.
Wait == underway = {} /\ (\A c \in Calls : ~Running(c)) /\ UNCHANGED deliveryVars

DeliveryNext ==
  \/ \E c \in Calls : Arrive(c) \/ Step(c) \/ Fail(c) \/ \E u \in Users : Deliver(c, u)
  \/ UserSteps
  \/ Wait

DeliverySpec == DeliveryInit /\ [][DeliveryNext]_deliveryVars

-----------------------------------------------------------------------------
(* Properties.                                                             *)

\* The types; only messages of users are pushed, and the sender is not asked for.
DeliveryTypeOK ==
  /\ active \subseteq Users /\ muted \subseteq Users
  /\ link \in [Users -> Links]
  /\ owner \in [Devices -> Users \cup {Nobody}]
  /\ gone \subseteq Devices
  /\ pc \in [Calls -> Points]
  /\ op \in [Calls -> [kind : Kinds, user : Users]]
  /\ {to, asking} \subseteq [Calls -> SUBSET Users]
  /\ tokens \in [Calls -> SUBSET Devices]
  /\ underway \subseteq Calls \X Users /\ got \subseteq Calls \X Users
  /\ pushed \subseteq Calls \X Devices
  /\ {heard, settled} \subseteq [Calls -> SUBSET Users]
  /\ reach \in [Calls -> SUBSET Devices]
  /\ broken \subseteq Calls
  /\ changes \in 0..MaxChanges
  /\ \A c \in Calls :
       /\ pc[c] = "member" => op[c].kind = "typing"
       /\ pc[c] \in {"presence", "muted", "tokens", "send", "purge"} =>
            op[c].kind = "message" /\ Sender(c) \notin to[c] \cup asking[c]

\* emitCreated, relayTyping and push act on what they read before.  However stale that is, an
\* event comes only to a user who was a member at some time since its call began, and a push
\* only to a device that was at some time since then one of such a user, not of the sender.
OnlyMembersHear ==
  /\ \A e \in got : e[2] \in heard[e[1]]
  /\ \A e \in pushed : e[2] \in reach[e[1]]

\* The spec: members are sent message:new, and "a recipient who is offline" a push.  Whatever
\* others do, a member for whom nothing changed since the call began got the event if it is
\* connected; if it is not, and is neither muted nor the sender, FCM has it for every device
\* of its, unless the call broke off or had more tokens than FCM takes.
SettledAreReached ==
  \A c \in Calls \ broken : pc[c] = "done" /\ underway \cap ({c} \X Users) = {} =>
    \A u \in settled[c] \cap active :
      /\ link[u] = "on" /\ (op[c].kind = "typing" =>
                              u # Sender(c) /\ Sender(c) \in settled[c] \cap active)
           => <<c, u>> \in got
      /\ link[u] = "off" /\ op[c].kind = "message" /\ u # Sender(c) /\ u \notin muted
           => \/ {c} \X DevicesOf({u}) \subseteq pushed
              \/ Cardinality(tokens[c]) > MulticastMax

\* "Returns the tokens that are invalid and should be purged": a push deletes no row of a device
\* that FCM still knows, though the answer is old by then and the row may have a new owner.
RegisteredStay ==
  [][\A d \in Devices \ gone : owner[d] \in Users /\ owner'[d] = Nobody =>
       RemoveToken(owner[d], d)]_deliveryVars
=============================================================================
