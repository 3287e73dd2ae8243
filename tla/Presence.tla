------------------------------ MODULE Presence ------------------------------
(***************************************************************************)
(* The presence of one user: RealtimeGateway.handleConnection and          *)
(* handleDisconnect with PresenceService (src/realtime, src/presence).     *)
(*                                                                         *)
(* Redis holds the SET of the user's socket ids, with a TTL that every     *)
(* connected socket's heartbeat renews.  Each Redis or database call of a  *)
(* handler is an action; conn and disc name the one it is about to make.   *)
(***************************************************************************)
EXTENDS Naturals, FiniteSets

CONSTANTS
  Sockets,      \* connections of the user, each opened once
  Nodes,        \* server processes
  Nowhere,      \* no node
  MaxOverlaps,  \* bound on the sockets that come or go while a handler runs
  MaxCrashes,   \* bound on the nodes that crash
  MaxFailures   \* bound on the calls that throw

ASSUME PresenceAssumption ==
  /\ IsFiniteSet(Sockets)
  /\ Nowhere \notin Nodes
  /\ MaxOverlaps \in Nat
  /\ MaxCrashes \in Nat
  /\ MaxFailures \in Nat

VARIABLES
  wire,      \* wire[s]: the transport of socket s
  home,      \* home[s]: the node that serves it
  conn,      \* conn[s]: what its handleConnection is about to do
  disc,      \* disc[s]: what its handleDisconnect is about to do
  known,     \* known[s]: whether client.data.userId is set
  beating,   \* beating[s]: whether its heartbeat interval runs
  live,      \* Redis SET presence:online:<userId>; no key when empty
  ttl,       \* whether that key has a TTL
  told,      \* the last presence status broadcast to the co-members
  lastSeen,  \* User.lastSeenAt, as the set of connections closed by then
  overlaps,  \* sockets that came or went while a handler ran
  crashes,
  failures

redis == <<live, ttl>>
sockets == <<wire, home, conn, disc, known, beating>>
faults == <<overlaps, crashes, failures>>
vars == <<redis, sockets, told, lastSeen, faults>>

ConnPoints == {"idle", "auth", "rooms", "sadd", "expire", "count", "tell", "done"}
DiscPoints == {"idle", "srem", "count", "del", "seen", "tell", "done"}

Connecting == {s \in Sockets : conn[s] \notin {"idle", "done"}}
Leaving == {s \in Sockets : disc[s] \notin {"idle", "done"}}
Quiet == Connecting \cup Leaving = {}
Gone == {s \in Sockets : wire[s] = "down" /\ known[s]}

Init ==
  /\ wire = [s \in Sockets |-> "new"]
  /\ home = [s \in Sockets |-> Nowhere]
  /\ conn = [s \in Sockets |-> "idle"]
  /\ disc = [s \in Sockets |-> "idle"]
  /\ known = [s \in Sockets |-> FALSE]
  /\ beating = [s \in Sockets |-> FALSE]
  /\ live = {}
  /\ ttl = FALSE
  /\ told = "offline"
  /\ lastSeen = {}
  /\ overlaps = 0
  /\ crashes = 0
  /\ failures = 0

ConnGo(s, p) ==
  conn' = [conn EXCEPT ![s] = p] /\ UNCHANGED <<wire, home, disc, known, beating>>
DiscGo(s, p) ==
  disc' = [disc EXCEPT ![s] = p] /\ UNCHANGED <<wire, home, conn, known, beating>>
Elsewhere == UNCHANGED <<told, lastSeen, faults>>

-----------------------------------------------------------------------------
(* The transport opens and closes.                                         *)

\* A socket comes or goes, while a handler runs or not.
ComesOrGoes ==
  /\ Quiet \/ overlaps < MaxOverlaps
  /\ overlaps' = IF Quiet THEN overlaps ELSE overlaps + 1
  /\ UNCHANGED <<told, lastSeen, crashes, failures>>

Open(s) ==
  /\ wire[s] = "new"
  /\ ComesOrGoes
  /\ wire' = [wire EXCEPT ![s] = "up"]
  /\ \E n \in Nodes : home' = [home EXCEPT ![s] = n]
  /\ conn' = [conn EXCEPT ![s] = "auth"]
  /\ UNCHANGED <<redis, disc, known, beating>>

\* Mutant of StopHeartbeat: the interval is left running.
KeepHeartbeat(s) == beating' = beating

\* handleDisconnect up to its first await.
Deregister(s) == disc' = [disc EXCEPT ![s] = IF known[s] THEN "srem" ELSE "done"]
StopHeartbeat(s) == beating' = [beating EXCEPT ![s] = FALSE]

\* The disconnect event of a socket that was up; one that is down has had it.
Closed(s) ==
  /\ wire' = [wire EXCEPT ![s] = "down"]
  /\ IF wire[s] = "up" THEN Deregister(s) /\ StopHeartbeat(s)
     ELSE UNCHANGED <<disc, beating>>

Close(s) ==
  /\ wire[s] = "up"
  /\ ComesOrGoes
  /\ Closed(s)
  /\ UNCHANGED <<redis, home, conn, known>>

\* The catch of handleConnection: the server disconnects the socket.
Reject(s) ==
  /\ conn' = [conn EXCEPT ![s] = "done"]
  /\ Closed(s)
  /\ UNCHANGED <<redis, home, known, told, lastSeen>>

-----------------------------------------------------------------------------
(* handleConnection                                                        *)

Authenticate(s) ==
  /\ conn[s] = "auth"
  /\ \/ /\ known' = [known EXCEPT ![s] = TRUE]
        /\ conn' = [conn EXCEPT ![s] = "rooms"]
        /\ UNCHANGED <<redis, wire, home, disc, beating>> /\ Elsewhere
     \/ Reject(s) /\ UNCHANGED faults

\* It joins the user's own channel and those of the active rooms, read here.
JoinRooms(s) ==
  /\ conn[s] = "rooms"
  /\ ConnGo(s, "sadd")
  /\ UNCHANGED redis /\ Elsewhere

\* addConnection.  A key that SADD creates has no TTL.
Sadd(s) ==
  /\ conn[s] = "sadd"
  /\ live' = live \cup {s}
  /\ ConnGo(s, "expire")
  /\ UNCHANGED ttl /\ Elsewhere

Expire(s) ==
  /\ conn[s] = "expire"
  /\ ttl' = (live # {})
  /\ ConnGo(s, "count")
  /\ UNCHANGED live /\ Elsewhere

BecameOnline == Cardinality(live) = 1

\* SCARD; then, with no await between, the interval is set.
CountIn(s) ==
  /\ conn[s] = "count"
  /\ conn' = [conn EXCEPT ![s] = IF BecameOnline THEN "tell" ELSE "done"]
  /\ beating' = [beating EXCEPT ![s] = TRUE]
  /\ UNCHANGED <<redis, wire, home, disc, known>> /\ Elsewhere

\* broadcastPresence, of "online" here and of "offline" in TellOffline: the co-members
\* are read, then told.
TellOnline(s) ==
  /\ conn[s] = "tell"
  /\ told' = "online"
  /\ ConnGo(s, "done")
  /\ UNCHANGED <<redis, lastSeen, faults>>

ConnStep(s) == \/ Authenticate(s) \/ JoinRooms(s) \/ Sadd(s) \/ Expire(s) \/ CountIn(s)
               \/ TellOnline(s)

-----------------------------------------------------------------------------
(* handleDisconnect                                                        *)

\* A set that loses its last member is a key that is gone.
Srem(s) ==
  /\ disc[s] = "srem"
  /\ live' = live \ {s}
  /\ ttl' = (ttl /\ live' # {})
  /\ DiscGo(s, "count")
  /\ Elsewhere

\* The mutant counts the socket that was just removed.
LastOffByOne == Cardinality(live) = 1
BecameOffline == Cardinality(live) = 0

CountOut(s) ==
  /\ disc[s] = "count"
  /\ DiscGo(s, IF BecameOffline THEN "del" ELSE "done")
  /\ UNCHANGED redis /\ Elsewhere

\* DEL, on the count read before it.
Del(s) ==
  /\ disc[s] = "del"
  /\ live' = {}
  /\ ttl' = FALSE
  /\ DiscGo(s, "seen")
  /\ Elsewhere

Seen(s) ==
  /\ disc[s] = "seen"
  /\ lastSeen' = Gone
  /\ DiscGo(s, "tell")
  /\ UNCHANGED <<redis, told, faults>>

TellOffline(s) ==
  /\ disc[s] = "tell"
  /\ told' = "offline"
  /\ DiscGo(s, "done")
  /\ UNCHANGED <<redis, lastSeen, faults>>

DiscStep(s) == Srem(s) \/ CountOut(s) \/ Del(s) \/ Seen(s) \/ TellOffline(s)

-----------------------------------------------------------------------------
(* The heartbeat, the expiry, and what goes wrong.                         *)

\* refresh: EXPIRE, which does nothing to a key that is not there.
Heartbeat(s) ==
  /\ beating[s]
  /\ live # {} /\ ~ttl
  /\ ttl' = TRUE
  /\ UNCHANGED <<live, sockets>> /\ Elsewhere

\* The key lives a whole TTL without a renewal.  An interval renews it every half TTL,
\* and a handler takes less than that from its EXPIRE to its interval.
KeyExpires ==
  /\ live # {} /\ ttl
  /\ \A s \in Sockets : ~beating[s] /\ conn[s] # "count"
  /\ live' = {}
  /\ ttl' = FALSE
  /\ UNCHANGED sockets /\ Elsewhere

\* A node dies with its sockets, handlers and intervals; Redis keeps what it has.
Crash(n) ==
  LET mine == {s \in Sockets : home[s] = n} IN
  /\ crashes < MaxCrashes
  /\ crashes' = crashes + 1
  /\ mine # {}
  /\ wire' = [s \in Sockets |-> IF s \in mine THEN "down" ELSE wire[s]]
  /\ conn' = [s \in Sockets |-> IF s \in mine THEN "done" ELSE conn[s]]
  /\ disc' = [s \in Sockets |-> IF s \in mine THEN "done" ELSE disc[s]]
  /\ beating' = [s \in Sockets |-> IF s \in mine THEN FALSE ELSE beating[s]]
  /\ UNCHANGED <<redis, home, known, told, lastSeen, overlaps, failures>>

\* A call of handleConnection throws.
ConnFails(s) ==
  /\ s \in Connecting
  /\ failures < MaxFailures
  /\ failures' = failures + 1
  /\ Reject(s)
  /\ UNCHANGED <<overlaps, crashes>>

\* A call of handleDisconnect throws: nobody catches it, but for the update of
\* lastSeenAt, whose failure is swallowed.
DiscFails(s) ==
  /\ s \in Leaving
  /\ failures < MaxFailures
  /\ failures' = failures + 1
  /\ DiscGo(s, IF disc[s] = "seen" THEN "tell" ELSE "done")
  /\ UNCHANGED <<redis, told, lastSeen, overlaps, crashes>>

Finished ==
  /\ Quiet /\ \A s \in Sockets : wire[s] = "down"
  /\ UNCHANGED vars

Next ==
  \/ \E s \in Sockets :
       \/ Open(s) \/ Close(s)
       \/ ConnStep(s) \/ DiscStep(s) \/ Heartbeat(s)
       \/ ConnFails(s) \/ DiscFails(s)
  \/ \E n \in Nodes : Crash(n)
  \/ KeyExpires
  \/ Finished

Spec == Init /\ [][Next]_vars

\* Handlers and timers of a node that is up run, and Redis expires keys.
FairSpec ==
  /\ Spec
  /\ \A s \in Sockets : WF_vars(ConnStep(s)) /\ WF_vars(DiscStep(s)) /\ WF_vars(Heartbeat(s))
  /\ WF_vars(KeyExpires)

-----------------------------------------------------------------------------
(* Properties.                                                             *)

\* The types; a TTL belongs to a key that exists, and only a socket whose user is known
\* is ever taken out of the set.
TypeOK ==
  /\ wire \in [Sockets -> {"new", "up", "down"}]
  /\ home \in [Sockets -> Nodes \cup {Nowhere}]
  /\ conn \in [Sockets -> ConnPoints]
  /\ disc \in [Sockets -> DiscPoints]
  /\ known \in [Sockets -> BOOLEAN]
  /\ beating \in [Sockets -> BOOLEAN]
  /\ live \subseteq Sockets
  /\ ttl \in BOOLEAN
  /\ ttl => live # {}
  /\ told \in {"online", "offline"}
  /\ lastSeen \subseteq Sockets
  /\ overlaps \in 0..MaxOverlaps
  /\ crashes \in 0..MaxCrashes
  /\ failures \in 0..MaxFailures
  /\ \A s \in Sockets : disc[s] \in DiscPoints \ {"idle", "done"} => known[s]

\* Handlers have run one at a time so far, no node has crashed and no call has failed.
Undisturbed == overlaps = 0 /\ crashes = 0 /\ failures = 0

\* The spec: with several connections, the user is online while one is active.  A
\* socket whose handshake is complete and that is up is in the Redis set.
ConnectedIsOnline ==
  \A s \in Sockets : wire[s] = "up" /\ conn[s] = "done" => s \in live

\* So it is while handlers run one at a time: no removal, DEL or expiry takes it out.
ConnectedIsOnlineInPeace == Undisturbed => ConnectedIsOnline

\* The spec sends presence at every change of status, and at the end of a connection
\* updates User.lastSeenAt.  Once no handler runs, and while they have run one at a time,
\* co-members were last told what is so, and lastSeenAt of an offline user is after its
\* last close.
PresenceIsTold ==
  Undisturbed /\ Quiet =>
    /\ told = IF live # {} THEN "online" ELSE "offline"
    /\ live = {} => lastSeen = Gone

AllDown == \A s \in Sockets : wire[s] = "down"

\* The comment of PresenceService: a user is online while a socket is registered, and
\* the TTL guards against crashed nodes.  When all connections have come and gone the
\* user is offline in the end.
OfflineInTheEnd == AllDown ~> (live = {})

\* What the TTL gives while handlers run one at a time, whatever nodes crash and whatever
\* calls fail: once the key has a TTL, what is left in it when all connections are gone
\* is removed or expires.
TtlCleansUp == (ttl /\ AllDown /\ overlaps = 0) ~> (live = {})
=============================================================================
