--------------------------- MODULE RealtimeProofs ---------------------------
(***************************************************************************)
(* Who is online, and whom an event reaches: theorems about Presence, for  *)
(* any number of sockets and nodes, and further down about Delivery, for   *)
(* any calls, users, devices and bounds.                                   *)
(***************************************************************************)
EXTENDS Presence, Delivery, FiniteSetTheorems, TLAPS

\* A user starts with no connection, and the types hold.
LEMMA TypesAtStart == Init => TypeOK
<1> SUFFICES ASSUME Init PROVE TypeOK
  OBVIOUS
<1>1. known \in [Sockets -> BOOLEAN] /\ beating \in [Sockets -> BOOLEAN]
  BY DEF Init
<1>2. ttl = FALSE
  BY DEF Init
<1>3. ttl \in BOOLEAN /\ (ttl => live # {})
  BY <1>2
<1> QED
  BY <1>1, <1>3, PresenceAssumption DEF Init, TypeOK, ConnPoints, DiscPoints

\* Every step keeps the types; nothing is taken out of the set for a socket without a user.
THEOREM TypeCorrect == Spec => []TypeOK
<1>1. Init => TypeOK
  BY TypesAtStart
<1>2. TypeOK /\ [Next]_vars => TypeOK'
  <2> SUFFICES ASSUME TypeOK, [Next]_vars PROVE TypeOK'
    OBVIOUS
  <2> USE PresenceAssumption DEF TypeOK, redis, sockets, faults, Elsewhere, ConnGo, DiscGo,
          ConnPoints, DiscPoints
  <2>0. ASSUME ComesOrGoes
        PROVE  overlaps' \in 0..MaxOverlaps /\ UNCHANGED <<told, lastSeen, crashes, failures>>
    BY <2>0 DEF ComesOrGoes
  <2>1. ASSUME NEW s \in Sockets, Open(s) PROVE TypeOK'
    BY <2>0, <2>1 DEF Open
  <2>2. ASSUME NEW s \in Sockets, Close(s) PROVE TypeOK'
    BY <2>0, <2>2 DEF Close, Closed, Deregister, StopHeartbeat
  <2>3. ASSUME NEW s \in Sockets, Reject(s), UNCHANGED <<overlaps, crashes>>,
               failures' \in 0..MaxFailures
        PROVE TypeOK'
    BY <2>3 DEF Reject, Closed, Deregister, StopHeartbeat
  <2>4. ASSUME NEW s \in Sockets, ConnStep(s) PROVE TypeOK'
    <3>1. CASE Authenticate(s)
      <4>1. CASE Reject(s)
        BY <3>1, <4>1, <2>3 DEF Authenticate
      <4>2. CASE ~Reject(s)
        <5>1. known' = [known EXCEPT ![s] = TRUE]
          BY <3>1, <4>2 DEF Authenticate
        <5>2. known' \in [Sockets -> BOOLEAN]
          BY <5>1
        <5>3. \A t \in Sockets : known[t] => known'[t]
          BY <5>1
        <5> QED
          BY <3>1, <4>2, <5>2, <5>3 DEF Authenticate
      <4> QED
        BY <4>1, <4>2
    <3>2. CASE JoinRooms(s) \/ Sadd(s)
      BY <3>2 DEF JoinRooms, Sadd
    <3>3. CASE Expire(s)
      BY <3>3 DEF Expire
    <3>4. CASE CountIn(s)
      BY <3>4 DEF CountIn
    <3>5. CASE TellOnline(s)
      BY <3>5 DEF TellOnline
    <3> QED
      BY <2>4, <3>1, <3>2, <3>3, <3>4, <3>5 DEF ConnStep
  <2>5. ASSUME NEW s \in Sockets, DiscStep(s) PROVE TypeOK'
    <3>1. CASE Srem(s)
      BY <3>1 DEF Srem
    <3>2. CASE CountOut(s)
      BY <3>2 DEF CountOut
    <3>4. CASE Del(s)
      <4>1. ttl' = FALSE
        BY <3>4 DEF Del
      <4>2. ttl' \in BOOLEAN /\ ~ttl'
        BY <4>1
      <4> QED
        BY <3>4, <4>2 DEF Del
    <3>3. CASE Seen(s) \/ TellOffline(s)
      BY <3>3 DEF Seen, TellOffline, Gone
    <3> QED
      BY <2>5, <3>1, <3>2, <3>3, <3>4 DEF DiscStep
  <2>6. ASSUME NEW s \in Sockets, Heartbeat(s) PROVE TypeOK'
    BY <2>6 DEF Heartbeat
  <2>7. ASSUME NEW s \in Sockets, ConnFails(s) PROVE TypeOK'
    BY <2>7, <2>3 DEF ConnFails
  <2>8. ASSUME NEW s \in Sockets, DiscFails(s) PROVE TypeOK'
    BY <2>8 DEF DiscFails, Leaving
  <2>9. ASSUME NEW n \in Nodes, Crash(n) PROVE TypeOK'
    <3>1. PICK mine \in SUBSET Sockets :
            /\ wire' = [s \in Sockets |-> IF s \in mine THEN "down" ELSE wire[s]]
            /\ conn' = [s \in Sockets |-> IF s \in mine THEN "done" ELSE conn[s]]
            /\ disc' = [s \in Sockets |-> IF s \in mine THEN "done" ELSE disc[s]]
            /\ beating' = [s \in Sockets |-> IF s \in mine THEN FALSE ELSE beating[s]]
      BY <2>9 DEF Crash
    <3>2. beating' \in [Sockets -> BOOLEAN]
      BY <3>1
    <3>3. UNCHANGED <<home, live, ttl, known, told, lastSeen, overlaps, failures>>
      BY <2>9 DEF Crash
    <3>4. crashes' \in 0..MaxCrashes
      BY <2>9 DEF Crash
    <3> QED
      BY <3>1, <3>2, <3>3, <3>4
  <2>10. CASE KeyExpires
    BY <2>10 DEF KeyExpires
  <2>11. CASE Finished \/ UNCHANGED vars
    BY <2>11 DEF Finished, vars
  <2> QED
    BY <2>1, <2>2, <2>4, <2>5, <2>6, <2>7, <2>8, <2>9, <2>10, <2>11 DEF Next
<1> QED
  BY <1>1, <1>2, PTL DEF Spec

-----------------------------------------------------------------------------
(* Handlers one at a time, no crash and no failure.                        *)

Busy == Connecting \cup Leaving
OneHandler == \A s, t \in Busy : s = t

\* How far a socket is in its life.
LifeFits(s) ==
  /\ conn[s] = "idle" <=> wire[s] = "new"
  /\ s \in Connecting => wire[s] = "up"
  /\ wire[s] \in {"new", "up"} => disc[s] = "idle"
  /\ known[s] => conn[s] \notin {"idle", "auth"}
  /\ wire[s] = "up" /\ conn[s] # "auth" => known[s]

\* Which sockets are in the set, and which of them renew its TTL.
SetFits(s) ==
  /\ wire[s] = "up" /\ conn[s] \in {"expire", "count", "tell", "done"} => s \in live
  /\ s \in live => beating[s] \/ conn[s] \in {"expire", "count"} \/ disc[s] = "srem"
  /\ beating[s] <=> wire[s] = "up" /\ conn[s] \in {"tell", "done"}
  /\ conn[s] = "expire" /\ ttl => live # {s}
  /\ disc[s] = "del" => live = {}

SerialInv ==
  /\ TypeOK
  /\ OneHandler
  /\ \A s \in Sockets : LifeFits(s) /\ SetFits(s)

\* An empty set of socket ids is one that SCARD counts as 0.
LEMMA EmptyWhenCountedZero == ASSUME TypeOK PROVE BecameOffline <=> live = {}
<1>1. IsFiniteSet(live)
  BY FS_Subset, PresenceAssumption DEF TypeOK
<1> QED
  BY <1>1, FS_EmptySet DEF BecameOffline

\* Every step of handlers that run one at a time keeps the invariant.
LEMMA SerialInvNext ==
  ASSUME SerialInv, Undisturbed', TypeOK', [Next]_vars
  PROVE  SerialInv'
<1> USE DEF redis, sockets, faults, Elsewhere, ConnGo, DiscGo, ConnPoints, DiscPoints
<1>0. TypeOK
  BY DEF SerialInv
<1>q. ASSUME ComesOrGoes PROVE Quiet /\ UNCHANGED <<told, lastSeen, crashes, failures>>
  BY <1>0, <1>q, PresenceAssumption DEF ComesOrGoes, Undisturbed, TypeOK
<1>1. ASSUME NEW s \in Sockets, Open(s) PROVE SerialInv'
  BY <1>1, <1>q DEF Open, SerialInv, TypeOK, Quiet, Busy, OneHandler, Connecting, Leaving, LifeFits,
     SetFits
<1>2. ASSUME NEW s \in Sockets, Close(s) PROVE SerialInv'
  BY <1>2, <1>q DEF Close, Closed, Deregister, StopHeartbeat, SerialInv, TypeOK, Quiet, Busy,
     OneHandler, Connecting, Leaving, LifeFits, SetFits
<1>3. ASSUME NEW s \in Sockets, Authenticate(s) PROVE SerialInv'
  BY <1>3 DEF Authenticate, Reject, Closed, Deregister, StopHeartbeat, SerialInv, TypeOK, Busy,
     OneHandler, Connecting, Leaving, LifeFits, SetFits
<1>4. ASSUME NEW s \in Sockets, JoinRooms(s) PROVE SerialInv'
  BY <1>4 DEF JoinRooms, SerialInv, TypeOK, Busy, OneHandler, Connecting, Leaving, LifeFits,
     SetFits
<1>5. ASSUME NEW s \in Sockets, Sadd(s) PROVE SerialInv'
  BY <1>5 DEF Sadd, SerialInv, TypeOK, Busy, OneHandler, Connecting, Leaving, LifeFits, SetFits
<1>6. ASSUME NEW s \in Sockets, Expire(s) PROVE SerialInv'
  BY <1>6 DEF Expire, SerialInv, TypeOK, Busy, OneHandler, Connecting, Leaving, LifeFits,
     SetFits
<1>7. ASSUME NEW s \in Sockets, CountIn(s) PROVE SerialInv'
  BY <1>7 DEF CountIn, SerialInv, TypeOK, Busy, OneHandler, Connecting, Leaving, LifeFits,
     SetFits
<1>8. ASSUME NEW s \in Sockets, TellOnline(s) PROVE SerialInv'
  BY <1>8 DEF TellOnline, SerialInv, TypeOK, Busy, OneHandler, Connecting, Leaving, LifeFits,
     SetFits
<1>9. ASSUME NEW s \in Sockets, Srem(s) PROVE SerialInv'
  BY <1>9 DEF Srem, SerialInv, TypeOK, Busy, OneHandler, Connecting, Leaving, LifeFits, SetFits
<1>10. ASSUME NEW s \in Sockets, CountOut(s) PROVE SerialInv'
  BY <1>0, <1>10, EmptyWhenCountedZero
  DEF CountOut, SerialInv, TypeOK, Busy, OneHandler, Connecting, Leaving, LifeFits, SetFits
<1>11. ASSUME NEW s \in Sockets, Del(s) PROVE SerialInv'
  BY <1>11 DEF Del, SerialInv, TypeOK, Busy, OneHandler, Connecting, Leaving, LifeFits, SetFits
<1>12. ASSUME NEW s \in Sockets, Seen(s) \/ TellOffline(s) PROVE SerialInv'
  BY <1>12 DEF Seen, TellOffline, SerialInv, TypeOK, Busy, OneHandler, Connecting, Leaving,
     LifeFits, SetFits
<1>13. ASSUME NEW s \in Sockets, Heartbeat(s) PROVE SerialInv'
  BY <1>13 DEF Heartbeat, SerialInv, TypeOK, Busy, OneHandler, Connecting, Leaving, LifeFits,
     SetFits
<1>14. CASE KeyExpires
  BY <1>14 DEF KeyExpires, SerialInv, TypeOK, Busy, OneHandler, Connecting, Leaving, LifeFits,
     SetFits
<1>15. ASSUME NEW s \in Sockets, ConnFails(s) \/ DiscFails(s) PROVE FALSE
  BY <1>15, <1>0, PresenceAssumption DEF ConnFails, DiscFails, TypeOK, Undisturbed
<1>16. ASSUME NEW n \in Nodes, Crash(n) PROVE FALSE
  BY <1>16, <1>0, PresenceAssumption DEF Crash, TypeOK, Undisturbed
<1>17. CASE Finished \/ UNCHANGED vars
  BY <1>17 DEF Finished, vars, SerialInv, TypeOK, Busy, OneHandler, Connecting, Leaving,
     LifeFits, SetFits
<1> QED
  BY <1>1, <1>2, <1>3, <1>4, <1>5, <1>6, <1>7, <1>8, <1>9, <1>10, <1>11, <1>12, <1>13, <1>14,
     <1>15, <1>16, <1>17 DEF Next, ConnStep, DiscStep

\* What has been disturbed stays so.
LEMMA UndisturbedBefore ==
  ASSUME TypeOK, Undisturbed', [Next]_vars
  PROVE  Undisturbed
<1> USE DEF Elsewhere, faults
<1>1. overlaps \in Nat /\ crashes \in Nat /\ failures \in Nat
  BY PresenceAssumption DEF TypeOK
<1>2. \/ UNCHANGED faults
      \/ overlaps' \in {overlaps, overlaps + 1} /\ UNCHANGED <<crashes, failures>>
      \/ crashes' = crashes + 1
      \/ failures' = failures + 1
  <2>1. ASSUME NEW s \in Sockets, Open(s) \/ Close(s)
        PROVE  overlaps' \in {overlaps, overlaps + 1} /\ UNCHANGED <<crashes, failures>>
    BY <2>1 DEF Open, Close, ComesOrGoes
  <2>2. ASSUME NEW s \in Sockets, ConnStep(s) PROVE UNCHANGED faults
    BY <2>2 DEF ConnStep, Authenticate, JoinRooms, Sadd, Expire, CountIn, TellOnline
  <2>3. ASSUME NEW s \in Sockets, DiscStep(s) \/ Heartbeat(s) PROVE UNCHANGED faults
    BY <2>3 DEF DiscStep, Srem, CountOut, Del, Seen, TellOffline, Heartbeat
  <2>4. ASSUME NEW s \in Sockets, ConnFails(s) \/ DiscFails(s) PROVE failures' = failures + 1
    BY <2>4 DEF ConnFails, DiscFails
  <2>5. ASSUME NEW n \in Nodes, Crash(n) PROVE crashes' = crashes + 1
    BY <2>5 DEF Crash
  <2>6. CASE KeyExpires \/ Finished \/ UNCHANGED vars
    BY <2>6 DEF KeyExpires, Finished, vars
  <2> QED
    BY <2>1, <2>2, <2>3, <2>4, <2>5, <2>6 DEF Next
<1> QED
  BY <1>1, <1>2 DEF Undisturbed

\* Handlers that run one at a time, with no crash and no failure, keep the invariant.
LEMMA SerialInvAlways == Spec => [](Undisturbed => SerialInv)
<1>1. Init => SerialInv
  <2> SUFFICES ASSUME Init PROVE SerialInv
    OBVIOUS
  <2>1. TypeOK
    BY TypesAtStart
  <2>2. Busy = {}
    BY DEF Init, Busy, Connecting, Leaving
  <2> QED
    BY <2>1, <2>2 DEF Init, SerialInv, OneHandler, LifeFits, SetFits, Connecting
<1>2. (Undisturbed => SerialInv) /\ TypeOK /\ TypeOK' /\ [Next]_vars
        => (Undisturbed => SerialInv)'
  BY SerialInvNext, UndisturbedBefore
<1> QED
  BY <1>1, <1>2, TypeCorrect, PTL DEF Spec

\* As long as handlers have run one at a time, no node has crashed and no call has failed,
\* a socket that has completed its handshake stays in the Redis set until it closes:
\* neither the removal of another socket, nor the expiry of the key, takes it out.
THEOREM SerialPresence == Spec => []ConnectedIsOnlineInPeace
<1>1. (Undisturbed => SerialInv) => ConnectedIsOnlineInPeace
  BY DEF SerialInv, SetFits, ConnectedIsOnline, ConnectedIsOnlineInPeace
<1> QED
  BY <1>1, SerialInvAlways, PTL

-----------------------------------------------------------------------------
(* What the co-members are told.                                           *)

ToldRight == told = IF live # {} THEN "online" ELSE "offline"

\* Why the co-members may not know: the first socket is being counted or announced, or the
\* last one is on its way out.
OnItsWay(s) ==
  \/ conn[s] \in {"expire", "count"} /\ live = {s}
  \/ conn[s] = "tell"
  \/ s \in Leaving /\ live = {}

TellInv ==
  /\ ToldRight \/ \E s \in Sockets : OnItsWay(s)
  /\ (live = {} /\ Leaving = {}) => lastSeen = Gone
  /\ \A s \in Sockets : /\ disc[s] \in {"del", "seen", "tell"} => live = {}
                        /\ disc[s] = "tell" => lastSeen = Gone

\* A set of one socket id is one that SCARD counts as 1.
LEMMA OneWhenAlone == ASSUME NEW s, live = {s} PROVE BecameOnline
  BY FS_Singleton DEF BecameOnline

\* Every step of handlers that run one at a time keeps what the co-members know.
LEMMA TellInvNext ==
  ASSUME SerialInv, TellInv, Undisturbed', TypeOK', [Next]_vars
  PROVE  TellInv'
<1> USE DEF redis, sockets, faults, Elsewhere, ConnGo, DiscGo
<1>0. TypeOK /\ OneHandler /\ \A s \in Sockets : LifeFits(s) /\ SetFits(s)
  BY DEF SerialInv
<1>q. ASSUME ComesOrGoes PROVE Quiet /\ UNCHANGED <<told, lastSeen, crashes, failures>>
  BY <1>0, <1>q, PresenceAssumption DEF ComesOrGoes, Undisturbed, TypeOK
<1>c. ASSUME NEW s \in Connecting
      PROVE  /\ Leaving = {} /\ wire[s] = "up"
             /\ \A t \in Sockets \ {s} : conn[t] \in {"idle", "done"}
  <2>1. disc[s] = "idle" /\ wire[s] = "up"
    BY <1>0, <1>c DEF LifeFits, Connecting
  <2>2. \A t \in Sockets \ {s} : t \notin Busy
    BY <1>0, <1>c DEF OneHandler, Busy, Connecting
  <2> QED
    BY <2>1, <2>2 DEF Busy, Connecting, Leaving
<1>l. ASSUME NEW s \in Leaving
      PROVE  /\ Connecting = {} /\ \A t \in Sockets \ {s} : t \notin Leaving
  <2>1. conn[s] \in {"idle", "done"}
    BY <1>0, <1>l DEF LifeFits, Connecting, Leaving
  <2>2. \A t \in Sockets \ {s} : t \notin Busy
    BY <1>0, <1>l DEF OneHandler, Busy, Leaving
  <2> QED
    BY <2>1, <2>2 DEF Busy, Connecting
<1>e. ASSUME Quiet PROVE ToldRight /\ (live = {} => lastSeen = Gone)
  BY <1>e DEF Quiet, Connecting, TellInv, OnItsWay
<1>1. ASSUME NEW s \in Sockets, Open(s) PROVE TellInv'
  <2>1. Quiet /\ UNCHANGED <<live, told, lastSeen, known, disc>>
    BY <1>1, <1>q DEF Open
  <2>2. wire[s] = "new" /\ wire' = [wire EXCEPT ![s] = "up"]
    BY <1>1 DEF Open
  <2>3. Gone' = Gone
    BY <1>0, <2>1, <2>2 DEF Gone, TypeOK
  <2> QED
    BY <1>e, <2>1, <2>3 DEF TellInv, ToldRight, Quiet, Leaving
<1>2. ASSUME NEW s \in Sockets, Close(s) PROVE TellInv'
  <2>1. /\ Quiet /\ UNCHANGED <<live, told, lastSeen, known>>
        /\ wire[s] = "up" /\ known[s] /\ disc' = [disc EXCEPT ![s] = "srem"]
    <3>1. Quiet /\ wire[s] = "up" /\ UNCHANGED <<live, told, lastSeen, known>>
      BY <1>2, <1>q DEF Close
    <3>2. known[s]
      BY <1>0, <3>1 DEF Quiet, Connecting, LifeFits
    <3> QED
      BY <1>2, <3>1, <3>2 DEF Close, Closed, Deregister
  <2>2. s \in Leaving'
    BY <1>0, <2>1 DEF Leaving, TypeOK
  <2>3. \A t \in Sockets : disc'[t] \notin {"del", "seen", "tell"}
    BY <1>0, <2>1 DEF Quiet, Leaving, TypeOK, DiscPoints
  <2> QED
    BY <1>e, <2>1, <2>2, <2>3 DEF TellInv, ToldRight
<1>3. ASSUME NEW s \in Sockets, Authenticate(s) PROVE TellInv'
  <2>1. s \in Connecting /\ conn[s] = "auth"
    BY <1>3 DEF Authenticate, Connecting
  <2>2. ToldRight /\ (live = {} => lastSeen = Gone)
    BY <1>c, <2>1 DEF TellInv, OnItsWay
  <2>3. ~known[s] /\ wire[s] = "up" /\ Leaving = {}
    BY <1>0, <1>c, <2>1 DEF LifeFits
  <2>4. UNCHANGED <<live, told, lastSeen>>
    BY <1>3 DEF Authenticate, Reject
  <2>5. Gone' = Gone /\ \A t \in Sockets : disc'[t] \in {"idle", "done"}
    <3>1. \/ known' = [known EXCEPT ![s] = TRUE] /\ UNCHANGED <<wire, disc>>
          \/ /\ wire' = [wire EXCEPT ![s] = "down"] /\ UNCHANGED known
             /\ disc' = [disc EXCEPT ![s] = "done"]
      BY <1>3, <2>3 DEF Authenticate, Reject, Closed, Deregister
    <3> QED
      BY <1>0, <2>3, <3>1 DEF Gone, TypeOK, Leaving
  <2> QED
    BY <2>2, <2>4, <2>5 DEF TellInv, ToldRight
<1>4. ASSUME NEW s \in Sockets, JoinRooms(s) PROVE TellInv'
  <2>1. s \in Connecting /\ conn[s] = "rooms"
    BY <1>4 DEF JoinRooms, Connecting
  <2>2. ToldRight
    BY <1>c, <2>1 DEF TellInv, OnItsWay
  <2> QED
    BY <1>4, <2>2 DEF JoinRooms, TellInv, ToldRight, Leaving, Gone
<1>5. ASSUME NEW s \in Sockets, Sadd(s) PROVE TellInv'
  <2>1. s \in Connecting /\ conn[s] = "sadd"
    BY <1>5 DEF Sadd, Connecting
  <2>2. ToldRight /\ Leaving = {}
    BY <1>c, <2>1 DEF TellInv, OnItsWay
  <2>3. /\ conn' = [conn EXCEPT ![s] = "expire"] /\ live' = live \cup {s}
        /\ UNCHANGED <<disc, told>>
    BY <1>5 DEF Sadd
  <2>4. live' # {} /\ (live = {} => live' = {s}) /\ conn'[s] = "expire"
    BY <1>0, <2>3 DEF TypeOK
  <2>5. ToldRight' \/ OnItsWay(s)'
    BY <2>2, <2>3, <2>4 DEF ToldRight, OnItsWay
  <2>6. \A t \in Sockets : disc'[t] \in {"idle", "done"}
    BY <2>2, <2>3 DEF Leaving
  <2> QED
    BY <2>4, <2>5, <2>6 DEF TellInv
<1>6. ASSUME NEW s \in Sockets, Expire(s) PROVE TellInv'
  <2>1. s \in Connecting /\ conn[s] = "expire"
    BY <1>6 DEF Expire, Connecting
  <2>2. ToldRight \/ live = {s}
    BY <1>c, <2>1 DEF TellInv, OnItsWay
  <2>3. /\ conn' = [conn EXCEPT ![s] = "count"]
        /\ UNCHANGED <<live, disc, told, lastSeen, wire, known>>
    BY <1>6 DEF Expire
  <2>4. ToldRight' \/ OnItsWay(s)'
    BY <1>0, <2>2, <2>3 DEF ToldRight, OnItsWay, TypeOK
  <2> QED
    BY <2>3, <2>4 DEF TellInv, Leaving, Gone
<1>7. ASSUME NEW s \in Sockets, CountIn(s) PROVE TellInv'
  <2>1. s \in Connecting /\ conn[s] = "count"
    BY <1>7 DEF CountIn, Connecting
  <2>2. ToldRight \/ live = {s}
    BY <1>c, <2>1 DEF TellInv, OnItsWay
  <2>3. /\ conn' = [conn EXCEPT ![s] = IF BecameOnline THEN "tell" ELSE "done"]
        /\ UNCHANGED <<live, disc, told, lastSeen, wire, known>>
    BY <1>7 DEF CountIn
  <2>4. ToldRight' \/ OnItsWay(s)'
    <3>1. CASE ToldRight
      BY <2>3, <3>1 DEF ToldRight
    <3>2. CASE live = {s}
      BY <1>0, <2>3, <3>2, OneWhenAlone DEF OnItsWay, TypeOK
    <3> QED
      BY <2>2, <3>1, <3>2
  <2> QED
    BY <2>3, <2>4 DEF TellInv, Leaving, Gone
<1>8. ASSUME NEW s \in Sockets, TellOnline(s) PROVE TellInv'
  <2>1. s \in Connecting /\ conn[s] = "tell"
    BY <1>8 DEF TellOnline, Connecting
  <2>2. s \in live
    BY <1>0, <1>c, <2>1 DEF SetFits
  <2>3. told' = "online" /\ UNCHANGED <<live, disc, lastSeen, wire, known>>
    BY <1>8 DEF TellOnline
  <2> QED
    BY <2>2, <2>3 DEF TellInv, ToldRight, Leaving, Gone
<1>9. ASSUME NEW s \in Sockets, Srem(s) PROVE TellInv'
  <2>1. s \in Leaving /\ disc[s] = "srem"
    BY <1>9 DEF Srem, Leaving
  <2>2. ToldRight \/ live = {}
    BY <1>l, <2>1 DEF TellInv, OnItsWay, Connecting
  <2>3. /\ live' = live \ {s} /\ disc' = [disc EXCEPT ![s] = "count"]
        /\ UNCHANGED <<told, conn>>
    BY <1>9 DEF Srem
  <2>4. s \in Leaving'
    BY <1>0, <2>3 DEF Leaving, TypeOK
  <2>5. ToldRight' \/ OnItsWay(s)'
    BY <2>2, <2>3, <2>4 DEF ToldRight, OnItsWay
  <2>6. \A t \in Sockets : disc'[t] \notin {"del", "seen", "tell"}
    BY <1>0, <1>l, <2>1, <2>3 DEF Leaving, TypeOK
  <2> QED
    BY <2>4, <2>5, <2>6 DEF TellInv
<1>10. ASSUME NEW s \in Sockets, CountOut(s) PROVE TellInv'
  <2>1. s \in Leaving /\ disc[s] = "count"
    BY <1>10 DEF CountOut, Leaving
  <2>2. ToldRight \/ live = {}
    BY <1>l, <2>1 DEF TellInv, OnItsWay, Connecting
  <2>3. /\ disc' = [disc EXCEPT ![s] = IF live = {} THEN "del" ELSE "done"]
        /\ UNCHANGED <<live, told>>
    BY <1>0, <1>10, EmptyWhenCountedZero DEF CountOut
  <2>4. \A t \in Sockets : disc'[t] \in {"idle", "done"} \/ (t = s /\ live = {} /\ disc'[t] = "del")
    BY <1>0, <1>l, <2>1, <2>3 DEF Leaving, TypeOK
  <2>5. CASE live = {}
    <3>1. s \in Leaving'
      BY <1>0, <2>3, <2>5 DEF Leaving, TypeOK
    <3> QED
      BY <2>3, <2>4, <2>5, <3>1 DEF TellInv, OnItsWay
  <2>6. CASE live # {}
    BY <2>2, <2>3, <2>4, <2>6 DEF TellInv, ToldRight
  <2> QED
    BY <2>5, <2>6
<1>11. ASSUME NEW s \in Sockets, Del(s) PROVE TellInv'
  <2>1. disc' = [disc EXCEPT ![s] = "seen"] /\ live' = {} /\ disc[s] = "del"
    BY <1>11 DEF Del
  <2>2. s \in Leaving' /\ disc'[s] = "seen"
    BY <1>0, <2>1 DEF Leaving, TypeOK
  <2>3. \A t \in Sockets : disc'[t] # "tell"
    BY <1>0, <1>l, <2>1, <2>2 DEF Leaving, TypeOK
  <2> QED
    BY <2>1, <2>2, <2>3 DEF TellInv, OnItsWay
<1>12. ASSUME NEW s \in Sockets, Seen(s) PROVE TellInv'
  <2>1. /\ disc' = [disc EXCEPT ![s] = "tell"] /\ disc[s] = "seen"
        /\ lastSeen' = Gone /\ UNCHANGED <<live, wire, known>>
    BY <1>12 DEF Seen
  <2>2. live = {}
    BY <2>1 DEF TellInv
  <2>3. s \in Leaving' /\ Gone' = Gone
    BY <1>0, <2>1 DEF Leaving, Gone, TypeOK
  <2> QED
    BY <2>1, <2>2, <2>3 DEF TellInv, OnItsWay
<1>13. ASSUME NEW s \in Sockets, TellOffline(s) PROVE TellInv'
  <2>1. /\ disc' = [disc EXCEPT ![s] = "done"] /\ disc[s] = "tell"
        /\ told' = "offline" /\ UNCHANGED <<live, lastSeen, wire, known>>
    BY <1>13 DEF TellOffline
  <2>2. live = {} /\ lastSeen = Gone
    BY <2>1 DEF TellInv
  <2>3. Gone' = Gone
    BY <2>1 DEF Gone
  <2> QED
    BY <2>1, <2>2, <2>3 DEF TellInv, ToldRight
<1>14. ASSUME NEW s \in Sockets, Heartbeat(s) PROVE TellInv'
  <2>1. UNCHANGED <<live, told, lastSeen, wire, known, conn, disc>>
    BY <1>14 DEF Heartbeat
  <2> QED
    BY <2>1 DEF TellInv, ToldRight, OnItsWay, Leaving, Gone
<1>15. CASE KeyExpires
  <2>1. /\ live # {} /\ \A t \in Sockets : ~beating[t] /\ conn[t] # "count"
        /\ ttl /\ live' = {} /\ UNCHANGED <<told, lastSeen, wire, known, conn, disc>>
    BY <1>15 DEF KeyExpires
  <2>2. PICK s \in live : s \in Sockets
    BY <1>0, <2>1 DEF TypeOK
  <2>3. \A t \in live : t \in Sockets /\ (conn[t] = "expire" \/ disc[t] = "srem")
    BY <1>0, <2>1 DEF SetFits, TypeOK
  <2>4. disc[s] = "srem"
    <3>1. CASE conn[s] = "expire"
      <4>1. s \in Connecting
        BY <2>2, <3>1 DEF Connecting
      <4>2. live = {s}
        BY <1>c, <2>2, <2>3, <4>1 DEF Leaving
      <4> QED
        BY <1>0, <2>1, <2>2, <3>1, <4>2 DEF SetFits
    <3> QED
      BY <2>2, <2>3, <3>1
  <2>5. s \in Leaving /\ Leaving' = Leaving
    BY <2>1, <2>2, <2>4 DEF Leaving
  <2>6. \A t \in Sockets : disc'[t] # "tell"
    BY <1>l, <2>1, <2>4, <2>5 DEF Leaving
  <2> QED
    BY <2>1, <2>2, <2>5, <2>6 DEF TellInv, OnItsWay
<1>16. ASSUME NEW s \in Sockets, ConnFails(s) \/ DiscFails(s) PROVE FALSE
  BY <1>16, <1>0, PresenceAssumption DEF ConnFails, DiscFails, TypeOK, Undisturbed
<1>17. ASSUME NEW n \in Nodes, Crash(n) PROVE FALSE
  BY <1>17, <1>0, PresenceAssumption DEF Crash, TypeOK, Undisturbed
<1>18. CASE Finished \/ UNCHANGED vars
  <2>1. UNCHANGED <<live, told, lastSeen, wire, known, conn, disc>>
    BY <1>18 DEF Finished, vars
  <2> QED
    BY <2>1 DEF TellInv, ToldRight, OnItsWay, Leaving, Gone
<1> QED
  BY <1>1, <1>2, <1>3, <1>4, <1>5, <1>6, <1>7, <1>8, <1>9, <1>10, <1>11, <1>12, <1>13, <1>14,
     <1>15, <1>16, <1>17, <1>18 DEF Next, ConnStep, DiscStep

\* The spec: presence is sent at every change of status, and lastSeenAt updated at the end
\* of a connection.  As long as handlers have run one at a time, no node has crashed and no
\* call has failed, the co-members of a user none of whose handlers runs were last told what
\* is so, and lastSeenAt of an offline user is after its last close.
THEOREM SerialTold == Spec => []PresenceIsTold
<1>1. Init => TellInv
  BY DEF Init, TellInv, ToldRight, Leaving, Gone
<1>2. /\ Undisturbed => SerialInv
      /\ Undisturbed => TellInv
      /\ TypeOK /\ TypeOK' /\ [Next]_vars
      => (Undisturbed => TellInv)'
  BY TellInvNext, UndisturbedBefore
<1>3. (Undisturbed => TellInv) => PresenceIsTold
  <2> SUFFICES ASSUME TellInv, Quiet
               PROVE  ToldRight /\ (live = {} => lastSeen = Gone)
    BY DEF PresenceIsTold, ToldRight
  <2>1. Connecting = {} /\ Leaving = {}
    BY DEF Quiet
  <2> QED
    BY <2>1 DEF TellInv, OnItsWay, Connecting
<1> QED
  BY <1>1, <1>2, <1>3, SerialInvAlways, TypeCorrect, PTL DEF Spec

-----------------------------------------------------------------------------
(***************************************************************************)
(* Delivery: who hears of an event, who is reached, and which devices      *)
(* keep their row.                                                         *)
(***************************************************************************)

-----------------------------------------------------------------------------
(* Types.                                                                  *)

LEMMA DeliveryTypesAtStart == DeliveryInit => DeliveryTypeOK
  BY DeliveryAssumption DEF DeliveryInit, DeliveryTypeOK, Kinds, Links, Points

LEMMA ChangesTypes ==
  ASSUME DeliveryTypeOK, active' \subseteq Users, NEW us, Changes(us)
  PROVE  /\ heard' \in [Calls -> SUBSET Users]
         /\ settled' \in [Calls -> SUBSET Users]
         /\ reach' \in [Calls -> SUBSET Devices]
         /\ UNCHANGED <<op, underway, got, pushed>>
<1>1. heard' \in [Calls -> SUBSET Users]
  BY DEF Changes, DeliveryTypeOK
<1>2. settled' \in [Calls -> SUBSET Users]
  BY DEF Changes, DeliveryTypeOK
<1>3. reach' \in [Calls -> SUBSET Devices]
  <2> DEFINE More(c) == {d \in Devices : owner'[d] \in heard'[c] \ {Sender(c)}}
  <2>1. \A c \in Calls : reach[c] \cup More(c) \subseteq Devices /\ reach[c] \subseteq Devices
    BY DEF DeliveryTypeOK
  <2>2. reach' = [c \in Calls |-> IF Running(c) THEN reach[c] \cup More(c) ELSE reach[c]]
    BY DEF Changes
  <2> QED
    BY <2>1, <2>2
<1> QED
  BY <1>1, <1>2, <1>3 DEF Changes, events

LEMMA DoesTypes ==
  ASSUME DeliveryTypeOK, active' \subseteq Users, muted' \subseteq Users,
         link' \in [Users -> Links],
         owner' \in [Devices -> Users \cup {Nobody}], gone' \subseteq Devices, NEW us, Does(us)
  PROVE  DeliveryTypeOK'
<1>1. changes' \in 0..MaxChanges
  BY DeliveryAssumption DEF Does, DeliveryTypeOK
<1> QED
  BY <1>1, ChangesTypes DEF Does, DeliveryTypeOK, local, Sender

LEMMA UserStepTypes == DeliveryTypeOK /\ UserSteps => DeliveryTypeOK'
<1> SUFFICES ASSUME DeliveryTypeOK, UserSteps PROVE DeliveryTypeOK'
  OBVIOUS
<1> USE DEF devices, people
<1>1. ASSUME NEW u \in Users, Enter(u) \/ Leave(u) \/ Unmute(u) PROVE DeliveryTypeOK'
  BY <1>1, DoesTypes DEF Enter, Leave, Unmute, DeliveryTypeOK
<1>2. ASSUME NEW u \in Users, Relink(u) PROVE DeliveryTypeOK'
  <2>1. PICK from \in Links, into \in Links : Moves(u, from, into)
    BY <1>2 DEF Relink, Links
  <2>2. link' \in [Users -> Links]
    BY <2>1 DEF Moves, DeliveryTypeOK
  <2> QED
    BY <2>1, <2>2, DoesTypes DEF Moves, DeliveryTypeOK
<1>3. ASSUME NEW u \in Users, NEW d \in Devices, RegisterToken(u, d) \/ RemoveToken(u, d)
      PROVE  DeliveryTypeOK'
  <2>1. owner' \in [Devices -> Users \cup {Nobody}]
    BY <1>3 DEF RegisterToken, RemoveToken, DeliveryTypeOK
  <2> QED
    BY <1>3, <2>1, DoesTypes DEF RegisterToken, RemoveToken, DeliveryTypeOK
<1>4. ASSUME NEW d \in Devices, Forget(d) PROVE DeliveryTypeOK'
  BY <1>4, DoesTypes DEF Forget, DeliveryTypeOK
<1> QED
  BY <1>1, <1>2, <1>3, <1>4 DEF UserSteps

LEMMA StepTypes ==
  ASSUME DeliveryTypeOK, NEW c \in Calls, Step(c)
  PROVE  DeliveryTypeOK'
<1> USE DEF Goes, people, devices, local, events, history
<1>1. CASE CheckMember(c)
  BY <1>1 DEF CheckMember, DeliveryTypeOK, Points, Sender
<1>2. CASE ReadRecipients(c)
  <2>1. Recipients(c) \subseteq Users
    BY DEF Recipients, DeliveryTypeOK
  <2> QED
    BY <1>2, <2>1 DEF ReadRecipients, DeliveryTypeOK, Points, Sender
<1>3. CASE Emit(c)
  <2>1. {c} \X to[c] \subseteq Calls \X Users
    BY DEF DeliveryTypeOK
  <2> QED
    BY <1>3, <2>1 DEF Emit, Pushable, DeliveryTypeOK, Points, Sender
<1>4. CASE ReadPresence(c)
  <2>1. PICK u \in asking[c] :
          /\ asking' = [asking EXCEPT ![c] = @ \ {u}]
          /\ to' = [to EXCEPT ![c] = IF Offline(u) THEN @ \cup {u} ELSE @]
    BY <1>4 DEF ReadPresence
  <2>2. u \in Users /\ u # Sender(c)
    BY <1>4, <2>1 DEF ReadPresence, DeliveryTypeOK
  <2>3. \E p \in {"presence", "muted", "done"} : pc' = [pc EXCEPT ![c] = p]
    BY <1>4 DEF ReadPresence
  <2>4. /\ pc[c] = "presence"
        /\ UNCHANGED <<active, muted, link, owner, gone, op, tokens, underway, got, pushed,
                       history, broken, changes>>
    BY <1>4 DEF ReadPresence
  <2> QED
    BY <2>1, <2>2, <2>3, <2>4 DEF DeliveryTypeOK, Points, Sender
<1>5. CASE ReadMuted(c)
  BY <1>5 DEF ReadMuted, DeliveryTypeOK, Points, Sender
<1>6. CASE ReadTokens(c)
  BY <1>6 DEF ReadTokens, DevicesOf, DeliveryTypeOK, Points, Sender
<1>7. CASE Send(c)
  <2>1. {c} \X tokens[c] \subseteq Calls \X Devices
    BY DEF DeliveryTypeOK
  <2>2. tokens' \in [Calls -> SUBSET Devices]
    BY <1>7 DEF Send, Refused, DeliveryTypeOK
  <2> QED
    BY <1>7, <2>1, <2>2 DEF Send, DeliveryTypeOK, Points, Sender
<1>8. CASE Purge(c)
  <2>1. owner' \in [Devices -> Users \cup {Nobody}]
    BY <1>8 DEF Purge, DeliveryTypeOK
  <2>2. PICK us : Changes(us)
    BY <1>8 DEF Purge
  <2> QED
    BY <1>8, <2>1, <2>2, ChangesTypes DEF Purge, DeliveryTypeOK, Points, Sender
<1> QED
  BY <1>1, <1>2, <1>3, <1>4, <1>5, <1>6, <1>7, <1>8 DEF Step

LEMMA TypesNext == DeliveryTypeOK /\ [DeliveryNext]_deliveryVars => DeliveryTypeOK'
<1> SUFFICES ASSUME DeliveryTypeOK, [DeliveryNext]_deliveryVars PROVE DeliveryTypeOK'
  OBVIOUS
<1> USE DEF people, devices, local, events, history
<1>1. ASSUME NEW c \in Calls, Arrive(c) PROVE DeliveryTypeOK'
  BY <1>1 DEF Arrive, DevicesOf, DeliveryTypeOK, Kinds, Points, Sender
<1>2. ASSUME NEW c \in Calls, Step(c) PROVE DeliveryTypeOK'
  BY <1>2, StepTypes
<1>3. ASSUME NEW c \in Calls, Fail(c) PROVE DeliveryTypeOK'
  BY <1>3 DEF Fail, DeliveryTypeOK, Points, Sender
<1>4. ASSUME NEW c \in Calls, NEW u \in Users, Deliver(c, u) PROVE DeliveryTypeOK'
  BY <1>4 DEF Deliver, DeliveryTypeOK, Sender
<1>5. CASE UserSteps
  BY <1>5, UserStepTypes
<1>6. CASE UNCHANGED deliveryVars
  BY <1>6 DEF deliveryVars, DeliveryTypeOK, Sender
<1> QED
  BY <1>1, <1>2, <1>3, <1>4, <1>5, <1>6 DEF DeliveryNext, Wait

\* The type invariant, for any calls, users and devices.
THEOREM DeliveryTypeCorrect == DeliverySpec => []DeliveryTypeOK
  BY DeliveryTypesAtStart, TypesNext, PTL DEF DeliverySpec

-----------------------------------------------------------------------------
(* Whatever was read is as old as the call.                                *)

Selected(c) ==
  /\ Running(c) => active \subseteq heard[c]
  /\ Running(c) => DevicesOf(heard[c] \ {Sender(c)}) \subseteq reach[c]
  /\ Running(c) => to[c] \cup asking[c] \subseteq heard[c]
  /\ pc[c] = "send" => tokens[c] \subseteq reach[c]
  /\ pc[c] = "idle" => to[c] \cup asking[c] = {}

\* What was sent or pushed is of a call that has begun.
Begun == \A e \in underway \cup got \cup pushed : pc[e[1]] # "idle"

HeardInv ==
  /\ DeliveryTypeOK
  /\ Begun
  /\ \A c \in Calls : Selected(c)
  /\ \A e \in underway : e[2] \in heard[e[1]]
  /\ OnlyMembersHear

LEMMA ChangesHear ==
  ASSUME DeliveryTypeOK, active' \subseteq Users, NEW us, Changes(us), NEW c \in Calls
  PROVE  /\ heard[c] \subseteq heard'[c] /\ reach[c] \subseteq reach'[c]
         /\ Running(c) => /\ active' \subseteq heard'[c]
                          /\ DevicesOf(heard[c] \ {Sender(c)})' \subseteq reach'[c]
  BY DEF Changes, DevicesOf, Running, Sender, DeliveryTypeOK

\* What users do, and a purge, only add to what may be told.
LEMMA ChangesKeepHeard ==
  ASSUME HeardInv, DeliveryTypeOK', NEW us, Changes(us), UNCHANGED local,
         \A c \in Calls : pc'[c] \in {pc[c], "done"}
  PROVE  HeardInv'
<1>1. \A c \in Calls :
        /\ heard[c] \subseteq heard'[c] /\ reach[c] \subseteq reach'[c]
        /\ Running(c) => /\ active' \subseteq heard'[c]
                         /\ DevicesOf(heard[c] \ {Sender(c)})' \subseteq reach'[c]
  BY ChangesHear DEF HeardInv, DeliveryTypeOK
<1>2. \A c \in Calls : Selected(c)'
  <2> SUFFICES ASSUME NEW c \in Calls PROVE Selected(c)'
    OBVIOUS
  <2>1. Running(c)' => Running(c)
    BY DEF Running
  <2> QED
    BY <1>1, <2>1 DEF HeardInv, Selected, local, Running
<1>3. UNCHANGED <<underway, got, pushed>>
  BY DEF Changes, events
<1>4. (\A e \in underway : e[2] \in heard[e[1]])' /\ OnlyMembersHear'
  BY <1>1, <1>3 DEF HeardInv, OnlyMembersHear, DeliveryTypeOK
<1>5. Begun'
  BY <1>3 DEF HeardInv, Begun, DeliveryTypeOK
<1> QED
  BY <1>2, <1>4, <1>5 DEF HeardInv

LEMMA StepHears ==
  ASSUME HeardInv, NEW c \in Calls, Step(c), ~Purge(c)
  PROVE  HeardInv'
<1> USE DEF Goes, people, devices, local, events, history
<1>1. DeliveryTypeOK' /\ DeliveryTypeOK
  BY StepTypes DEF HeardInv
<1>2. /\ UNCHANGED <<active, owner, op, heard, reach>>
      /\ Running(c)
      /\ \A b \in Calls \ {c} : 
              /\ pc'[b] = pc[b] /\ to'[b] = to[b]
              /\ asking'[b] = asking[b] /\ tokens'[b] = tokens[b]
  BY <1>1 DEF Step, CheckMember, ReadRecipients, Emit, ReadPresence, ReadMuted, ReadTokens, Send,
              Running, DeliveryTypeOK
<1>3. \A b \in Calls \ {c} : Selected(b)'
  BY <1>2 DEF HeardInv, Selected, Running, Sender, DevicesOf
<1>4. /\ active \subseteq heard[c] /\ DevicesOf(heard[c] \ {Sender(c)}) \subseteq reach[c]
      /\ to[c] \cup asking[c] \subseteq heard[c]
      /\ pc[c] = "send" => tokens[c] \subseteq reach[c]
  BY <1>2 DEF HeardInv, Selected
<1>5. /\ to'[c] \cup asking'[c] \subseteq heard[c]
      /\ pc'[c] = "send" => tokens'[c] \subseteq reach[c]
  <2>1. CASE CheckMember(c)
    BY <1>1, <1>4, <2>1 DEF CheckMember, DeliveryTypeOK
  <2>2. CASE ReadRecipients(c)
    BY <1>1, <1>4, <2>2 DEF ReadRecipients, Recipients, DeliveryTypeOK
  <2>3. CASE Emit(c)
    BY <1>1, <1>4, <2>3 DEF Emit, DeliveryTypeOK
  <2>4. CASE ReadPresence(c)
    BY <1>1, <1>4, <2>4 DEF ReadPresence, DeliveryTypeOK
  <2>5. CASE ReadMuted(c)
    BY <1>1, <1>4, <2>5 DEF ReadMuted, DeliveryTypeOK
  <2>6. CASE ReadTokens(c)
    BY <1>1, <1>4, <2>6 DEF ReadTokens, DevicesOf, DeliveryTypeOK
  <2>7. CASE Send(c)
    BY <1>1, <1>4, <2>7 DEF Send, DeliveryTypeOK
  <2> QED
    BY <2>1, <2>2, <2>3, <2>4, <2>5, <2>6, <2>7 DEF Step
<1>6. Selected(c)'
  <2>1. pc'[c] # "idle"
    BY <1>1 DEF Step, CheckMember, ReadRecipients, Emit, ReadPresence, ReadMuted, ReadTokens,
       Send, DeliveryTypeOK
  <2> QED
    BY <1>2, <1>4, <1>5, <2>1 DEF Selected, Running, Sender, DevicesOf
<1>7. \A e \in underway' : e[2] \in heard'[e[1]]
  <2>1. underway' = underway \/ underway' = underway \cup ({c} \X to[c])
    BY DEF Step, CheckMember, ReadRecipients, Emit, ReadPresence, ReadMuted, ReadTokens, Send
  <2> QED
    BY <1>2, <1>4, <2>1 DEF HeardInv
<1>8. OnlyMembersHear'
  <2>1. got' = got
    BY DEF Step, CheckMember, ReadRecipients, Emit, ReadPresence, ReadMuted, ReadTokens, Send
  <2>2. pushed' = pushed \/ (pc[c] = "send" /\ pushed' = pushed \cup ({c} \X tokens[c]))
    BY DEF Step, CheckMember, ReadRecipients, Emit, ReadPresence, ReadMuted, ReadTokens, Send
  <2> QED
    BY <1>2, <1>4, <2>1, <2>2 DEF HeardInv, OnlyMembersHear
<1>9. Begun'
  <2>1. \A b \in Calls : pc[b] # "idle" => pc'[b] # "idle"
    BY <1>1, <1>2 DEF Step, CheckMember, ReadRecipients, Emit, ReadPresence, ReadMuted,
       ReadTokens, Send,
              DeliveryTypeOK
  <2>2. /\ underway' \subseteq underway \cup ({c} \X to[c])
        /\ got' = got
        /\ pushed' \subseteq pushed \cup ({c} \X tokens[c])
    BY DEF Step, CheckMember, ReadRecipients, Emit, ReadPresence, ReadMuted, ReadTokens, Send
  <2> QED
    BY <1>1, <1>2, <2>1, <2>2 DEF HeardInv, Begun, Running, DeliveryTypeOK
<1> QED
  BY <1>1, <1>3, <1>6, <1>7, <1>8, <1>9 DEF HeardInv

LEMMA HeardInvNext == HeardInv /\ [DeliveryNext]_deliveryVars => HeardInv'
<1> SUFFICES ASSUME HeardInv, [DeliveryNext]_deliveryVars PROVE HeardInv'
  OBVIOUS
<1>1. DeliveryTypeOK /\ DeliveryTypeOK'
  BY TypesNext DEF HeardInv
<1>2. ASSUME NEW c \in Calls, Arrive(c) PROVE HeardInv'
  <2> USE DEF Arrive, local, events, people, devices
  <2>1. \A b \in Calls \ {c} : Selected(b)'
    BY <1>1, <1>2 DEF HeardInv, Selected, Running, Sender, DevicesOf, DeliveryTypeOK
  <2>2. Selected(c)'
    BY <1>1, <1>2 DEF HeardInv, Selected, Running, Sender, DevicesOf, DeliveryTypeOK
  <2>3. (\A e \in underway : e[2] \in heard[e[1]])' /\ OnlyMembersHear'
    BY <1>1, <1>2 DEF HeardInv, OnlyMembersHear, Begun, DeliveryTypeOK
  <2>4. Begun'
    BY <1>1, <1>2 DEF HeardInv, Begun, DeliveryTypeOK
  <2> QED
    BY <1>1, <2>1, <2>2, <2>3, <2>4 DEF HeardInv
<1>3. ASSUME NEW c \in Calls, Step(c), ~Purge(c) PROVE HeardInv'
  BY <1>3, StepHears
<1>4. ASSUME NEW c \in Calls, Purge(c) PROVE HeardInv'
  <2>1. \A b \in Calls : pc'[b] \in {pc[b], "done"}
    BY <1>1, <1>4 DEF Purge, DeliveryTypeOK
  <2>2. PICK us : Changes(us)
    BY <1>4 DEF Purge
  <2> QED
    BY <1>1, <1>4, <2>1, <2>2, ChangesKeepHeard DEF Purge
<1>5. CASE UserSteps
  <2>1. PICK us : Does(us)
    BY <1>5 DEF UserSteps, Enter, Leave, Unmute, Relink, Moves, RegisterToken, RemoveToken, Forget
  <2> QED
    BY <1>1, <2>1, ChangesKeepHeard DEF Does
<1>6. ASSUME NEW c \in Calls, Fail(c) PROVE HeardInv'
  <2>1. \A b \in Calls : Running(b)' => Running(b)
    BY <1>1, <1>6 DEF Fail, Running, DeliveryTypeOK
  <2>2. \A b \in Calls : pc'[b] = "send" => pc[b] = "send"
    BY <1>1, <1>6 DEF Fail, DeliveryTypeOK
  <2> QED
    BY <1>1, <1>6, <2>1, <2>2
    DEF Fail, HeardInv, Begun, Selected, OnlyMembersHear, Sender, DevicesOf, people, devices,
        local, events, history
<1>7. ASSUME NEW c \in Calls, NEW u \in Users, Deliver(c, u) PROVE HeardInv'
  <2>1. u \in heard[c] /\ underway' \subseteq underway /\ got' \subseteq got \cup {<<c, u>>}
    BY <1>7 DEF Deliver, HeardInv
  <2> QED
    BY <1>1, <1>7, <2>1
    DEF Deliver, HeardInv, Begun, Selected, OnlyMembersHear, Running, Sender, DevicesOf, people,
        devices, local, history
<1>8. CASE UNCHANGED deliveryVars
  BY <1>1, <1>8
  DEF deliveryVars, HeardInv, Begun, Selected, OnlyMembersHear, Running, Sender, DevicesOf,
      people, devices, local, events, history
<1> QED
  BY <1>2, <1>3, <1>4, <1>5, <1>6, <1>7, <1>8 DEF DeliveryNext, Wait

\* An event comes only to users who were members since its call began, a push only to devices
\* that were theirs since, and never as the sender's, for any calls, users and devices.
THEOREM MembersOnly == DeliverySpec => []OnlyMembersHear
<1>1. DeliveryInit => HeardInv
  BY DeliveryTypesAtStart DEF DeliveryInit, HeardInv, Begun, Selected, OnlyMembersHear, Running
<1>2. HeardInv => OnlyMembersHear
  BY DEF HeardInv
<1> QED
  BY <1>1, <1>2, HeardInvNext, PTL DEF DeliverySpec

-----------------------------------------------------------------------------
(* Tokens.                                                                 *)

PurgeInv == DeliveryTypeOK /\ \A c \in Calls : pc[c] = "purge" => tokens[c] \subseteq gone

LEMMA PurgeInvNext == PurgeInv /\ [DeliveryNext]_deliveryVars => PurgeInv'
<1> SUFFICES ASSUME PurgeInv, [DeliveryNext]_deliveryVars, NEW b \in Calls, pc'[b] = "purge"
             PROVE  tokens'[b] \subseteq gone'
  BY TypesNext DEF PurgeInv
<1> USE DEF Goes, people, devices, local, events, history
<1>1. DeliveryTypeOK
  BY DEF PurgeInv
<1>2. gone \subseteq gone'
  BY DEF DeliveryNext, Wait, Arrive, Step, CheckMember, ReadRecipients, Emit, ReadPresence,
     ReadMuted, ReadTokens,
         Send, Purge, Fail, Deliver, UserSteps, Enter, Leave, Unmute, Relink, Moves, RegisterToken,
         RemoveToken, Forget, deliveryVars
<1>3. CASE pc[b] = "purge" /\ tokens'[b] = tokens[b]
  BY <1>2, <1>3 DEF PurgeInv
<1>4. CASE Send(b)
  BY <1>1, <1>4 DEF Send, Refused, DeliveryTypeOK
<1>5. ASSUME NEW c \in Calls, Step(c), ~Send(b) PROVE pc[b] = "purge" /\ tokens'[b] = tokens[b]
  <2>1. CASE c = b
    BY <1>1, <1>5, <2>1
    DEF Step, CheckMember, ReadRecipients, Emit, ReadPresence, ReadMuted, ReadTokens, Purge,
        DeliveryTypeOK
  <2>2. CASE c # b
    BY <1>1, <1>5, <2>2
    DEF Step, CheckMember, ReadRecipients, Emit, ReadPresence, ReadMuted, ReadTokens, Send, Purge,
        DeliveryTypeOK
  <2> QED
    BY <2>1, <2>2
<1>6. ASSUME NEW c \in Calls, Arrive(c) \/ Fail(c) \/ \E u \in Users : Deliver(c, u)
      PROVE  pc[b] = "purge" /\ tokens'[b] = tokens[b]
  BY <1>1, <1>6 DEF Arrive, Fail, Deliver, DeliveryTypeOK
<1>7. CASE UserSteps
  BY <1>3, <1>7 DEF UserSteps, Enter, Leave, Unmute, Relink, Moves, RegisterToken, RemoveToken,
     Forget, Does
<1>8. CASE UNCHANGED deliveryVars
  BY <1>3, <1>8 DEF deliveryVars
<1> QED
  BY <1>3, <1>4, <1>5, <1>6, <1>7, <1>8 DEF DeliveryNext, Wait

\* A push deletes the rows of no device but those that FCM no longer knows.
THEOREM DevicesStay == DeliverySpec => RegisteredStay
<1>1. DeliveryInit => PurgeInv
  BY DeliveryTypesAtStart DEF DeliveryInit, PurgeInv
<1>2. PurgeInv /\ [DeliveryNext]_deliveryVars =>
        [\A d \in Devices \ gone : owner[d] \in Users /\ owner'[d] = Nobody =>
           RemoveToken(owner[d], d)]_deliveryVars
  <2> SUFFICES ASSUME PurgeInv, [DeliveryNext]_deliveryVars, NEW d \in Devices \ gone,
                      owner[d] \in Users, owner'[d] = Nobody
               PROVE  RemoveToken(owner[d], d)
    OBVIOUS
  <2> USE DEF Goes, people, devices, local, events, history
  <2>1. owner'[d] # owner[d] /\ DeliveryTypeOK
    BY DeliveryAssumption DEF PurgeInv
  <2>2. \A c \in Calls : ~Purge(c)
    BY <2>1 DEF PurgeInv, Purge, DeliveryTypeOK
  <2>3. \A u \in Users, e \in Devices : ~RegisterToken(u, e)
    BY <2>1, DeliveryAssumption DEF RegisterToken, DeliveryTypeOK
  <2>4. PICK u \in Users, e \in Devices : RemoveToken(u, e)
    BY <2>1, <2>2, <2>3
    DEF DeliveryNext, Wait, Arrive, Step, CheckMember, ReadRecipients, Emit, ReadPresence,
        ReadMuted, ReadTokens,
        Send, Fail, Deliver, UserSteps, Enter, Leave, Unmute, Relink, Moves, Forget, deliveryVars
  <2>5. e = d /\ u = owner[d]
    BY <2>1, <2>4 DEF RemoveToken, DeliveryTypeOK
  <2> QED
    BY <2>4, <2>5
<1> QED
  BY <1>1, <1>2, PurgeInvNext, PTL DEF DeliverySpec, RegisteredStay

-----------------------------------------------------------------------------
(* A member for whom nothing changes is reached: where its event is while  *)
(* the call goes on.                                                       *)

Sent(c) == pc[c] \in {"presence", "muted", "tokens", "send", "purge", "done"}

\* The typist is a member, and not u.
Told(c, u) == op[c].kind = "typing" => u # Sender(c) /\ Sender(c) \in settled[c] \cap active

EventOnWay(c, u) ==
  Told(c, u) => /\ pc[c] = "emit" => u \in to[c]
                /\ Sent(c) => <<c, u>> \in underway \cup got \/ link[u] # "on"

Wanted(c, u) == link[u] = "off" /\ op[c].kind = "message" /\ u # Sender(c) /\ u \notin muted

PushOnWay(c, u) ==
  Wanted(c, u) => /\ pc[c] = "presence" => u \in asking[c] \cup to[c]
                  /\ pc[c] \in {"muted", "tokens"} => u \in to[c]
                  /\ pc[c] = "send" => DevicesOf({u}) \subseteq tokens[c]
                  /\ pc[c] \in {"purge", "done"} =>
                       \/ {c} \X DevicesOf({u}) \subseteq pushed
                       \/ Cardinality(tokens[c]) > MulticastMax

OnWay(c, u) == EventOnWay(c, u) /\ PushOnWay(c, u)

ReachInv == DeliveryTypeOK /\ \A c \in Calls \ broken : \A u \in settled[c] \cap active : OnWay(c, u)

\* Nothing changed for u.
Untouched(u) ==
  /\ link'[u] = link[u]
  /\ u \in active' => u \in active
  /\ u \in muted => u \in muted'
  /\ \A d \in Devices : owner'[d] = u => owner[d] = u

LEMMA ChangesTouch ==
  ASSUME DeliveryTypeOK, UserSteps
  PROVE  \E us : Does(us) /\ \A u \in Users \ us : Untouched(u)
<1> USE DEF people, devices, Untouched
<1>1. ASSUME NEW u \in Users, Enter(u) \/ Leave(u) \/ Unmute(u)
      PROVE  Does({u}) /\ \A v \in Users \ {u} : Untouched(v)
  BY <1>1 DEF Enter, Leave, Unmute
<1>2. ASSUME NEW u \in Users, Relink(u)
      PROVE  Does({u}) /\ \A v \in Users \ {u} : Untouched(v)
  <2>1. PICK from \in Links, into \in Links : Moves(u, from, into)
    BY <1>2 DEF Relink, Links
  <2> QED
    BY <2>1 DEF Moves, DeliveryTypeOK
<1>3. ASSUME NEW u \in Users, NEW d \in Devices, RegisterToken(u, d)
      PROVE  Does({owner[d], u}) /\ \A v \in Users \ {owner[d], u} : Untouched(v)
  BY <1>3 DEF RegisterToken, DeliveryTypeOK
<1>4. ASSUME NEW u \in Users, NEW d \in Devices, RemoveToken(u, d)
      PROVE  Does({owner[d]}) /\ \A v \in Users \ {owner[d]} : Untouched(v)
  BY <1>4, DeliveryAssumption DEF RemoveToken, DeliveryTypeOK
<1>5. ASSUME NEW d \in Devices, Forget(d)
      PROVE  Does({}) /\ \A v \in Users : Untouched(v)
  BY <1>5 DEF Forget
<1> DEFINE Touches(us) == Does(us) /\ \A v \in Users \ us : Untouched(v)
<1> SUFFICES \E us : Touches(us)
  OBVIOUS
<1>6. /\ \A u \in Users : Enter(u) \/ Leave(u) \/ Unmute(u) \/ Relink(u) => Touches({u})
      /\ \A u \in Users, d \in Devices : RegisterToken(u, d) => Touches({owner[d], u})
      /\ \A u \in Users, d \in Devices : RemoveToken(u, d) => Touches({owner[d]})
      /\ \A d \in Devices : Forget(d) => Touches({})
  BY <1>1, <1>2, <1>3, <1>4, <1>5
<1> HIDE DEF Touches
<1> QED
  BY <1>6 DEF UserSteps

\* What is on its way to those who are still settled stays so, whatever others do.
LEMMA OthersKeepOnWay ==
  ASSUME DeliveryTypeOK, NEW us, Changes(us), \A u \in Users \ us : Untouched(u), UNCHANGED local,
         NEW c \in Calls, NEW u \in settled'[c] \cap active', pc'[c] = pc[c], OnWay(c, u)
  PROVE  OnWay(c, u)' /\ u \in settled[c] \cap active
<1>1. settled'[c] = settled[c] \ us /\ UNCHANGED <<op, underway, got, pushed, to, asking, tokens>>
  BY DEF Changes, events, local, DeliveryTypeOK
<1>2. u \in Users /\ Untouched(u) /\ u \in settled[c] \cap active
  BY <1>1 DEF DeliveryTypeOK, Untouched
<1>3. Told(c, u)' => Told(c, u)
  <2>1. Sender(c)' = Sender(c) /\ Sender(c) \in Users
    BY <1>1 DEF Sender, DeliveryTypeOK
  <2> QED
    BY <1>1, <2>1 DEF Told, Untouched
<1>4. EventOnWay(c, u)'
  BY <1>1, <1>2, <1>3 DEF OnWay, EventOnWay, Sent, Untouched
<1>5. Wanted(c, u)' => Wanted(c, u)
  BY <1>1, <1>2 DEF Wanted, Untouched, Sender
<1>6. DevicesOf({u})' \subseteq DevicesOf({u})
  BY <1>2 DEF DevicesOf, Untouched
<1>7. PushOnWay(c, u)'
  BY <1>1, <1>5, <1>6 DEF OnWay, PushOnWay
<1> QED
  BY <1>2, <1>4, <1>7 DEF OnWay

\* The steps of a call, one after the other.
LEMMA StepKeepsOnWay ==
  ASSUME DeliveryTypeOK, NEW c \in Calls, Step(c), ~Purge(c),
         NEW u \in settled[c] \cap active, OnWay(c, u)
  PROVE  OnWay(c, u)'
<1> USE DEF Goes, people, devices, local, events, history
<1>1. /\ UNCHANGED <<active, muted, link, owner, op, settled>>
      /\ c \in Calls /\ u \in Users /\ u \in settled[c] /\ u \in active
      /\ underway \subseteq underway' /\ got' = got /\ pushed \subseteq pushed'
  BY DEF Step, CheckMember, ReadRecipients, Emit, ReadPresence, ReadMuted, ReadTokens, Send,
     DeliveryTypeOK
<1>2. Told(c, u)' <=> Told(c, u)
  BY <1>1 DEF Told, Sender
<1>3. Wanted(c, u)' <=> Wanted(c, u)
  BY <1>1 DEF Wanted, Sender
<1>4. DevicesOf({u})' = DevicesOf({u})
  BY <1>1 DEF DevicesOf
<1>5. CASE CheckMember(c)
  <2>1. ~Told(c, u) \/ pc'[c] = "recipients"
    BY <1>1, <1>5 DEF CheckMember, Told, DeliveryTypeOK
  <2>2. ~Wanted(c, u) \/ pc'[c] = "recipients"
    BY <1>5 DEF CheckMember, Wanted, DeliveryTypeOK
  <2> QED
    BY <1>2, <1>3, <2>1, <2>2 DEF OnWay, EventOnWay, PushOnWay, Sent
<1>6. CASE ReadRecipients(c)
  <2>1. pc'[c] = "emit" /\ to'[c] = Recipients(c)
    BY <1>6 DEF ReadRecipients, DeliveryTypeOK
  <2>2. Told(c, u) => u \in Recipients(c)
    BY <1>1 DEF Told, Recipients
  <2> QED
    BY <1>2, <2>1, <2>2 DEF OnWay, EventOnWay, PushOnWay, Sent
<1>7. CASE Emit(c)
  <2>1. /\ pc[c] = "emit" /\ underway' = underway \cup ({c} \X to[c])
        /\ asking'[c] = to[c] \ {Sender(c)}
        /\ pc'[c] = IF Pushable(c) /\ to[c] \ {Sender(c)} # {} THEN "presence" ELSE "done"
    BY <1>7 DEF Emit, DeliveryTypeOK
  <2>2. Told(c, u) => u \in to[c] /\ <<c, u>> \in underway'
    BY <2>1 DEF OnWay, EventOnWay
  <2>3. Wanted(c, u) => u \in asking'[c] /\ pc'[c] = "presence"
    <3>1. Wanted(c, u) => Told(c, u) /\ u # Sender(c) /\ Pushable(c)
      BY DEF Wanted, Told, Pushable
    <3> QED
      BY <2>1, <2>2, <3>1
  <2> QED
    BY <1>2, <1>3, <2>1, <2>2, <2>3 DEF OnWay, EventOnWay, PushOnWay, Sent
<1>8. ASSUME ReadPresence(c) \/ ReadMuted(c) \/ ReadTokens(c) \/ Send(c) PROVE EventOnWay(c, u)'
  <2>1. Sent(c) /\ pc'[c] # "emit"
    BY <1>8 DEF ReadPresence, ReadMuted, ReadTokens, Send, Sent, DeliveryTypeOK
  <2> QED
    BY <1>1, <1>2, <2>1 DEF OnWay, EventOnWay
<1>9. CASE ReadPresence(c)
  <2>1. PICK v \in asking[c] :
          /\ asking'[c] = asking[c] \ {v}
          /\ to'[c] = IF Offline(v) THEN to[c] \cup {v} ELSE to[c]
    BY <1>9 DEF ReadPresence, DeliveryTypeOK
  <2>2. /\ pc[c] = "presence"
        /\ pc'[c] = CASE asking'[c] # {} -> "presence"
                      [] asking'[c] = {} /\ to'[c] # {} -> "muted"
                      [] OTHER -> "done"
    BY <1>9 DEF ReadPresence, DeliveryTypeOK
  <2>3. Wanted(c, u) => Offline(u)
    BY DEF Wanted, Offline, IsOnline
  <2>4. Wanted(c, u) => u \in asking'[c] \cup to'[c]
    BY <2>1, <2>2, <2>3 DEF OnWay, PushOnWay
  <2>5. PushOnWay(c, u)'
    BY <1>3, <2>2, <2>4 DEF PushOnWay
  <2> QED
    BY <1>8, <1>9, <2>5 DEF OnWay
<1>10. CASE ReadMuted(c)
  <2>1. /\ pc[c] = "muted" /\ to'[c] = to[c] \ muted
        /\ pc'[c] = IF to'[c] # {} THEN "tokens" ELSE "done"
    BY <1>10 DEF ReadMuted, DeliveryTypeOK
  <2>2. Wanted(c, u) => u \in to'[c]
    BY <2>1 DEF OnWay, PushOnWay, Wanted
  <2>3. PushOnWay(c, u)'
    BY <1>3, <2>1, <2>2 DEF PushOnWay
  <2> QED
    BY <1>8, <1>10, <2>3 DEF OnWay
<1>11. CASE ReadTokens(c)
  <2>1. /\ pc[c] = "tokens" /\ tokens'[c] = DevicesOf(to[c])
        /\ pc'[c] = IF tokens'[c] # {} THEN "send" ELSE "done"
    BY <1>11 DEF ReadTokens, DeliveryTypeOK
  <2>2. Wanted(c, u) => DevicesOf({u}) \subseteq tokens'[c]
    BY <2>1 DEF OnWay, PushOnWay, DevicesOf
  <2>3. PushOnWay(c, u)'
    BY <1>3, <1>4, <2>1, <2>2 DEF PushOnWay
  <2> QED
    BY <1>8, <1>11, <2>3 DEF OnWay
<1>12. CASE Send(c)
  <2>1. pc[c] = "send" /\ pc'[c] \in {"purge", "done"}
    BY <1>12 DEF Send, DeliveryTypeOK
  <2>2. \/ pushed' = pushed \cup ({c} \X tokens[c])
        \/ tokens' = tokens /\ Cardinality(tokens[c]) > MulticastMax
    BY <1>12 DEF Send
  <2>3. PushOnWay(c, u)'
    BY <1>1, <1>3, <1>4, <2>1, <2>2 DEF OnWay, PushOnWay
  <2> QED
    BY <1>8, <1>12, <2>3 DEF OnWay
<1> QED
  BY <1>5, <1>6, <1>7, <1>9, <1>10, <1>11, <1>12 DEF Step

LEMMA ReachInvNext == ReachInv /\ [DeliveryNext]_deliveryVars => ReachInv'
<1> SUFFICES ASSUME ReachInv, [DeliveryNext]_deliveryVars, NEW b \in Calls \ broken', NEW v \in settled'[b] \cap active'
             PROVE  OnWay(b, v)'
  BY TypesNext DEF ReachInv
<1>1. /\ DeliveryTypeOK /\ DeliveryTypeOK' /\ broken \subseteq broken'
      /\ \A u \in settled[b] \cap active : OnWay(b, u)
  <2>1. broken \subseteq broken'
    BY DEF DeliveryNext, Wait, Arrive, Step, CheckMember, ReadRecipients, Emit, ReadPresence,
       ReadMuted, ReadTokens,
           Send, Purge, Goes, Fail, Deliver, UserSteps, Enter, Leave, Unmute, Relink, Moves,
           RegisterToken,
           RemoveToken, Forget, Does, deliveryVars
  <2> QED
    BY <2>1, TypesNext DEF ReachInv
<1> DEFINE Same(c) == /\ UNCHANGED <<people, devices>> /\ settled'[c] = settled[c] /\ op'[c] = op[c]
                      /\ pc'[c] = pc[c] /\ to'[c] = to[c] /\ asking'[c] = asking[c] /\ tokens'[c] = tokens[c]
                      /\ \A u \in Users : <<c, u>> \in underway \cup got =>
                            <<c, u>> \in underway' \cup got' \/ link[u] # "on"
                      /\ pushed \subseteq pushed'
<1>2. Same(b) => OnWay(b, v)'
  <2> SUFFICES ASSUME Same(b) PROVE OnWay(b, v)'
    OBVIOUS
  <2>1. v \in Users /\ v \in settled[b] \cap active /\ OnWay(b, v)
    BY <1>1 DEF DeliveryTypeOK, people
  <2>2. EventOnWay(b, v)'
    BY <2>1 DEF OnWay, EventOnWay, Told, Sent, Sender, people
  <2>3. PushOnWay(b, v)'
    BY <2>1 DEF OnWay, PushOnWay, Wanted, Sender, DevicesOf, people, devices
  <2> QED
    BY <2>2, <2>3 DEF OnWay
<1>3. ASSUME NEW c \in Calls, Arrive(c) PROVE OnWay(b, v)'
  <2>1. CASE c = b
    BY <1>1, <1>3, <2>1 DEF Arrive, DeliveryTypeOK, OnWay, EventOnWay, PushOnWay, Sent
  <2>2. CASE c # b
    <3>1. Same(b)
      BY <1>1, <1>3, <2>2 DEF Arrive, DeliveryTypeOK, local, events
    <3> QED
      BY <1>2, <3>1
  <2> QED
    BY <2>1, <2>2
<1>4. ASSUME NEW c \in Calls, Step(c), ~Purge(c) PROVE OnWay(b, v)'
  <2> USE DEF Goes, local, events, history
  <2>1. UNCHANGED <<people, devices, op, settled>>
    BY <1>4 DEF Step, CheckMember, ReadRecipients, Emit, ReadPresence, ReadMuted, ReadTokens, Send
  <2>2. CASE c = b
    BY <1>1, <1>4, <2>1, <2>2, StepKeepsOnWay DEF people
  <2>3. CASE c # b
    <3>1. /\ 
              /\ pc'[b] = pc[b] /\ to'[b] = to[b]
              /\ asking'[b] = asking[b] /\ tokens'[b] = tokens[b]
          /\ underway \subseteq underway' /\ got' = got /\ pushed \subseteq pushed'
      BY <1>1, <1>4, <2>3
      DEF Step, CheckMember, ReadRecipients, Emit, ReadPresence, ReadMuted, ReadTokens, Send,
          DeliveryTypeOK
    <3> QED
      BY <1>2, <2>1, <3>1
  <2> QED
    BY <2>2, <2>3
<1>5. ASSUME NEW c \in Calls, Purge(c) PROVE OnWay(b, v)'
  <2> DEFINE us == {owner[d] : d \in tokens[c]}
  <2>1. Changes(us) /\ UNCHANGED local
    BY <1>5 DEF Purge
  <2>2. \A u \in Users \ us : Untouched(u)
    BY <1>1, <1>5, DeliveryAssumption DEF Purge, Untouched, people, DeliveryTypeOK
  <2>3. CASE c # b
    <3>1. pc'[b] = pc[b]
      BY <1>1, <1>5, <2>3 DEF Purge, DeliveryTypeOK
    <3>2. v \in settled[b] \cap active
      BY <1>1, <1>5, <2>1 DEF Changes, Purge, people, DeliveryTypeOK
    <3> HIDE DEF us
    <3> QED
      BY <1>1, <2>1, <2>2, <3>1, <3>2, OthersKeepOnWay
  <2>4. CASE c = b
    <3>1. /\ pc[b] = "purge" /\ pc'[b] = "done"
          /\ settled'[b] = settled[b] \ us /\ UNCHANGED <<op, underway, got, pushed, to, asking, tokens, people>>
      BY <1>1, <1>5, <2>1, <2>4 DEF Purge, Changes, events, local, DeliveryTypeOK
    <3>2. v \in settled[b] \cap active /\ Untouched(v) /\ OnWay(b, v)
      BY <1>1, <2>2, <3>1 DEF people, DeliveryTypeOK
    <3>3. Told(b, v)' => Told(b, v)
      BY <3>1 DEF Told, Sender, people
    <3>4. EventOnWay(b, v)'
      BY <3>1, <3>2, <3>3 DEF OnWay, EventOnWay, Sent, people
    <3>5. DevicesOf({v})' \subseteq DevicesOf({v})
      BY <3>2 DEF DevicesOf, Untouched
    <3>6. PushOnWay(b, v)'
      BY <3>1, <3>2, <3>5 DEF OnWay, PushOnWay, Wanted, Sender, people
    <3> QED
      BY <3>4, <3>6 DEF OnWay
  <2> QED
    BY <2>3, <2>4
<1>6. CASE UserSteps
  <2>1. PICK us : Does(us) /\ \A u \in Users \ us : Untouched(u)
    BY <1>1, <1>6, ChangesTouch
  <2>2. Changes(us) /\ UNCHANGED <<local, pc>>
    BY <2>1 DEF Does
  <2>3. v \in settled[b] \cap active
    BY <1>1, <2>1, <2>2 DEF Changes, Untouched, DeliveryTypeOK
  <2> QED
    BY <1>1, <2>1, <2>2, <2>3, OthersKeepOnWay
<1>7. ASSUME NEW c \in Calls, Fail(c) PROVE OnWay(b, v)'
  <2>1. c # b /\ Same(b)
    BY <1>1, <1>7 DEF Fail, DeliveryTypeOK, local, events, history
  <2> QED
    BY <1>2, <2>1
<1>8. ASSUME NEW c \in Calls, NEW u \in Users, Deliver(c, u) PROVE OnWay(b, v)'
  <2>1. Same(b)
    BY <1>1, <1>8 DEF Deliver, InChannel, DeliveryTypeOK, local, history
  <2> QED
    BY <1>2, <2>1
<1>9. CASE UNCHANGED deliveryVars
  <2>1. Same(b)
    BY <1>9 DEF deliveryVars, local, events, history
  <2> QED
    BY <1>2, <2>1
<1> QED
  BY <1>3, <1>4, <1>5, <1>6, <1>7, <1>8, <1>9 DEF DeliveryNext, Wait

\* A member for whom nothing changed since the call began got the event, or FCM its pushes,
\* whatever other members do and however their devices come and go.
THEOREM MembersReached == DeliverySpec => []SettledAreReached
<1>1. DeliveryInit => ReachInv
  BY DeliveryTypesAtStart DEF DeliveryInit, ReachInv, DeliveryTypeOK
<1>2. ReachInv => SettledAreReached
  <2> SUFFICES ASSUME ReachInv, NEW c \in Calls \ broken, pc[c] = "done", underway \cap ({c} \X Users) = {},
                      NEW u \in settled[c] \cap active
               PROVE  /\ link[u] = "on" /\ Told(c, u) => <<c, u>> \in got
                      /\ Wanted(c, u) => \/ {c} \X DevicesOf({u}) \subseteq pushed
                                         \/ Cardinality(tokens[c]) > MulticastMax
    BY DEF SettledAreReached, Told, Wanted
  <2>1. OnWay(c, u) /\ u \in Users
    BY DEF ReachInv, DeliveryTypeOK
  <2>2. <<c, u>> \notin underway
    BY <2>1
  <2> QED
    BY <2>1, <2>2 DEF OnWay, EventOnWay, PushOnWay, Sent
<1> QED
  BY <1>1, <1>2, ReachInvNext, PTL DEF DeliverySpec
=============================================================================
