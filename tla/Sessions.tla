------------------------------ MODULE Sessions ------------------------------
(***************************************************************************)
(* The sessions of one account: AuthService (kakaoLogin, refresh, logout), *)
(* AdminService.update and remove on its whitelist row, and the gateway's  *)
(* admission and disconnection of its sockets (src/auth, src/admin,        *)
(* src/realtime).                                                          *)
(*                                                                         *)
(* The account's state is spread over a whitelist row, a user row, the     *)
(* refresh:<userId>:* keys of Redis and the sockets in the user's channel. *)
(* Each request reads and writes them one at a time: pc names the next.    *)
(***************************************************************************)
EXTENDS Naturals

CONSTANTS
  Requests,
  Kinds,        \* the endpoints called, out of AllKinds
  FirstToken,   \* the refresh token of a session that was there before
  NoToken,
  MaxOverlaps,  \* bound on the requests that arrive while another is handled
  MaxFailures   \* bound on the requests that die half-way

AllKinds == {"login", "refresh", "logout", "connect", "block", "allow", "delete"}

ASSUME SessionsAssumption ==
  /\ Kinds \subseteq AllKinds
  /\ FirstToken \notin Requests
  /\ NoToken \notin Requests \cup {FirstToken}
  /\ MaxOverlaps \in Nat
  /\ MaxFailures \in Nat

VARIABLES
  listed,     \* Whitelist.status of the account, or "none" when it has no row
  status,     \* User.status, or "none" before the first login
  keys,       \* the refresh tokens whose jti is in Redis
  issued,     \* the refresh tokens that were handed to the client
  sockets,    \* the connections in the user's channel, each by its request
  pc,         \* pc[r]: what request r is about to do
  kind,       \* kind[r]: its endpoint
  token,      \* token[r]: the refresh token it presents
  seen,       \* seen[r]: the whitelist status it read
  found,      \* found[r]: the keys its SCAN returned
  answer,     \* answer[r]: what it told its caller
  clear,      \* the requests with no login and no allow beside them (history)
  barred,     \* whether such a block has been answered, and no allow since (history)
  late,       \* the requests that came while barred (history)
  overlaps,   \* requests that arrived, and sockets that hung up, beside another request
  failures

account == <<listed, status, keys, issued, sockets>>
faults == <<overlaps, failures>>
history == <<clear, barred, late, faults>>
vars == <<account, pc, kind, token, seen, found, answer, history>>

Tokens == Requests \cup {FirstToken}
ListStatus == {"none", "INVITED", "ACTIVE", "BLOCKED"}
Points == {"idle", "whitelist", "upsert", "exists", "status", "rotate", "store", "drop",
           "join", "existing", "update", "findUser", "suspend", "revive", "remove", "scan", "purge",
           "kick", "done"}
Answers == {"none", "granted", "refused", "ok", "error"}

InFlight == {r \in Requests : pc[r] \notin {"idle", "done"}}
Quiet == InFlight = {}
Admitting == {"login", "allow"}

Init ==
  /\ \/ listed = "INVITED" /\ status = "none" /\ keys = {}
     \/ listed = "ACTIVE" /\ status = "ACTIVE" /\ keys = {FirstToken}
  /\ issued = keys
  /\ sockets = {}
  /\ pc = [r \in Requests |-> "idle"]
  /\ kind = [r \in Requests |-> "none"]
  /\ token = [r \in Requests |-> NoToken]
  /\ seen = [r \in Requests |-> "none"]
  /\ found = [r \in Requests |-> {}]
  /\ answer = [r \in Requests |-> "none"]
  /\ clear = {}
  /\ barred = FALSE
  /\ late = {}
  /\ overlaps = 0
  /\ failures = 0

Go(r, p) == pc' = [pc EXCEPT ![r] = p] /\ UNCHANGED <<kind, token, answer>>
Reply(r, a) == /\ pc' = [pc EXCEPT ![r] = "done"]
               /\ answer' = [answer EXCEPT ![r] = a]
               /\ UNCHANGED <<kind, token>>
LocalOnly == UNCHANGED <<account, history>>

-----------------------------------------------------------------------------
Entry(k) ==
  CASE k = "login" -> "whitelist"
    [] k = "refresh" -> "exists"
    [] k = "logout" -> "drop"
    [] k = "connect" -> "status"
    [] k \in {"block", "allow", "delete"} -> "existing"

Comes == /\ Quiet \/ overlaps < MaxOverlaps
         /\ overlaps' = IF Quiet THEN overlaps ELSE overlaps + 1

\* History: an endpoint that may make the account active blurs what is beside it.
Notes(r, k) ==
  /\ clear' = IF k \in Admitting THEN {}
              ELSE IF \E q \in InFlight : kind[q] \in Admitting THEN clear
              ELSE clear \cup {r}
  /\ barred' = (barred /\ k # "allow")
  /\ late' = IF k = "allow" THEN {} ELSE IF barred THEN late \cup {r} ELSE late

\* A request arrives.  A token, or the access token a socket presents, is one that was
\* issued and has not outlived its TTL.
Arrive(r) ==
  /\ pc[r] = "idle"
  /\ Comes
  /\ \E k \in Kinds :
       /\ kind' = [kind EXCEPT ![r] = k]
       /\ pc' = [pc EXCEPT ![r] = Entry(k)]
       /\ k = "connect" => issued # {}
       /\ \E t \in IF k \in {"refresh", "logout"} THEN issued ELSE {NoToken} :
            token' = [token EXCEPT ![r] = t]
       /\ Notes(r, k)
  /\ UNCHANGED <<account, seen, found, answer, failures>>

-----------------------------------------------------------------------------
(* kakaoLogin                                                              *)

ReadWhitelist(r) ==
  /\ pc[r] = "whitelist"
  /\ seen' = [seen EXCEPT ![r] = listed]
  /\ IF listed \in {"INVITED", "ACTIVE"} THEN Go(r, "upsert") ELSE Reply(r, "refused")
  /\ UNCHANGED found /\ LocalOnly

\* The transaction: the user becomes ACTIVE, and so does a row that was read INVITED.
\* A row that is gone by then makes its update fail and the transaction with it.
UpsertUser(r) ==
  /\ pc[r] = "upsert"
  /\ \/ /\ seen[r] = "INVITED" => listed # "none"
        /\ status' = "ACTIVE"
        /\ listed' = IF seen[r] = "INVITED" THEN "ACTIVE" ELSE listed
        /\ Go(r, "store")
     \/ /\ seen[r] = "INVITED" /\ listed = "none"
        /\ Reply(r, "error")
        /\ UNCHANGED <<listed, status>>
  /\ UNCHANGED <<keys, issued, sockets, seen, found, history>>

Issue(r) == keys' = keys \cup {r} /\ issued' = issued \cup {r}

\* issueTokens: SET of the jti, then the pair is returned.
StoreToken(r) ==
  /\ pc[r] = "store"
  /\ Issue(r)
  /\ Reply(r, "granted")
  /\ UNCHANGED <<listed, status, sockets, seen, found, history>>

-----------------------------------------------------------------------------
(* refresh and logout                                                      *)

CheckToken(r) ==
  /\ pc[r] = "exists"
  /\ Go(r, IF token[r] \in keys THEN "status" ELSE "scan")
  /\ UNCHANGED <<seen, found>> /\ LocalOnly

Usable(r) == status = "ACTIVE"

\* The user's status, read by refresh and by the gateway's authenticate.
CheckStatus(r) ==
  /\ pc[r] = "status"
  /\ \/ Usable(r) /\ Go(r, IF kind[r] = "refresh" THEN "rotate" ELSE "join")
     \/ ~Usable(r) /\ kind[r] = "refresh" /\ Go(r, "scan")
     \/ ~Usable(r) /\ kind[r] = "connect" /\ Reply(r, "refused")
  /\ UNCHANGED <<seen, found>> /\ LocalOnly

\* Mutant of Rotate: the old jti stays.
RotateNothing(r) == UNCHANGED keys
Rotate(r) == keys' = keys \ {token[r]}

RotateOut(r) ==
  /\ pc[r] = "rotate"
  /\ Rotate(r)
  /\ Go(r, "store")
  /\ UNCHANGED <<listed, status, issued, sockets, seen, found, history>>

DropToken(r) ==
  /\ pc[r] = "drop"
  /\ keys' = keys \ {token[r]}
  /\ Reply(r, "ok")
  /\ UNCHANGED <<listed, status, issued, sockets, seen, found, history>>

-----------------------------------------------------------------------------
(* delByPattern: the SCAN, then one pipeline of DEL.                        *)

Scan(r) ==
  /\ pc[r] = "scan"
  /\ found' = [found EXCEPT ![r] = keys]
  /\ Go(r, "purge")
  /\ UNCHANGED seen /\ LocalOnly

\* Mutant of Purged: only the token presented is deleted.
PurgedOne(r) == keys \ {token[r]}
Purged(r) == keys \ found[r]

\* A refresh that revoked the sessions is refused; a block goes on to the sockets.
Purge(r) ==
  /\ pc[r] = "purge"
  /\ keys' = Purged(r)
  /\ found' = [found EXCEPT ![r] = {}]
  /\ IF kind[r] = "refresh" THEN Reply(r, "refused") ELSE Go(r, "kick")
  /\ UNCHANGED <<listed, status, issued, sockets, seen, history>>

-----------------------------------------------------------------------------
(* Sockets                                                                 *)

JoinChannel(r) ==
  /\ pc[r] = "join"
  /\ sockets' = sockets \cup {r}
  /\ Reply(r, "granted")
  /\ UNCHANGED <<listed, status, keys, issued, seen, found, history>>

Hangup(r) ==
  /\ r \in sockets
  /\ Comes
  /\ sockets' = sockets \ {r}
  /\ UNCHANGED <<listed, status, keys, issued, pc, kind, token, seen, found, answer, clear,
                 barred, late, failures>>

-----------------------------------------------------------------------------
(* The whitelist row: update and remove of AdminService.                   *)

ReadRow(r) ==
  /\ pc[r] = "existing"
  /\ seen' = [seen EXCEPT ![r] = listed]
  /\ IF listed = "none" THEN Reply(r, "refused")
     ELSE Go(r, IF kind[r] = "delete" THEN "remove" ELSE "update")
  /\ UNCHANGED found /\ LocalOnly

UpdateRow(r) ==
  /\ pc[r] = "update"
  /\ \/ /\ listed # "none"
        /\ listed' \in (IF kind[r] = "block" THEN {"BLOCKED"} ELSE {"INVITED", "ACTIVE"})
        /\ IF kind[r] = "block" \/ seen[r] = "BLOCKED" THEN Go(r, "findUser")
           ELSE Reply(r, "ok")
     \/ listed = "none" /\ Reply(r, "error") /\ UNCHANGED listed
  /\ UNCHANGED <<status, keys, issued, sockets, seen, found, history>>

RemoveRow(r) ==
  /\ pc[r] = "remove"
  /\ Reply(r, IF listed = "none" THEN "error" ELSE "ok")
  /\ listed' = "none"
  /\ UNCHANGED <<status, keys, issued, sockets, seen, found, history>>

\* A block is answered: history notes that from now on the account is out.
Answered(r) ==
  /\ Reply(r, "ok")
  /\ barred' = (barred \/ (kind[r] = "block" /\ r \in clear))
  /\ UNCHANGED <<clear, late, faults>>

\* Mutant of Wanted: a block looks for the user an allow looks for.
WantedSuspended(r) == status = "SUSPENDED"
Wanted(r) == IF kind[r] = "block" THEN status # "none" ELSE status = "SUSPENDED"

\* enforceBlock and reactivate look the user up; reactivate only wants a SUSPENDED one.
FindUser(r) ==
  /\ pc[r] = "findUser"
  /\ IF Wanted(r) THEN /\ Go(r, IF kind[r] = "block" THEN "suspend" ELSE "revive")
                       /\ UNCHANGED history
     ELSE Answered(r)
  /\ UNCHANGED <<account, seen, found>>

Suspend(r) ==
  /\ pc[r] = "suspend"
  /\ status' = "SUSPENDED"
  /\ Go(r, "scan")
  /\ UNCHANGED <<listed, keys, issued, sockets, seen, found, history>>

Revive(r) ==
  /\ pc[r] = "revive"
  /\ status' = "ACTIVE"
  /\ Reply(r, "ok")
  /\ UNCHANGED <<listed, keys, issued, sockets, seen, found, history>>

\* Mutant of Kicked: the sockets are left open.
KickedNone == sockets
Kicked == {}

\* session.revoked: the gateways disconnect every socket in the user's channel.
Kick(r) ==
  /\ pc[r] = "kick"
  /\ sockets' = Kicked
  /\ Answered(r)
  /\ UNCHANGED <<listed, status, keys, issued, seen, found>>

-----------------------------------------------------------------------------
Step(r) ==
  \/ ReadWhitelist(r) \/ UpsertUser(r) \/ StoreToken(r)
  \/ CheckToken(r) \/ CheckStatus(r) \/ RotateOut(r) \/ DropToken(r)
  \/ Scan(r) \/ Purge(r) \/ JoinChannel(r)
  \/ ReadRow(r) \/ UpdateRow(r) \/ RemoveRow(r)
  \/ FindUser(r) \/ Suspend(r) \/ Revive(r) \/ Kick(r)

\* A call throws or the node dies: what was written stays.
Fail(r) ==
  /\ pc[r] \notin {"idle", "done"}
  /\ failures < MaxFailures
  /\ failures' = failures + 1
  /\ Reply(r, "error")
  /\ found' = [found EXCEPT ![r] = {}]
  /\ UNCHANGED <<account, seen, clear, barred, late, overlaps>>

\* The server waits for requests.
Wait == Quiet /\ UNCHANGED vars

Next ==
  \/ \E r \in Requests : Arrive(r) \/ Step(r) \/ Hangup(r) \/ Fail(r)
  \/ Wait

Spec == Init /\ [][Next]_vars

-----------------------------------------------------------------------------
(* Properties.                                                             *)

\* The types; what Redis holds was handed out.
TypeOK ==
  /\ listed \in ListStatus
  /\ status \in {"none", "ACTIVE", "SUSPENDED"}
  /\ keys \subseteq issued
  /\ issued \subseteq Tokens
  /\ sockets \subseteq Requests
  /\ pc \in [Requests -> Points]
  /\ kind \in [Requests -> AllKinds \cup {"none"}]
  /\ token \in [Requests -> Tokens \cup {NoToken}]
  /\ seen \in [Requests -> ListStatus]
  /\ found \in [Requests -> SUBSET Tokens]
  /\ answer \in [Requests -> Answers]
  /\ clear \subseteq Requests
  /\ barred \in BOOLEAN
  /\ late \subseteq Requests
  /\ overlaps \in 0..MaxOverlaps
  /\ failures \in 0..MaxFailures

\* Requests have been handled one at a time so far, and none has died.
Undisturbed == overlaps = 0 /\ failures = 0

\* README: a BLOCKED row means a SUSPENDED user, no valid refresh token and no open
\* socket, whenever no request is being handled.
BlockedIsOut ==
  Quiet /\ listed = "BLOCKED" => status # "ACTIVE" /\ keys = {} /\ sockets = {}

\* So it is while requests are handled one at a time, in whatever order the account is
\* invited, blocked, allowed, deleted and used.
BlockedIsOutInPeace == Undisturbed => BlockedIsOut

\* README: refresh tokens rotate.  While requests are handled one at a time a token
\* yields at most one new pair.
RotatedOnce ==
  Undisturbed =>
    \A q, r \in Requests :
      /\ kind[q] = "refresh" /\ kind[r] = "refresh"
      /\ answer[q] = "granted" /\ answer[r] = "granted"
      /\ token[q] = token[r]
      => q = r

\* README: when reuse of a refresh token is detected all sessions are revoked.  While
\* requests are handled one at a time a refresh that is refused leaves no valid token.
ReuseRevokes ==
  [][Undisturbed' =>
       \A r \in Requests :
         kind[r] = "refresh" /\ answer[r] = "none" /\ answer'[r] = "refused" => keys' = {}]_vars

\* JwtStrategy and refresh read the user's status each time.  However a block overlaps
\* with refreshes, sockets, logouts, deletions and other blocks, whatever dies, and
\* whatever tokens a refresh that raced it left in Redis: once it has been answered the
\* user is not ACTIVE and nothing that comes after it is admitted, until an allow.  (A
\* login or an allow beside the block is the exception: barred is not set then.)
BlockIsFinal ==
  /\ barred => status # "ACTIVE"
  /\ \A r \in late : answer[r] # "granted"
=============================================================================
