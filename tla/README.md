# Verification of intaektok-be

TLA+ models of the back end of IntaekTok, a closed messenger (NestJS, PostgreSQL through
Prisma, Redis, Socket.IO), the TLC runs that check them on small instances, and the theorems
TLAPS proves about them for every size. Paths below are relative to the repository;
`src/messages` is the directory `src/messages` of the back end.

The program is a set of identical nodes behind a load balancer. A node is a single-threaded
event loop, so code between two `await`s is atomic within it, and nothing is atomic across
nodes but one SQL statement, one Prisma transaction or one Redis command. Hardly any operation
is one of these: almost every endpoint reads, decides on what it read, and writes in statements
of its own. That is the subject of these models: **each await is an action**, `pc[r]` names
the statement request `r` is about to issue, and every interleaving of requests is explored.

## Inventory

| component | state | operations | what is hard | what makes it correct |
|---|---|---|---|---|
| Sending a message (`messages.service.ts`, `redis.service.ts`) | table `Message` with unique `(roomId, seq)` and `(roomId, clientMessageId)`; `Room.lastMessageAt`; Redis counter `room:<id>:seq` | `createMessage`, `createSystemMessage`, `nextSeq`, `resyncSeq`, `persistWithSeq` | several nodes seed the counter at once; Redis loses or rewinds it; retries of a call that is still running; a failure between insert and event | what is acknowledged is stored; one message per key; a collision is always repaired; every message is broadcast |
| History, receipts, unsend (`messages.service.ts`) | `RoomMember.lastReadSeq`, `Message.deletedAt` | `listMessages`, `markRead`, `countUnread`, `softDelete` | receipts that overlap, events out of order, a message deleted before it is announced; messages stored below a cursor | receipts only advance; an unsent message is not shown; a scroll is complete |
| Group membership and roles (`rooms.service.ts`, `room-member.guard.ts`) | `RoomMember` rows: `role`, `leftAt`, `joinedAt` | `addMembers`, `updateMemberRole`, `removeMember` with `transferOwnership`, `emitLifecycle` | the actor's and the target's role are read long before the write; a departure and its hand-over are two statements | one owner; removals respect ranks; who enters, leaves, is removed or given a role is announced; members see the room as it is |
| Direct rooms, creation, list (`rooms.service.ts`) | `Room.directKey` (unique), `name`, `avatarMediaId`, `lastMessageAt` | `createDirect`, `reactivateDirect`, `createGroup`, `updateRoom`, `listRooms` | two users open the same room at once, statuses are read long before the room is created; a rename is compared with an old row; pages are cut while rooms move | one room per pair, for whoever loses the race too; members know the name of their room; a scroll misses no room that stays |
| Presence (`presence.service.ts`, `realtime.gateway.ts`) | Redis SET `presence:online:<userId>` with a TTL; `User.lastSeenAt`; a heartbeat interval per socket | `handleConnection`, `handleDisconnect`, `addConnection`, `removeConnection`, `refresh` | count-then-delete; a socket that closes during its handshake; crashed nodes | connected is online; gone is offline in the end; co-members are told |
| Sessions (`auth.service.ts`, `admin.service.ts`, `realtime.gateway.ts`) | `Whitelist.status`, `User.status`, Redis keys `refresh:<userId>:<jti>`, sockets in the channel `user:<id>` | `kakaoLogin`, `refresh`, `logout`, `update` and `remove` of a whitelist row, admission and disconnection of sockets | four stores, changed one after the other; a block that races a login | a blocked account is out; a token rotates once; reuse revokes all |
| Access queue (`admin.service.ts`, `whitelist-bootstrap.service.ts`) | tables `AccessRequest`, `Whitelist` | `recordAccessRequest`, `approve`, `dismiss`, `create`, bootstrap | approval that races a registration or a second approval | one row per account; the queue holds nobody who is registered |
| Delivery (`realtime.gateway.ts`, `push.service.ts`) | the channels `user:<id>`, device tokens | event handlers, `emitToUsers`, `onMessageCreated` of push | recipients read before the event; presence read before the push | every active member gets the message by socket or push |
| Media (`media.service.ts`, `storage.service.ts`) | rows of `Media`, objects in S3, `Message.mediaId`, `Profile.avatarMediaId`, `Room.avatarMediaId` | `createUploadUrl`, `complete`, `getMedia` with `canAccess`, `assertOwnedMedia` | a row and an object that the client puts there when it likes; access is asked of four tables one after the other | who is entitled sees a file and nobody else; files are referred to by their uploaders; a READY file has its object |
| Profiles and users (`profile.service.ts`, `users.service.ts`, `onboarded.guard.ts`) | `Profile` | `create`, `update`, `getProfile`, `search` | a read before an upsert; visibility by shared rooms | one onboarding; a profile is shown to who shares a room |
| Kakao, configuration | external services, environment | a login's two HTTP calls, start-up | external I/O | |

Components interact in three ways. *Calls*: rooms call `createSystemMessage`, so a change of
membership ends in a whole `createMessage`. *Domain events* (`common/events.ts`), emitted in
process by messages, rooms and admin and turned by the gateway into Socket.IO messages, which a
Redis adapter carries to every node. *Shared rows and keys*: `User.status` is written by auth and
admin and read by the gateway, by the JWT strategy and by refresh; `RoomMember` is written by
rooms and read by the guard, by messages and by the gateway.

The components a model covers, and those it does not with the reason, are in `PROJECT.json`;
so are the hazards, each at its line, with the properties that would catch it.

## Modules

| module | models | extends |
|---|---|---|
| `MessageLog` | the promise of sending: stored at most once per key, announced before it is confirmed, one final outcome per call | |
| `MessageSend` | `createMessage` to the statement; implements `MessageLog` through `Log == INSTANCE MessageLog WITH ...` | |
| `GroupRoles` | the three membership endpoints of one group behind their guard | |
| `Presence` | the sockets of one user, on several nodes | |
| `Sessions` | one account: whitelist row, user row, refresh tokens, sockets | |
| `ReadReceipts` | what members were sent, have read and are shown, while others send, unsend, join and leave | |
| `Paging` | a scroll by cursor through `listMessages` or `listRooms` while the list changes | |
| `AccessQueue` | how one account becomes registered: its request and its whitelist row | |
| `Delivery` | one event on its way from the database to sockets and devices | |
| `PairRoom` | the promise of a 1:1 room: one for a pair, opened at once for both, announced by its founder | |
| `DirectRooms` | `createDirect`, `reactivateDirect` and departures, while statuses change; implements `PairRoom` through `Pair == INSTANCE PairRoom WITH ...` | |
| `Media` | files, and the messages, profiles and rooms that refer to them: who may see what, onboarding, names of groups | |
| `MC*` | the same with requests, users or rows made interchangeable, which the runs without a liveness property use | the module above |
| `*Proofs` | theorems about the module of that name; `MessagesProofs` is about `MessageSend` and `Paging`, `RealtimeProofs` about `Presence` and `Delivery` | the modules it is about, and `TLAPS` |

`MessageSend` abstracts to `MessageLog` and `DirectRooms` to `PairRoom`. The others meet at shared state, each modelled whole in one
module and taken as given in its neighbours: how a seq is drawn (`MessageSend`; an INCR and an
insert in `ReadReceipts`), who is a member (`GroupRoles`; joins and departures in `ReadReceipts` and
`Delivery` and `Media`, with rows of its own kind in `DirectRooms`), who is online (`Presence`; one socket per user in `Delivery`), the whitelist row
(`AccessQueue` for its creation, `Sessions` for what its changes do to sessions).

### MessageSend

One room. `messages` is the table, `counter` the Redis key (`NoCounter` when missing),
`announced` the `MESSAGE_CREATED` events. `Lookup` is the short-circuit on a stored
`clientMessageId` (an empty string tests as absent there, and still enters the unique index:
`EmptyCid`); `CheckKey`, `ReadSeed`, `SetNx`, `Incr` are the commands of `nextSeq`; `Insert` has the
three ways out of `persistWithSeq`; `ReadResync` and `Resync` are `resyncSeq`, the last of which
also closes the loop; `Touch` writes `lastMessageAt`; `EmitCreated` and `Reply` end the call.
Validation is one action that passes or throws. `Drift` is Redis without the key or with an older
value of it, `Fail` a statement that throws or a node that dies at any await: what was written
stays.

### GroupRoles

One group room, as `createGroup` leaves it. `asRole[r]` is the role the guard read and
`seenRole[r]` the target's role as the endpoint read it; both are used to the end of the request,
as in the code. `addMembers` inserts one user per action and dies on a row that has come since
(P2002), which is the point `failed`, as a death is; a request that is answered, with a result or the
error of a check, ends in `done`. `shown[u]` is the last room view sent to `u`. `unannounced` are the
rows a request has changed and no SYSTEM message tells of yet: those of the targets it names, of the
heir of an owner that went, and of an owner that gave the group away. `Announced` takes the targets
out and nothing else, as MEMBER_JOINED, ROLE_CHANGED, MEMBER_LEFT and MEMBER_KICKED name nobody else.
`createSystemMessage` is one action here: its own awaits are those of `MessageSend`.

### Presence

One user. `conn[s]` and `disc[s]` are the program counters of the two handlers of socket `s`, which
may run at once: nothing stops `handleDisconnect` while `handleConnection` waits. Redis is `live`,
with `ttl` for whether the key has an expiry; time is abstract: `KeyExpires` may happen when no
interval runs and no handler is between its EXPIRE and its interval, for both renew well within
the TTL (an interval every half TTL). A crash takes a node's sockets, handlers and intervals and
leaves Redis as it is.

### Sessions

One account. A request is one call of an endpoint, or one handshake; a refresh token is known by
the request it was issued to. Access tokens and refresh tokens do not expire within a run.
`delByPattern` is the SCAN and the pipeline of DEL, two actions. `clear`, `barred` and `late` are
history: the requests no login or allow overlapped, whether such a block has been answered, and
the requests that came after it.

### ReadReceipts

One group room of any users. A message is its seq, its sender and two flags; `sent[u]` are the
seqs of the events `u`'s client has received since it joined, `visible[u]` those whose body it
shows. `Guard` and `AssertMember` are the membership tests of REST and of the socket; `Reserve` is
the INCR and `Insert` the row, two awaits apart; `Mark` is the conditional update of `lastReadSeq`,
one statement, for any number of `Marks`, as nothing compares what a client says it has read with
what there is; `Find` and `Wipe` are `softDelete`, `ReadRows` and `ReplyPage` a page that is read
and answered later. `ReadHead`, `ReadExisting`, `Join` are the three statements of `addMembers` that
matter to a receipt. Recipients are read (`ReadRecipients`) before the event is emitted (`Emit`).
`due` and `before` are history: what was stored since, and before, a member joined.

### Paging

Its specification is `ScrollSpec`, so that one module of proofs can extend it and `MessageSend`. One
list, of messages (keys are seqs, unique) or of rooms (keys are `lastMessageAt`, not unique,
0 for null). `Load` reads `Limit + 1` rows below the cursor in one query and keeps `Limit` of them,
with ties and nulls in any order the database may return. Between pages `StoreMessage` adds a
message at any free seq, since seqs are stored out of order, and `EnterRoom`, `TouchRoom`,
`LeaveRoom` change the rooms; a touch may write a time up to `Lag` behind the clock, for it is that
of a message that was inserted before.

### AccessQueue

One Kakao account: its `AccessRequest` (`entry`) and its `Whitelist` row (`rowId`, `status`), with
fresh ids so that a stale id is told from a current one. A request is a login, a call of an
administrator or the boot of a node. An administrator acts on an id it was shown, which may be gone.
`Insert` is refused by the unique index when a row has come since the read (P2002), and `Drain`
deletes the request by id after an approval, or as a dismissal. `asked` is history: an attempt was
queued and not turned down since.

### Delivery

Its specification is `DeliverySpec`, for the same reason. One room. A call is the announcement of a message, of a system message, or the relay of a typing
event. `Emit` puts the event on the wire to the channel of each recipient that was read; `Deliver`
is the Redis adapter, in any order and without loss. The real one delivers at most once: a node that
has lost Redis for a moment misses the events of that moment, and nothing sends them again. So
`SettledAreReached` says what the code does for a member, given an adapter that works. The push then reads presence one recipient at a time, mutes,
and tokens, calls FCM and deletes the tokens it refused: five statements (`ReadPresence`,
`ReadMuted`, `ReadTokens`, `Send`, `Purge`), between which users come, go, connect, close, mute, and
register or remove devices. `link[u]` is where the one socket of a user is: `joined` is in the
channel and not yet in the presence set, `leaving` the other way round. `heard`, `reach` and
`settled` are history: who was a member since the call began, their devices, and for whom nothing
has changed. FCM is taken as configured; without credentials `sendToTokens` is a no-op. That it takes
500 tokens in one call and throws above is a fact of firebase-admin, not of this repository
(`MulticastMax`).

### DirectRooms

The 1:1 rooms of any users, known by their `directKey`, which is the pair. `Check` is
`assertActiveUsers` with the tests before it; `Find`, `Create` and `Winner` are the look-up, the
insert with both rows, which the unique index may refuse (`Taken`, P2002), and the look-up after
that; `Reactivate` is the `updateMany` of `reactivateDirect`. `ReadView` is the view for the answer,
`ReadEvent` the one for the event, `Emit` the gateway's `room:created` or `room:updated` to the
recipients read before (`audience`). `Guard`, `Target`, `Out` and `ReadAudience` are `removeMember`:
in a 1:1 room both are MEMBERs, so one may leave and not remove the other. `SetStatus` is the
administrator who blocks or unblocks. `shown[k][u]` is the room as `u` was last sent it; `announced`
and `vetted` are history: the rooms announced, and the calls in flight during which both users were
once ACTIVE.

In `PairRoom` a room is opened in one step, in which both come in; `Phase` maps the statements before
that step to `working` and those after it to `done`, or, for the founder until it has announced the
room, to `founding`. Every step of `DirectRooms`, the
ones of a call that loses the race included, is one of `PairRoom` or a stutter.

### Media

Files are ids: `uploader[m]` is `Nobody` until `CreateUploadUrl` makes the row, `stored[m]` is the
length of the object in the bucket, or `None` when there is none; an object may be empty. `Put` is the
client with its presigned URL, which may use it when it likes, more than once and with an object of any
of `Lengths`: what it declared (`Sizes`, at least 1) is not part of what is signed. `ReadRow`,
`Head` and `MarkReady` are `complete`; S3 may answer `Head` with an error, which the code takes for an
object that is not there, or without a length, in which case the size of the row that was read is
written back (`Length`, `?? media.byteSize`). `CanAccess` has the three queries that follow when the caller is not the
uploader, each an action; `Share` and `ReadProfile` are `getProfile`. `AssertOwned` stands before
everything that refers to a file: `StoreMessage` (an insert of `MessageSend`), `StoreProfile` (the
upsert and the update of a profile), `CreateGroup`, `UpdateRoom`. After `CreateGroup` the view is read
(`ReadView`) and room:created emitted with it (`TellName`). `UpdateRoom` reads the room first
(`RequireGroup`), and its message about the name is a statement of its own (`TellName` again). `Guard` is
`OnboardedGuard`, which stands before every endpoint but those of the profile, and not before
`message:send` of the socket (`Entries`); `AssertMember` is `RoomMemberGuard` and the test of `createMessage`; that the caller
is an OWNER or ADMIN, or that all members of a new group are ACTIVE, is a choice. Meanwhile members
come and go (`Enter`, `Leave`) and messages are taken back (`Unsend`). `since`, `ever` and `late` are
history: the reasons a caller has had all the time since its call came, whether it has had one at
some time, and whether its user had a profile when it came. Ids are bounded by `HasId`: a call that
creates a file or a room comes only when there is one left.

## Runs

Every passing run checks deadlock: a model may stop only where it says so (`Finished`, `Wait`).
Disturbances are constants: how often a request may arrive while another is handled
(`MaxOverlaps`), how many may die (`MaxFailures`), how many nodes crash, how often Redis drifts.
The type invariants are theorems; those of `DirectRooms` and `Media`, which also tie their tables
together, are in the runs too.
Many properties of this code hold only until the first disturbance; they are guarded by
`Undisturbed` (or by the counters), *in a run where disturbances do happen*, and the theorems
state them the same way.

| run | properties | what it shows |
|---|---|---|
| `MCMessageSend` | `Idempotent`, `NoCollisionWithoutDrift`, `LoneCallRecovers`, `ImplementsLog`, `EveryMessageAnnounced` | overlapping calls, retries of one key, an empty key, two drifts, one failure: one message per key, seeding never collides, one resync is enough for a call that has the room to itself, every message of a call that survives is broadcast, and the whole is a `MessageLog` |
| `MCGroupRoles` | `OwnershipIsGiven`, `ChangesAreAnnounced`, and until the first disturbance `OneOwnerInPeace`, `RemovalRespectsRank`, `MembersSeeTheRoom` | three requests on a group of up to three: even where requests overlap or die, nobody becomes owner but by a hand-over, and an answered request has announced what became of its targets (not of an heir or of a demoted owner, see below) |
| `MCPresence` | `ConnectedIsOnlineInPeace`, `PresenceIsTold`, `TtlCleansUp` | three sockets on two nodes, one overlap, one crash, one failure: until then connected means online, co-members and `lastSeenAt` follow; afterwards what is left is removed or expires |
| `MCSessions` | `BlockedIsOutInPeace`, `RotatedOnce`, `ReuseRevokes`, `BlockIsFinal` | four calls of any endpoint, two overlaps, one failure: once a block is answered the user is suspended and nothing is admitted, however the block overlapped with anything but a login or an allow |
| `MCReadReceipts` | `MembersAreSent`, `NewcomersStartRead`, `UnsentIsHiddenInPeace`, `OnlyStaleJoinRewinds` | three requests, two overlaps, one failure: no member misses a message; a receipt goes back, whatever numbers clients give, in one case only, an `addMembers` that acts on a row it read as left |
| `MCPaging` | `HistoryIsComplete`, `NoneTwice`, `RoomsAreListed` | a history is complete whatever is stored meanwhile; a scroll through rooms misses those that moved, tied with a cursor or have no message, and no others |
| `MCAccessQueue` | `NobodyIsLost`, `QueueIsClean`, `BlockIsKept` | four requests, two overlaps, one failure: who tried is pending or registered until turned down, and no registration or approval lifts a block |
| `MCDelivery` | `OnlyMembersHear`, `SettledAreReached`, `RegisteredStay` | one event, three changes meanwhile, one failure: nobody hears of it who was no member, whoever nothing changed for is reached, and no device FCM knows loses its row |
| `MCDirectRooms` | `TypeOK`, `RoomIsSeen`, `ImplementsPair`, `BothWereActive` | three calls of two users, two overlaps, one failure, one change of status: one room, created once, announced by its founder alone and before its answer; who loses the race gets the same room; a refused call changes nothing; nobody is put in but by a call during which both were ACTIVE together; until the first disturbance who left and who was left know it |
| `MCMedia` | `TypeOK`, `NameIsTold`, `OnlyEntitledSee`, `EntitledSee`, `OnlyOwnFiles`, `OnboardedOnce` | two calls of any endpoint, one overlap, one failure, two changes by clients meanwhile: no URL and no profile for a caller who was never entitled since the call came, none refused to one who was all the time; only uploaders refer to a file; READY files have an object, and in their row a size it has had or one that was declared within the limit; no profile is overwritten by a late POST; the last name that was told is the room's |

Runs that must find a violation, each of something a document or a comment of the repository says:

| run | property | trace |
|---|---|---|
| `MCGroupRolesOwners` | `OneOwner` | two requests of the owner overlap, a transfer and a role change: no owner is left |
| `MCPresenceGhost` | `OfflineInTheEnd` | a socket closes during its handshake; the handshake then registers it and starts an interval nobody clears |

Related behaviours the models have and no run of its own shows:

- *Sending.* Two calls insert in one order and write `lastMessageAt` in the other. A call dies after
  its insert: its retry is confirmed as a duplicate, and nobody broadcasts the message.
- *Roles.* A departing owner whose request dies before `transferOwnership` leaves no owner. Two
  `addMembers` of one new user make one of them die in its loop and announce nothing of the users it
  had added. A kick may act on a role that has changed. README.md:164 of the repository has role
  changes announced by a SYSTEM message, and two of them are not: the heir of an owner that leaves
  becomes OWNER (`rooms.service.ts:425-437`) and only MEMBER_LEFT follows, with no user but the one
  who left; and an owner that gives the group away becomes ADMIN while ROLE_CHANGED names the new
  owner alone. Members learn of both from `room:updated`. In `unannounced` these changes stay for good;
  `ChangesAreAnnounced` is about targets, so it does not hide them in what it says, and does not cover
  them.
- *Presence.* SCARD says 0, another socket is added, DEL removes it. A node that dies between SADD
  and EXPIRE leaves a key without a TTL. The expiry of a presence key tells nobody.
- *Sessions.* A login that read the whitelist row before a block activates the user after it, and
  stores a token the block's scan has missed, where README.md:216 has the user suspended and tokens
  invalid. A socket admitted before a block joins its channel after it. Two refreshes with one
  token may both be given a pair. A block that dies after its first statement is resumed by nobody.
- *Receipts.* `message:new` carries the body as it was at the insert and may come after the
  `message:deleted` of the same message.
- *Lists.* `nextCursor` is null whenever the last room of a page has no `lastMessageAt`, even if rooms
  follow, where `pagination.dto.ts:38` says null means the last page.
- *Direct rooms.* Who puts a departed partner back tells nobody: `reactivateDirect` emits no
  `room:updated`, so the partner does not see it is in the room until the next event or listing.
- *Media.* The size that is checked against the limit is the one the client declares; `complete`
  takes over whatever size the object has and does not compare. A file may be referred to before it
  is READY. Two first POSTs of a profile that overlap both succeed, and the second wins. Of two
  renames that overlap one may be compared with the name the other one has replaced, and the name
  the room has in the end is not announced.
- *Queue.* An approval that read no row is refused by the unique index when a registration came
  first, though `admin.service.ts:132-133` calls it idempotent against that race; the request stays.
  Two nodes that boot at once collide in the same way.
- *Delivery.* A recipient that connects or closes between the emit and `isOnline` gets both the
  event and the push, or neither. With more tokens than FCM takes in one call nobody is pushed to.

Seen in the code and outside the models: `emitLifecycle` sends the view, `unreadCount` included, that
it computed for the first recipient to all (`rooms.service.ts:458`).

### Bounds

- *Two sends, a history of up to two* (`MCMessageSend`): the cases of `persistWithSeq` need a call
  that wins, one that collides, and one that seeds or resyncs; the history makes a counter that was
  lost or rewound collide with old rows, more than once with the second drift. `SeqRetry = 3` as
  configured.
- *Three users, three requests* (roles): actor, target and heir are distinct; a request to set a
  role up, one to break it and one that overlaps. An overlap and a failure are enough for every
  hazard listed.
- *Three sockets, two nodes* (presence): the one that leaves, the one that comes, and one on the
  node that crashes.
- *Four calls* (sessions): a session, its rotation, the block, and a late call; or a login, a
  block, an allow and another block. Likewise in the queue: an attempt, its approval, a
  registration that races it, and a removal or a block.
- *Two users, three requests* (receipts): a reader and a newcomer; two additions and a receipt is the
  longest race the properties speak of, and it needs two overlaps. `Marks = {1, 2, 4}`: two sends make seqs 1
  and 2; 4 is a number no message has.
- *Four rows, pages of two, keys up to 4* (paging): three messages make two pages, and with a fourth
  seq there is one free for a message that is stored between these, above or below the cursor (seqs 1,
  3, 4, the page {4, 3}, then seq 2). With keys up to 3 there would be none. Four rooms make two full
  pages, with a tie or a null among them.
- *One call, two users with two devices, three changes* (delivery): calls share no state, so one is
  enough; a sender and a recipient; a device that changes hands takes two changes.
  `MulticastMax = 1` makes the limit of FCM reachable.
- *Two users, three requests* (direct rooms): pairs share nothing, so one is enough. Two calls race
  for the room and the third is the departure between them, or the one that finds it; two overlaps
  let all three run at once.
- *Two users, one file, one group, two names, two requests* (media): the uploader and the other user,
  who is entitled or not by what refers to the file; the longest walk of `canAccess` is four
  statements, and two changes fit between any of them, one that takes a reason away and one that
  gives another. One call may overlap another: the pairs that matter are an access and a write, two
  onboardings, two renames. `Sizes = {1, 2}` with `MaxBytes = 1` makes a declared size acceptable or not;
  `Lengths = {0, 2}` makes an object empty, or larger than what was declared and than the limit. The
  initial state has any combination of rows.

### Fairness

Only `FairSpec` of `MessageSend` and `Presence` assume any: a handler whose command was sent is
resumed when the answer comes (`WF` of its steps: the event loop runs every settled promise, and
clients of Redis and Prisma answer or throw, which is `Fail`), an interval that is set fires
(`WF` of `Heartbeat`), Redis expires a key that nothing renews (`WF` of `KeyExpires`). No fairness is
assumed for requests to come, for sockets to open or close, nor for crashes or drifts.

## Proofs

For any number of calls, users, sockets, rows and nodes and any bounds on the disturbances, from the
named assumptions on the constants (`SendAssumption`, `RolesAssumption`, `PresenceAssumption`,
`SessionsAssumption`, `ReceiptsAssumption`, `PagingAssumption`, `QueueAssumption`,
`DeliveryAssumption`, `DirectAssumption`, `MediaAssumption`: bounds are natural numbers, markers like
`Nobody` are none of the values they stand beside), which TLC evaluates in the runs. Every safety
invariant and every action property of a passing run is a theorem, and so are both refinements. The
type invariant of each module is proved unconditionally (`TypeCorrect`, `ScrollTypeCorrect` for
`Paging`, `DeliveryTypeCorrect` for `Delivery`); beyond it:

- `MessageSend`, in `MessagesProofs`. `SendInv` joins types, rows (one per key; a row belongs to a call past its
  insert and carries that call's key), calls (past the insert there is a row; what was told is
  stored) and broadcasts. It is inductive and gives `ConfirmedIsStored`, `Idempotent` and the step
  simulation of `SendImplementsLog`: inserts map to `Store`, the event to `Announce`, answers to the
  outcome they carry, every other step to a stutter. `Idempotent` alone is not inductive: it needs
  that the row a loser finds is the only one of its key. `SeqInv` (the counter is at or above every
  seq handed out; each is handed out once; while the key is missing nobody holds one) gives
  `NoCollisionWithoutDrift`. `LoneInv` follows an undisturbed call through at most one resync and
  gives `LoneCallRecovers`.
- `GroupRoles`. `SerialInv`: at most one request is in flight, what it has read is still so,
  and the group has one owner except between the departure of an owner and the crowning of its
  heir. It holds as long as the system is `Undisturbed`, and gives `OneOwnerInPeace` and
  `RemovalRespectsRank`. `UndisturbedBefore` (a disturbance is never undone) lets the invariant be
  carried backwards over the guard. `NewsInv`, on top of it, says that whatever is still to be
  shown is the business of the request in flight, at a point from which it will do so,
  and that its audience and view are those of the room: `MembersSeeTheRoom`. `ToldInv` needs no
  peace: a change of a target that is not announced is that of a request before its `Announce`, or of
  one that has failed; gives `ChangesAreAnnounced` (`TargetsAreAnnounced`) under any overlap and death.
  `GivingInv` (who is about to give the group away was let in by an owner, or
  saw one go) needs no peace, and gives `OwnershipIsGiven` under any overlap and failure.
- `Presence`, in `RealtimeProofs`. The same pattern: where each socket is in its life, and which sockets are in the
  set and renew it; gives `ConnectedIsOnlineInPeace`. That an empty SET is one SCARD counts as 0 is
  `EmptyWhenCountedZero`, from the finite-set theorems. `TellInv`: if co-members do not know what is
  so, the first socket is being counted or announced, or the last one is on its way out, even when
  the key expires under it; gives `PresenceIsTold`.
- `Sessions`. `BlockInv` holds however requests overlap: `ClearInv` follows a block that no
  login and no allow overlaps from its write of the row to its answer, `BarredInv` says what it
  leaves behind (not ACTIVE, no row that admits a login, no allow in flight), `LateInv` keeps those
  who come later off every path to a token or a channel. It gives `BlockIsFinal`, which is not
  inductive alone, as the suspension could be lifted by a login or an allow that had read the row
  before. `SerialInv`, with `UndisturbedBefore`, is the pattern of the two modules above: what the
  one request in flight has read is still so, and a BLOCKED account that is not out has its block
  in flight. It gives `BlockedIsOutInPeace`, and `ReuseRevokes` (what the SCAN returned is still all
  there is when the pipeline deletes it). `SpentInv`: a token that a refresh took out of Redis was
  taken by that one only and does not come back; gives `RotatedOnce`.
- `ReadReceipts`. `SentInv`: unless a request died, a message stored since a member joined was
  sent to it or is on its way, in a send that has the member among its recipients or has yet to
  read them; gives `MembersAreSent` under any overlap. `JoinInv`: without overlaps an `addMembers`
  about to write has just seen its target gone; with it, of all steps only a stale join rewinds a
  receipt (`OnlyStaleJoinRewinds`), and with `HeadInv` (the head it read still is the head) a
  newcomer has nothing unread (`NewcomersStartRead`). `HiddenInv`: one row per seq, and of the unsent
  messages a member is shown at most the one whose `message:deleted` is on its way; gives
  `UnsentIsHiddenInPeace`.
- `Paging`, in `MessagesProofs`. `PageFacts` says what a page is, from the query alone: either all the candidates,
  or the next cursor is the key of one of them and nothing left out is above it. `CoverInv`: a row
  of the first page's time that has not moved is listed, below the cursor, or lost to a tie or a
  null. `MessagesInv`: a listed message keeps its key, and every cursor is the key of a listed one,
  so that with unique seqs nothing is lost to a tie. They give `HistoryIsComplete`, `NoneTwice` and
  `RoomsAreListed` for any length and page size.
- `AccessQueue`. `RowBehindApproval`: an approval about to delete the request knows a row.
  It makes `NobodyIsLost` inductive, under any overlap and failure. `StepKeepsBlock` gives
  `BlockIsKept` step by step; `SerialInv` gives `QueueIsClean`.
- `Delivery`, in `RealtimeProofs`. `HeardInv` bounds what a call holds (recipients, tokens, events on the wire) by
  what was true at some time since it began, and gives `OnlyMembersHear`. `ReachInv` follows a user
  for whom nothing has changed through each stage of a call that is not broken: the event, or the
  push, is on its way to it (`OnWay`); gives `SettledAreReached`. `PurgeInv`: what a purge is about to
  delete FCM no longer knows, and never will again; gives `RegisteredStay`.
- `DirectRooms`. `DirectInv` says of every point of a call what is so there: an open past its check is
  `vetted`, one past the conflict has its room, a founder has let both in, and what a removal goes
  past `Target` with is a leave. It is inductive however calls overlap, die and see statuses change,
  and gives `BothWereActive` and the step simulation of `OneRoomPerPair`: `Create` and `Reactivate`
  map to the opening, the founder's `Emit` to the announcement, answers and deaths to the outcome,
  every other step to a stutter. That simulation showed that two arms of the CASE in `Phase` had
  overlapped, so that its value was what TLC takes first and nothing a proof may use; they are
  disjoint now. `SeenInv`, while `Undisturbed`: where what a member was shown is not the room, the one
  call in flight is `Entering` (it has put both in, and reads and sends the room as it is) or
  `Parting` (it has taken its caller out, and sends that to those it read before). It gives `RoomIsSeen`.
- `Media`. `MediaInv` ties each point of a call to its endpoint and its file: past `Head` the object is
  there, for objects are never removed, and what was read is the declared size or a length it has had
  (`TypeOK`); what a write is
  about to refer to is its caller's, as rows never change their uploader, so that the assertion made
  statements before is still so (`OnlyOwnFiles`). `HistoryInv`: the reasons a call has had all the time hold now, and none of
  them is one that `canAccess` has already found absent; a call about to read a profile has shared a
  room; one that came with a profile finds it and gets no further in POST. It gives `OnlyEntitledSee`,
  `EntitledSee` and `OnboardedOnce` under any overlap, of calls with each other and with the changes
  clients make. `NamesInv`: the name that was told is the room's, or the one call in flight is about to
  tell it; gives `NameIsTold`.

Only model-checked: liveness (`EveryMessageAnnounced`, `TtlCleansUp`), as the prover has no rule for
fairness and ENABLED. What holds only in peace is proved only in peace: which kind of disturbance
breaks which of those properties is told above from TLC's traces, and no theorem says it.
No definition is recursive, so nothing had to be left out for that reason.

## Not modelled

- `getRoomView`, `countUnread`, `readCount` and the counts in a room view, `me`, the lists of an
  administrator, the search of users: reads of rows that the models keep.
- `room:join`: joins a channel that nothing is sent to.
- Expiry of access and refresh tokens and of presigned URLs; throttling.
- Kakao: two HTTP calls that end a login before it touches state.
- Configuration, filters, validation of DTOs, health, Swagger: wiring and formatting.

## What could follow

1. `Sessions` composed with `AccessQueue`: the whitelist row created and removed while sessions live;
   expiry of refresh tokens.
2. An abstract specification of membership that `GroupRoles` implements, as `MessageLog` is for
   sending and `PairRoom` for 1:1 rooms.
3. Sharper hypotheses for the theorems that ask for `Undisturbed`: several of them need only that no
   request dies, or only that two endpoints do not overlap.

## Running

    tlc -workers 2 -config MCMessageSend.cfg MCMessageSend
    tlapm MessagesProofs.tla
