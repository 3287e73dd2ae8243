-------------------------------- MODULE Media -------------------------------
(***************************************************************************)
(* Files and who may see them: upload and download of media, and what      *)
(* refers to them - messages, profiles and group rooms (src/media,         *)
(* src/profile, the profile of src/users, createGroup and updateRoom of    *)
(* src/rooms, behind OnboardedGuard and RoomMemberGuard).                  *)
(*                                                                         *)
(* A file is a row here and an object in S3, which the client puts there   *)
(* with a presigned URL.  Whether a user may read it is asked of four      *)
(* tables one after the other, while the members of rooms, the messages    *)
(* and the avatars change.                                                 *)
(***************************************************************************)
EXTENDS Naturals

CONSTANTS
  Users, Files, Rooms, Names,
  Requests,     \* calls of the endpoints
  Nobody,       \* the uploader of a file that has no row
  None,         \* no file, no room, no object
  Keep,         \* a field that a PATCH leaves out
  Sizes,        \* the sizes a client may declare, @Min(1) of the DTO
  Lengths,      \* the lengths its objects may have, 0 for an empty one
  MaxBytes,     \* policy.mediaMaxBytes
  MaxOverlaps,  \* bound on the requests that arrive while another is handled
  MaxChanges,   \* bound on what clients and members do meanwhile
  MaxFailures   \* bound on the requests that die half-way

ASSUME MediaAssumption ==
  /\ Nobody \notin Users
  /\ None # Keep /\ {None, Keep} \cap (Files \cup Rooms \cup Names \cup Sizes \cup Lengths) = {}
  /\ Sizes \subseteq Nat \ {0} /\ Lengths \subseteq Nat /\ MaxBytes \in Nat
  /\ MaxOverlaps \in Nat /\ MaxChanges \in Nat /\ MaxFailures \in Nat

VARIABLES
  uploader,   \* uploader[m]: Media.uploaderId, or Nobody when there is no row
  ready,      \* the files whose Media.status is READY
  byteSize,   \* byteSize[m]: Media.byteSize
  stored,     \* stored[m]: the length of the object in the bucket, or None when there is none
  posts,      \* the messages with a mediaId: their file, room and sender
  avatar,     \* avatar[u]: Profile.avatarMediaId
  onboarded,  \* the users with a profile, which has its onboardedAt
  name,       \* name[g]: Room.name, or None when there is no such room
  roomAvatar, \* roomAvatar[g]: Room.avatarMediaId
  members,    \* members[g]: the users whose row in it has no leftAt
  named,      \* named[g]: the name that room:created or ROOM_RENAMED gave its members last
  pc,         \* pc[r]: what request r is about to do
  op,         \* op[r]: its endpoint and parameters
  saw,        \* saw[r]: the size, or the name of the room, it has read
  outcome,    \* outcome[r]: what its caller was told
  since,      \* since[r]: why its caller may see the file, all the time since it came (history)
  ever,       \* the calls whose caller was allowed to at some time since (history)
  late,       \* the calls whose user had a profile when they came (history)
  had,        \* had[m]: the lengths its object has had (history)
  overlaps,   \* requests that arrived while another was handled
  changes,    \* what clients and members did meanwhile
  failures    \* requests that died

files == <<uploader, ready, byteSize>>
bucket == <<stored, had>>
references == <<posts, avatar, roomAvatar>>
people == <<onboarded, members>>
titles == <<name, named>>
history == <<since, ever, late>>
vars == <<files, bucket, references, people, titles, pc, op, saw, outcome, history,
          overlaps, changes, failures>>

-----------------------------------------------------------------------------
Kinds == {"upload", "complete", "get", "look", "send", "onboard", "profile", "found", "update"}
Points == {"idle", "onboarded", "create", "row", "head", "ready", "message", "avatar",
           "room", "share", "read", "vet", "member", "existing", "owned", "write", "view", "tell", "done"}

\* The parameters of a call; the sizes, names and members it brings are chosen where they are
\* used first.
Op == {o \in [kind : Kinds, user : Users, file : Files \cup {None, Keep},
              room : Rooms \cup {None}, other : Users] :
         /\ o.kind \in {"complete", "get", "send"} => o.file \in Files
         /\ o.kind \in {"upload", "look"} => o.file = None
         /\ o.kind # "look" => o.other = o.user
         /\ o.file = Keep => o.kind \in {"profile", "update"}
         /\ o.kind \in {"send", "update"} => o.room # None
         /\ o.room # None => o.kind \in {"send", "update", "found"}}
NoOp == [kind |-> "none", user |-> Nobody, file |-> None, room |-> None, other |-> Nobody]
Post == [file : Files, room : Rooms, sender : Users]

\* The sizes createUploadUrl accepts.
Declared == {size \in Sizes : size <= MaxBytes}

Exists(g) == name[g] # None
Running(r) == pc[r] \notin {"idle", "done"}
InFlight == {r \in Requests : Running(r)}

\* Why the caller of r may see what it asks for, at this moment.
Reasons(r) ==
  LET u == op[r].user  m == op[r].file  v == op[r].other IN
  {why \in {"shared", "uploader", "message", "avatar", "room"} :
     \/ /\ op[r].kind = "look" /\ why = "shared"
        /\ u = v \/ \E g \in Rooms : {u, v} \subseteq members[g]
     \/ /\ op[r].kind = "get"
        /\ CASE why = "uploader" -> uploader[m] = u
             [] why = "message" -> \E p \in posts : p.file = m /\ u \in members[p.room]
             [] why = "avatar" -> \E w \in Users : avatar[w] = m
             [] why = "room" -> \E g \in Rooms : roomAvatar[g] = m /\ u \in members[g]
             [] OTHER -> FALSE}

\* A system that has been in use, with no upload under way.
Init ==
  /\ onboarded \in SUBSET Users
  /\ uploader \in [Files -> onboarded \cup {Nobody}]
  /\ byteSize \in [Files -> Declared]
  /\ ready = {}
  /\ stored = [m \in Files |-> None] /\ had = [m \in Files |-> {}]
  /\ name \in [Rooms -> Names \cup {None}] /\ named = name
  /\ members \in [Rooms -> SUBSET Users]
  /\ \A g \in Rooms : members[g] # {} => Exists(g)
  /\ posts \in SUBSET {p \in Post : Exists(p.room) /\ uploader[p.file] = p.sender}
  /\ avatar \in [Users -> Files \cup {None}]
  /\ \A u \in Users : avatar[u] # None => uploader[avatar[u]] = u
  /\ roomAvatar \in [Rooms -> {m \in Files : uploader[m] # Nobody} \cup {None}]
  /\ \A g \in Rooms : roomAvatar[g] # None => Exists(g)
  /\ pc = [r \in Requests |-> "idle"]
  /\ op = [r \in Requests |-> NoOp]
  /\ saw = [r \in Requests |-> None]
  /\ outcome = [r \in Requests |-> "none"]
  /\ since = [r \in Requests |-> {}] /\ ever = {} /\ late = {}
  /\ overlaps = 0 /\ changes = 0 /\ failures = 0

-----------------------------------------------------------------------------
Tables == <<files, references, people, titles>>
Calm == UNCHANGED <<bucket, overlaps, changes>>

\* A request that only reads goes on, or is answered and forgotten.
Goes(r, p) ==
  /\ pc' = [pc EXCEPT ![r] = p]
  /\ UNCHANGED <<Tables, op, outcome, failures>> /\ Calm
Answered(r, o) ==
  /\ pc' = [pc EXCEPT ![r] = "done"]
  /\ op' = [op EXCEPT ![r] = NoOp]
  /\ outcome' = [outcome EXCEPT ![r] = o]
  /\ saw' = [saw EXCEPT ![r] = None]
  /\ Calm
Ends(r, o) == Answered(r, o) /\ UNCHANGED <<Tables, failures>>

\* The history of the calls that run, kept beside every step.
Watch ==
  /\ since' = [r \in Requests |-> CASE ~Running(r)' -> {}
                                  [] pc[r] = "idle" /\ Running(r)' -> Reasons(r)'
                                  [] Running(r) /\ Running(r)' -> since[r] \cap Reasons(r)']
  /\ ever' = {r \in Requests : Running(r)' /\ (r \in ever \/ Reasons(r)' # {})}
  /\ late' = {r \in Requests : Running(r)' /\ IF Running(r) THEN r \in late
                                               ELSE op'[r].user \in onboarded}

\* The ids are bounded: there is one for the file or the room that a call is to create.
HasId(kind) ==
  /\ kind = "upload" => \E m \in Files : uploader[m] = Nobody
  /\ kind = "found" => \E g \in Rooms : ~Exists(g)
  /\ kind \in {"upload", "found"} => \A q \in InFlight : op[q].kind # kind

\* OnboardedGuard stands before the endpoints but those of the profile, and not before the
\* messages that are sent over the socket.
Entries(kind) ==
  CASE kind \in {"onboard", "profile"} -> {"existing"}
    [] kind = "send" -> {"onboarded", "member"}
    [] OTHER -> {"onboarded"}

Arrive(r) ==
  /\ pc[r] = "idle"
  /\ InFlight = {} \/ overlaps < MaxOverlaps
  /\ overlaps' = IF InFlight = {} THEN overlaps ELSE overlaps + 1
  /\ \E o \in Op :
       /\ HasId(o.kind)
       /\ o.kind = "found" => o.room = None
       /\ op' = [op EXCEPT ![r] = o]
       /\ \E p \in Entries(o.kind) : pc' = [pc EXCEPT ![r] = p]
  /\ UNCHANGED <<Tables, bucket, saw, outcome, changes, failures>>

\* What follows OnboardedGuard.
First(kind) ==
  CASE kind = "upload" -> "create"
    [] kind \in {"complete", "get"} -> "row"
    [] kind = "look" -> "share"
    [] kind \in {"send", "update"} -> "member"
    [] kind = "found" -> "vet"

Guard(r) ==
  /\ pc[r] = "onboarded"
  /\ IF op[r].user \in onboarded
       THEN Goes(r, First(op[r].kind)) /\ UNCHANGED saw
       ELSE Ends(r, "refused")

-----------------------------------------------------------------------------
(* Upload: createUploadUrl, the client's PUT, complete                     *)

\* The row; then the URL is signed, which asks nothing of anyone.
CreateUploadUrl(r) ==
  /\ pc[r] = "create"
  /\ \E size \in Sizes :
       \/ size > MaxBytes /\ Ends(r, "refused")
       \/ /\ size <= MaxBytes
          /\ \E m \in Files : /\ uploader[m] = Nobody
                             /\ uploader' = [uploader EXCEPT ![m] = op[r].user]
                             /\ byteSize' = [byteSize EXCEPT ![m] = size]
          /\ Answered(r, "ok")
          /\ UNCHANGED <<ready, references, people, titles, failures>>

\* The client that has the URL, whatever size it said; the object may be empty.
Put(m) ==
  /\ changes < MaxChanges
  /\ changes' = changes + 1
  /\ uploader[m] # Nobody
  /\ \E length \in Lengths : /\ stored' = [stored EXCEPT ![m] = length]
                            /\ had' = [had EXCEPT ![m] = @ \cup {length}]
  /\ UNCHANGED <<Tables, pc, op, saw, outcome, overlaps, failures>>

\* complete and getMedia read the row; the uploader may go on, complete with the byteSize of it.
ReadRow(r) ==
  LET m == op[r].file IN
  /\ pc[r] = "row"
  /\ CASE uploader[m] = Nobody -> Ends(r, "missing")
       [] op[r].kind = "complete" /\ uploader[m] = op[r].user ->
            Goes(r, "head") /\ saw' = [saw EXCEPT ![r] = byteSize[m]]
       [] op[r].kind = "complete" /\ uploader[m] \notin {Nobody, op[r].user} -> Ends(r, "refused")
       [] op[r].kind = "get" /\ uploader[m] = op[r].user -> Ends(r, "ok")
       [] op[r].kind = "get" /\ uploader[m] \notin {Nobody, op[r].user} ->
            Goes(r, "message") /\ UNCHANGED saw

\* Mutant of Missing: whatever the bucket answers, the file is taken to be there.
MissingIgnored(m) == FALSE

\* headObject, which makes no difference between an object that is not there and an error.
Missing(m) == stored[m] = None

\* head.contentLength ?? media.byteSize: the answer may come without a length.
Length(r) == {stored[op[r].file], saw[r]}

Head(r) ==
  LET m == op[r].file IN
  /\ pc[r] = "head"
  /\ \/ Missing(m) /\ Ends(r, "refused")
     \/ /\ ~Missing(m)
        /\ \E size \in Length(r) : saw' = [saw EXCEPT ![r] = size]
        /\ Goes(r, "ready")
     \/ Ends(r, "refused")

MarkReady(r) ==
  LET m == op[r].file IN
  /\ pc[r] = "ready"
  /\ ready' = ready \cup {m}
  /\ byteSize' = [byteSize EXCEPT ![m] = saw[r]]
  /\ Answered(r, "ok")
  /\ UNCHANGED <<uploader, references, people, titles, failures>>

-----------------------------------------------------------------------------
(* canAccess of getMedia, and getProfile of another user                   *)

\* Mutant of InMessage: the room of the message is not looked at.
InAnyMessage(u, m) == \E p \in posts : p.file = m

\* The three queries that follow for someone else than the uploader.
InMessage(u, m) == \E p \in posts : p.file = m /\ u \in members[p.room]
AsAvatar(u, m) == \E v \in Users : avatar[v] = m
AsRoomAvatar(u, m) == \E g \in Rooms : roomAvatar[g] = m /\ u \in members[g]

Asks(r, at, found, next) ==
  /\ pc[r] = at
  /\ \/ found /\ Ends(r, "ok")
     \/ ~found /\ next # "done" /\ Goes(r, next) /\ UNCHANGED saw
     \/ ~found /\ next = "done" /\ Ends(r, "refused")

\* Mutant of CanAccess: the avatar of a room is not among the reasons.
CanAccessButRoom(r) ==
  LET u == op[r].user  m == op[r].file IN
  \/ Asks(r, "message", InMessage(u, m), "avatar")
  \/ Asks(r, "avatar", AsAvatar(u, m), "done")

CanAccess(r) ==
  LET u == op[r].user  m == op[r].file IN
  \/ Asks(r, "message", InMessage(u, m), "avatar")
  \/ Asks(r, "avatar", AsAvatar(u, m), "room")
  \/ Asks(r, "room", AsRoomAvatar(u, m), "done")

\* shareRoom, and the profile, which is there once its user is onboarded.
ShareRoom(u, v) == u = v \/ \E g \in Rooms : {u, v} \subseteq members[g]

Share(r) ==
  /\ pc[r] = "share"
  /\ IF ShareRoom(op[r].user, op[r].other) THEN Goes(r, "read") /\ UNCHANGED saw
     ELSE Ends(r, "refused")

ReadProfile(r) ==
  /\ pc[r] = "read"
  /\ Ends(r, IF op[r].other \in onboarded THEN "ok" ELSE "missing")

-----------------------------------------------------------------------------
(* What refers to a file: messages, profiles and rooms.                    *)

\* assertActiveUsers of createGroup, for whatever members the call names.
Vet(r) ==
  /\ pc[r] = "vet"
  /\ (Goes(r, "owned") /\ UNCHANGED saw) \/ Ends(r, "refused")

\* RoomMemberGuard
AssertMember(r) ==
  /\ pc[r] = "member"
  /\ \/ op[r].user \notin members[op[r].room] /\ Ends(r, "refused")
     \/ op[r].user \in members[op[r].room] /\ UNCHANGED saw
        /\ Goes(r, IF op[r].kind = "send" THEN "owned" ELSE "existing")

\* Mutant of MayCreate: a profile that is there is written over.
MayCreateAgain(u) == TRUE

\* A profile that has its onboardedAt is a conflict.
MayCreate(u) == u \notin onboarded

\* updateRoom keeps the name of the room it reads; only an OWNER or an ADMIN gets further.
RequireGroup(r) ==
  \/ Goes(r, "owned") /\ saw' = [saw EXCEPT ![r] = name[op[r].room]]
  \/ Ends(r, "refused")

\* The row an endpoint reads first: POST /profile wants none, PATCH /profile wants one.
ReadExisting(r) ==
  LET u == op[r].user IN
  /\ pc[r] = "existing"
  /\ CASE op[r].kind = "onboard" ->
            IF MayCreate(u) THEN Goes(r, "owned") /\ UNCHANGED saw ELSE Ends(r, "refused")
       [] op[r].kind = "profile" ->
            IF u \in onboarded THEN Goes(r, "owned") /\ UNCHANGED saw ELSE Ends(r, "missing")
       [] op[r].kind = "update" -> RequireGroup(r)

\* Mutant of MayRefer: that the file has a row is enough.
MayReferAny(u, m) == m \in Files => uploader[m] # Nobody

\* assertOwnedMedia, with nothing to assert of a file that is null or left out.
MayRefer(u, m) == m \in Files => uploader[m] = u

AssertOwned(r) ==
  /\ pc[r] = "owned"
  /\ IF MayRefer(op[r].user, op[r].file) THEN Goes(r, "write") /\ UNCHANGED saw
     ELSE Ends(r, "refused")

\* The message, as MessageSend stores it; message:new is emitted by Delivery.
StoreMessage(r) ==
  /\ posts' = posts \cup {[file |-> op[r].file, room |-> op[r].room, sender |-> op[r].user]}
  /\ Answered(r, "ok")
  /\ UNCHANGED <<files, avatar, roomAvatar, people, titles>>

\* The upsert and the update of a profile.
StoreProfile(r) ==
  /\ onboarded' = onboarded \cup {op[r].user}
  /\ avatar' = IF op[r].file = Keep THEN avatar
               ELSE [avatar EXCEPT ![op[r].user] = op[r].file]
  /\ Answered(r, "ok")
  /\ UNCHANGED <<files, posts, roomAvatar, members, titles>>

\* createGroup: the rows of the room and its members.  One of Names stands for a room without
\* a name.
CreateGroup(r) ==
  /\ \E g \in Rooms, title \in Names, others \in SUBSET Users :
       /\ ~Exists(g)
       /\ name' = [name EXCEPT ![g] = title]
       /\ members' = [members EXCEPT ![g] = others \cup {op[r].user}]
       /\ roomAvatar' = [roomAvatar EXCEPT ![g] = op[r].file]
       /\ op' = [op EXCEPT ![r].room = g]
  /\ pc' = [pc EXCEPT ![r] = "view"]
  /\ UNCHANGED <<files, posts, avatar, onboarded, named, saw, outcome>> /\ Calm

\* emitLifecycle reads the view that room:created is to carry.
ReadView(r) ==
  /\ pc[r] = "view"
  /\ saw' = [saw EXCEPT ![r] = name[op[r].room]]
  /\ Goes(r, "tell")

\* Mutant of Renamed: the new name is compared with the row after the update.
RenamedAfter(r, title) == title # name'[op[r].room]

\* A name that differs from the one read before is announced.
Renamed(r, title) == title # saw[r]

\* The update; ROOM_RENAMED is a statement of its own, with the new name in it.  The message about
\* an avatar and room:updated, whose view is read when it is sent, change nothing kept here.
UpdateRoom(r) ==
  LET g == op[r].room IN
  \E title \in Names \cup {Keep} :
    /\ name' = IF title = Keep THEN name ELSE [name EXCEPT ![g] = title]
    /\ roomAvatar' = IF op[r].file = Keep THEN roomAvatar
                     ELSE [roomAvatar EXCEPT ![g] = op[r].file]
    /\ IF title # Keep /\ Renamed(r, title)
         THEN /\ pc' = [pc EXCEPT ![r] = "tell"]
              /\ saw' = [saw EXCEPT ![r] = title]
              /\ UNCHANGED <<op, outcome>> /\ Calm
         ELSE Answered(r, "ok")
    /\ UNCHANGED <<files, posts, avatar, people, named>>

Write(r) ==
  /\ pc[r] = "write"
  /\ CASE op[r].kind = "send" -> StoreMessage(r)
       [] op[r].kind \in {"onboard", "profile"} -> StoreProfile(r)
       [] op[r].kind = "found" -> CreateGroup(r)
       [] op[r].kind = "update" -> UpdateRoom(r)
  /\ UNCHANGED failures

\* room:created, or createSystemMessage, a whole createMessage of MessageSend.
TellName(r) ==
  /\ pc[r] = "tell"
  /\ named' = [named EXCEPT ![op[r].room] = saw[r]]
  /\ Answered(r, "ok")
  /\ UNCHANGED <<files, references, people, name, failures>>

-----------------------------------------------------------------------------
(* What happens meanwhile: members come and go, and take messages back.    *)

Does ==
  /\ changes < MaxChanges
  /\ changes' = changes + 1
  /\ UNCHANGED <<files, bucket, avatar, roomAvatar, onboarded, titles, pc, op, saw, outcome,
                 overlaps, failures>>

Enter(g, u) ==
  /\ Exists(g) /\ u \notin members[g]
  /\ members' = [members EXCEPT ![g] = @ \cup {u}]
  /\ UNCHANGED posts
  /\ Does

Leave(g, u) ==
  /\ u \in members[g]
  /\ members' = [members EXCEPT ![g] = @ \ {u}]
  /\ UNCHANGED posts
  /\ Does

\* softDelete takes the mediaId from the row.
Unsend(p) == posts' = posts \ {p} /\ UNCHANGED members /\ Does

\* A statement throws or the node dies; what was written stays.
Fail(r) ==
  /\ Running(r)
  /\ failures < MaxFailures
  /\ failures' = failures + 1
  /\ Answered(r, "failed")
  /\ UNCHANGED Tables

Step(r) ==
  \/ Guard(r) \/ CreateUploadUrl(r) \/ ReadRow(r) \/ Head(r) \/ MarkReady(r)
  \/ CanAccess(r) \/ Share(r) \/ ReadProfile(r)
  \/ Vet(r) \/ AssertMember(r) \/ ReadExisting(r) \/ AssertOwned(r) \/ Write(r)
  \/ ReadView(r) \/ TellName(r)

UserSteps ==
  \/ \E m \in Files : Put(m)
  \/ \E g \in Rooms, u \in Users : Enter(g, u) \/ Leave(g, u)
  \/ \E p \in posts : Unsend(p)

\* The server waits for calls.
Wait == InFlight = {} /\ UNCHANGED vars

Next ==
  \/ (\E r \in Requests : Arrive(r) \/ Step(r) \/ Fail(r)) /\ Watch
  \/ UserSteps /\ Watch
  \/ Wait

Spec == Init /\ [][Next]_vars

-----------------------------------------------------------------------------
(* Properties.                                                             *)

\* The types, with what ties the tables to each other: a room that is not there has no members,
\* a file without a row no object, and, since complete "verifies the object exists and marks it
\* READY", a READY file has its object.  Until then its row has the size that was declared,
\* afterwards one that the object has had or a declared one, and so none above the limit that
\* the object never had.
TypeOK ==
  /\ uploader \in [Files -> Users \cup {Nobody}]
  /\ ready \subseteq Files
  /\ byteSize \in [Files -> Sizes \cup Lengths] /\ stored \in [Files -> Lengths \cup {None}]
  /\ \A m \in Files : uploader[m] = Nobody => stored[m] = None /\ m \notin ready
  /\ had \in [Files -> SUBSET Lengths]
  /\ \A m \in ready : stored[m] # None
  /\ \A m \in Files : byteSize[m] \in Declared \/ (m \in ready /\ byteSize[m] \in had[m])
  /\ posts \subseteq Post
  /\ avatar \in [Users -> Files \cup {None}] /\ roomAvatar \in [Rooms -> Files \cup {None}]
  /\ onboarded \subseteq Users
  /\ {name, named} \subseteq [Rooms -> Names \cup {None}]
  /\ members \in [Rooms -> SUBSET Users]
  /\ \A g \in Rooms : members[g] # {} => Exists(g)
  /\ pc \in [Requests -> Points] /\ op \in [Requests -> Op \cup {NoOp}]
  /\ saw \in [Requests -> Names \cup Sizes \cup Lengths \cup {None}]
  /\ outcome \in [Requests -> {"none", "ok", "refused", "missing", "failed"}]
  /\ overlaps \in 0..MaxOverlaps /\ changes \in 0..MaxChanges /\ failures \in 0..MaxFailures

Answers(r, o) == Running(r) /\ outcome'[r] = o

\* The access policy of the spec and of canAccess: a URL is given to the uploader, to members of
\* a room with a message or an avatar that is this file, and to all when it is the avatar of a
\* profile; a profile is shown to who shares a room.  Though the tables are read one after
\* the other, nobody is let in who was not entitled at some time since the call came.
OnlyEntitledSee ==
  [][\A r \in Requests :
       Answers(r, "ok") /\ op[r].kind \in {"get", "look"} => r \in ever]_vars

\* And nobody is turned away who was entitled for one reason all the time, once onboarded.
EntitledSee ==
  [][\A r \in Requests :
       Answers(r, "refused") /\ op[r].kind \in {"get", "look"} /\ r \in late
         => since[r] = {}]_vars

\* "Assert the caller owns a media object before it can be *referenced*": what a message or a
\* profile refers to was uploaded by its user, and a room's avatar by who gave it to the room.
OnlyOwnFiles ==
  [][/\ \A p \in posts' \ posts : uploader[p.file] = p.sender
     /\ \A u \in Users : avatar'[u] \notin {avatar[u], None} => uploader[avatar'[u]] = u
     /\ \A g \in Rooms : roomAvatar'[g] \notin {roomAvatar[g], None} =>
          \E r \in Requests : pc[r] = "write" /\ uploader[roomAvatar'[g]] = op[r].user]_vars

\* "Idempotency guard: 409 if already onboarded": a POST /profile that came when its user had a
\* profile does not succeed, so a profile is not written over by a late repetition of the call.
OnboardedOnce ==
  [][\A r \in late : ~(op[r].kind = "onboard" /\ Answers(r, "ok"))]_vars

\* The spec of PATCH /rooms/:id: "a SYSTEM message on a change".  After updates that came one
\* after the other, none of which died, the last name the members were told of is the room's.
NameIsTold ==
  overlaps = 0 /\ failures = 0 /\ InFlight = {} => named = name
=============================================================================
