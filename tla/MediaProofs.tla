----------------------------- MODULE MediaProofs ----------------------------
(***************************************************************************)
(* Theorems about Media, for any users, files, rooms and names, any number *)
(* of calls, and any limit on what goes on meanwhile.                      *)
(***************************************************************************)
EXTENDS Media, TLAPS

-----------------------------------------------------------------------------
(* What a call has established at each of its points.                      *)

\* Which endpoints come by where.
KindPoint(r) ==
  /\ pc[r] = "onboarded" => op[r].kind \notin {"onboard", "profile"}
  /\ pc[r] = "create" => op[r].kind = "upload"
  /\ pc[r] = "row" => op[r].kind \in {"complete", "get"}
  /\ pc[r] \in {"head", "ready"} => op[r].kind = "complete"
  /\ pc[r] \in {"message", "avatar", "room"} => op[r].kind = "get"
  /\ pc[r] \in {"share", "read"} => op[r].kind = "look"
  /\ pc[r] = "vet" => op[r].kind = "found"
  /\ pc[r] = "member" => op[r].kind \in {"send", "update"}
  /\ pc[r] = "existing" => op[r].kind \in {"onboard", "profile", "update"}
  /\ pc[r] \in {"owned", "write"} => op[r].kind \in {"send", "onboard", "profile", "found", "update"}
  /\ pc[r] = "view" => op[r].kind = "found"
  /\ pc[r] = "tell" => op[r].kind \in {"found", "update"}
  /\ pc[r] \in {"view", "tell"} => op[r].room # None

\* The file it may go on with is its caller's; the size it read was declared, or is one that the
\* object has had.
FilePoint(r) ==
  /\ pc[r] \in {"head", "ready"} => /\ uploader[op[r].file] = op[r].user
                                   /\ saw[r] \in Declared \cup had[op[r].file]
  /\ pc[r] = "ready" => stored[op[r].file] # None
  /\ pc[r] = "write" => MayRefer(op[r].user, op[r].file)
  /\ pc[r] = "tell" => saw[r] \in Names \cup {None}

CallOK(r) ==
  /\ Running(r) => op[r] \in Op
  /\ pc[r] # "done" => outcome[r] = "none"
  /\ KindPoint(r) /\ FilePoint(r)

\* The history of the objects has the present ones.
SizesKept == \A m \in Files : stored[m] # None => stored[m] \in had[m]

MediaInv == TypeOK /\ SizesKept /\ \A r \in Requests : CallOK(r)

\* The reasons a call has had all the time hold now, and do not include those it was refused for
\* already; the calls that had one at any time are known.
SincePoint(r) ==
  /\ Running(r) => since[r] \subseteq Reasons(r)
  /\ pc[r] \in {"message", "avatar", "room"} => "uploader" \notin since[r]
  /\ pc[r] \in {"avatar", "room"} => "message" \notin since[r]
  /\ pc[r] = "room" => "avatar" \notin since[r]
EverPoint(r) ==
  /\ Running(r) /\ Reasons(r) # {} => r \in ever
  /\ pc[r] = "read" => r \in ever

\* Who had a profile has one, and does not get past the check of POST /profile.
LatePoint(r) ==
  r \in late =>
    /\ Running(r) => op[r].user \in onboarded
    /\ op[r].kind = "onboard" => pc[r] \notin {"owned", "write"}

HistoryInv == \A r \in Requests : SincePoint(r) /\ EverPoint(r) /\ LatePoint(r)

\* While calls come one after the other and none dies: one at most is at work, an update has read
\* the name that the room still has, and the only name not told is the one it is about to tell,
\* or, for a new room, about to read and tell.
OneAtWork == \A r, q \in InFlight : r = q
NamePoint(r) ==
  op[r].kind = "update" /\ pc[r] \in {"owned", "write"} => saw[r] = name[op[r].room]
Telling(r) ==
  /\ pc[r] \in {"view", "tell"}
  /\ name = [named EXCEPT ![op[r].room] = IF pc[r] = "tell" THEN saw[r] ELSE name[op[r].room]]
NamesInv ==
  overlaps = 0 /\ failures = 0 =>
    /\ OneAtWork
    /\ \A r \in Requests : NamePoint(r) /\ (pc[r] \in {"view", "tell"} => Telling(r))
    /\ named = name \/ \E r \in Requests : Telling(r)

-----------------------------------------------------------------------------
(* The types, by table.                                                    *)

FileTypes ==
  /\ uploader \in [Files -> Users \cup {Nobody}] /\ ready \subseteq Files
  /\ byteSize \in [Files -> Sizes \cup Lengths] /\ stored \in [Files -> Lengths \cup {None}]
  /\ \A m \in Files : uploader[m] = Nobody => stored[m] = None /\ m \notin ready
  /\ had \in [Files -> SUBSET Lengths]
  /\ \A m \in ready : stored[m] # None
  /\ \A m \in Files : byteSize[m] \in Declared \/ (m \in ready /\ byteSize[m] \in had[m])
ReferenceTypes ==
  /\ posts \subseteq Post
  /\ avatar \in [Users -> Files \cup {None}] /\ roomAvatar \in [Rooms -> Files \cup {None}]
PeopleTypes ==
  /\ onboarded \subseteq Users
  /\ {name, named} \subseteq [Rooms -> Names \cup {None}]
  /\ members \in [Rooms -> SUBSET Users]
  /\ \A g \in Rooms : members[g] # {} => Exists(g)
Outcomes == {"none", "ok", "refused", "missing", "failed"}
CallTypes ==
  /\ pc \in [Requests -> Points] /\ op \in [Requests -> Op \cup {NoOp}]
  /\ saw \in [Requests -> Names \cup Sizes \cup Lengths \cup {None}]
  /\ outcome \in [Requests -> Outcomes]
BoundTypes ==
  overlaps \in 0..MaxOverlaps /\ changes \in 0..MaxChanges /\ failures \in 0..MaxFailures

LEMMA TypeParts ==
  TypeOK <=> FileTypes /\ ReferenceTypes /\ PeopleTypes /\ CallTypes /\ BoundTypes
  BY DEF TypeOK, FileTypes, ReferenceTypes, PeopleTypes, CallTypes, BoundTypes, Outcomes

LEMMA TypePartsNext ==
  TypeOK' <=> FileTypes' /\ ReferenceTypes' /\ PeopleTypes' /\ CallTypes' /\ BoundTypes'
  BY DEF TypeOK, FileTypes, ReferenceTypes, PeopleTypes, CallTypes, BoundTypes, Outcomes

LEMMA OpFacts ==
  ASSUME NEW o \in Op
  PROVE  /\ o.kind \in Kinds /\ o.user \in Users /\ o.other \in Users
         /\ o.file \in Files \cup {None, Keep} /\ o.room \in Rooms \cup {None}
         /\ o.kind \in {"complete", "get", "send"} => o.file \in Files
         /\ o.kind \notin {"profile", "update"} => o.file # Keep
         /\ o.kind \in {"send", "update"} \/ o.room # None => o.room \in Rooms
<1>1. /\ o \in [kind : Kinds, user : Users, file : Files \cup {None, Keep},
                room : Rooms \cup {None}, other : Users]
      /\ o.kind \in {"complete", "get", "send"} => o.file \in Files
      /\ o.file = Keep => o.kind \in {"profile", "update"}
      /\ o.kind \in {"send", "update"} => o.room # None
  BY DEF Op
<1>2. /\ o.kind \in Kinds /\ o.user \in Users /\ o.other \in Users
      /\ o.file \in Files \cup {None, Keep} /\ o.room \in Rooms \cup {None}
  BY <1>1
<1> QED
  BY <1>1, <1>2

\* A founder that has its room has the parameters of a call still.
LEMMA FoundedOp ==
  ASSUME NEW o \in Op, o.kind = "found", NEW g \in Rooms
  PROVE  [o EXCEPT !.room = g] \in Op
<1>1. /\ o \in [kind : Kinds, user : Users, file : Files \cup {None, Keep},
                room : Rooms \cup {None}, other : Users]
      /\ o.kind = "found" /\ o.other = o.user /\ o.file # Keep
  BY DEF Op
<1> DEFINE n == [o EXCEPT !.room = g]
<1>2. /\ n \in [kind : Kinds, user : Users, file : Files \cup {None, Keep},
                room : Rooms \cup {None}, other : Users]
      /\ n.kind = "found" /\ n.other = n.user /\ n.file # Keep
  BY <1>1
<1> QED
  BY <1>2 DEF Op

\* A call at work has the parameters of one; its user is not Nobody.
LEMMA CallFacts ==
  ASSUME MediaInv, NEW r \in Requests, Running(r)
  PROVE  /\ op[r] \in Op
         /\ op[r].kind \in Kinds /\ op[r].user \in Users /\ op[r].other \in Users
         /\ op[r].user # Nobody
         /\ op[r].file \in Files \cup {None, Keep} /\ op[r].room \in Rooms \cup {None}
         /\ op[r].kind \in {"complete", "get", "send"} => op[r].file \in Files
         /\ op[r].kind \notin {"profile", "update"} => op[r].file # Keep
         /\ op[r].kind \in {"send", "update"} \/ op[r].room # None => op[r].room \in Rooms
         /\ outcome[r] = "none"
<1>1. op[r] \in Op /\ outcome[r] = "none"
  BY DEF MediaInv, CallOK, Running
<1> QED
  BY <1>1, OpFacts, MediaAssumption

-----------------------------------------------------------------------------
(* What a step has to keep.                                                *)

\* The rows and objects of files stay, and their history grows.
FilesStay ==
  \A m \in Files : /\ uploader[m] # Nobody => uploader'[m] = uploader[m]
                   /\ stored[m] # None => stored'[m] # None
                   /\ had[m] \subseteq had'[m]

LEMMA OthersKeep ==
  ASSUME MediaInv, FilesStay, NEW q \in Requests,
         pc'[q] = pc[q], op'[q] = op[q], saw'[q] = saw[q], outcome'[q] = outcome[q]
  PROVE  CallOK(q)'
<1>1. CallOK(q)
  BY DEF MediaInv
<1>2. (Running(q) => op[q] \in Op)' /\ (pc[q] # "done" => outcome[q] = "none")' /\ KindPoint(q)'
  BY <1>1 DEF CallOK, Running, KindPoint
<1>3. CASE Running(q)
  <2>1. /\ op[q].user # Nobody
        /\ op[q].kind \in {"complete", "get", "send"} => op[q].file \in Files
    BY <1>3, CallFacts
  <2>2. pc[q] \in {"head", "ready"} => op[q].file \in Files
    BY <1>1, <2>1 DEF CallOK, KindPoint
  <2>3. FilePoint(q)'
    BY <1>1, <2>1, <2>2 DEF CallOK, FilePoint, FilesStay, MayRefer
  <2> QED
    BY <1>2, <2>3 DEF CallOK
<1>4. CASE ~Running(q)
  BY <1>2, <1>4 DEF Running, CallOK, FilePoint
<1> QED
  BY <1>3, <1>4

LEMMA StepKeeps ==
  ASSUME MediaInv, NEW r \in Requests, FilesStay, SizesKept', TypeOK', CallOK(r)',
         \A q \in Requests : q # r => /\ pc'[q] = pc[q] /\ op'[q] = op[q]
                                      /\ saw'[q] = saw[q] /\ outcome'[q] = outcome[q]
  PROVE  MediaInv'
<1>1. ASSUME NEW q \in Requests, q # r PROVE CallOK(q)'
  BY <1>1, OthersKeep
<1> QED
  BY <1>1 DEF MediaInv

LEMMA TablesSame ==
  ASSUME MediaInv, UNCHANGED <<files, bucket>>
  PROVE  FileTypes' /\ SizesKept' /\ FilesStay
<1>1. FileTypes /\ SizesKept
  BY TypeParts DEF MediaInv
<1> QED
  BY <1>1 DEF FileTypes, SizesKept, FilesStay, files, bucket

LEMMA ReferencesSame ==
  ASSUME MediaInv, UNCHANGED references
  PROVE  ReferenceTypes'
<1>1. ReferenceTypes
  BY TypeParts DEF MediaInv
<1> QED
  BY <1>1 DEF ReferenceTypes, references

LEMMA PeopleSame ==
  ASSUME MediaInv, UNCHANGED <<people, titles>>
  PROVE  PeopleTypes'
<1>1. PeopleTypes
  BY TypeParts DEF MediaInv
<1> QED
  BY <1>1 DEF PeopleTypes, people, titles, Exists

LEMMA BoundsSame ==
  ASSUME MediaInv, UNCHANGED <<overlaps, changes, failures>>
  PROVE  BoundTypes'
<1>1. BoundTypes
  BY TypeParts DEF MediaInv
<1> QED
  BY <1>1 DEF BoundTypes

\* A call that goes on, with what it has read.
LEMMA GoesKeeps ==
  ASSUME MediaInv, NEW r \in Requests, NEW p \in Points, Goes(r, p),
         NEW x \in Names \cup Sizes \cup Lengths \cup {None}, saw' = [saw EXCEPT ![r] = x] \/ UNCHANGED saw,
         CallOK(r)'
  PROVE  MediaInv'
<1>1. FileTypes' /\ SizesKept' /\ FilesStay
  BY TablesSame DEF Goes, Tables, Calm
<1>2. ReferenceTypes' /\ PeopleTypes' /\ BoundTypes'
  BY ReferencesSame, PeopleSame, BoundsSame DEF Goes, Tables, Calm
<1>3. CallTypes
  BY TypeParts DEF MediaInv
<1>4. CallTypes'
  BY <1>3 DEF Goes, CallTypes
<1>5. \A q \in Requests : q # r => /\ pc'[q] = pc[q] /\ op'[q] = op[q]
                                   /\ saw'[q] = saw[q] /\ outcome'[q] = outcome[q]
  BY <1>3 DEF Goes, CallTypes
<1> QED
  BY <1>1, <1>2, <1>4, <1>5, TypePartsNext, StepKeeps

\* A call that is over, whatever it has written.
LEMMA AnsweredKeeps ==
  ASSUME MediaInv, NEW r \in Requests, NEW o \in Outcomes, Answered(r, o),
         FileTypes', SizesKept', FilesStay, ReferenceTypes', PeopleTypes',
         failures' \in 0..MaxFailures
  PROVE  MediaInv'
<1>1. CallTypes /\ BoundTypes
  BY TypeParts DEF MediaInv
<1>2. CallTypes' /\ BoundTypes'
  BY <1>1 DEF Answered, Calm, CallTypes, BoundTypes, Points
<1>3. \A q \in Requests : q # r => /\ pc'[q] = pc[q] /\ op'[q] = op[q]
                                   /\ saw'[q] = saw[q] /\ outcome'[q] = outcome[q]
  BY <1>1 DEF Answered, CallTypes
<1>4. pc'[r] = "done"
  BY <1>1 DEF Answered, CallTypes
<1>5. CallOK(r)'
  BY <1>4 DEF CallOK, Running, KindPoint, FilePoint
<1> QED
  BY <1>2, <1>3, <1>5, TypePartsNext, StepKeeps

LEMMA EndsKeeps ==
  ASSUME MediaInv, NEW r \in Requests, NEW o \in Outcomes, Ends(r, o)
  PROVE  MediaInv'
<1>1. FileTypes' /\ SizesKept' /\ FilesStay /\ ReferenceTypes' /\ PeopleTypes' /\ BoundTypes'
  BY TablesSame, ReferencesSame, PeopleSame, BoundsSame DEF Ends, Answered, Tables, Calm
<1>2. failures' \in 0..MaxFailures
  BY <1>1 DEF BoundTypes
<1> QED
  BY <1>1, <1>2, AnsweredKeeps DEF Ends

-----------------------------------------------------------------------------
(* The inductive invariant, step by step.                                  *)

LEMMA InvInit == Init => MediaInv
<1> SUFFICES ASSUME Init PROVE MediaInv
  OBVIOUS
<1> USE MediaAssumption DEF Init
<1>1. FileTypes /\ SizesKept
  BY DEF FileTypes, SizesKept, Declared
<1>2. ReferenceTypes
  BY DEF ReferenceTypes
<1>3. PeopleTypes
  BY DEF PeopleTypes, Exists
<1>4. CallTypes /\ BoundTypes
  BY DEF CallTypes, BoundTypes, Points, Outcomes
<1>5. ASSUME NEW r \in Requests PROVE CallOK(r)
  BY DEF CallOK, Running, KindPoint, FilePoint
<1> QED
  BY <1>1, <1>2, <1>3, <1>4, <1>5, TypeParts DEF MediaInv

LEMMA GoesFacts ==
  ASSUME MediaInv, NEW r \in Requests, NEW p, Goes(r, p)
  PROVE  /\ pc' = [pc EXCEPT ![r] = p] /\ pc'[r] = p /\ op' = op /\ outcome' = outcome
         /\ UNCHANGED <<files, bucket, references, people, titles>>
  BY DEF Goes, Tables, Calm, MediaInv, TypeOK

\* What a call that goes on has established, but for where it goes.
LEMMA GoesOn ==
  ASSUME MediaInv, NEW r \in Requests, Running(r), NEW p, Goes(r, p),
         KindPoint(r)', FilePoint(r)'
  PROVE  CallOK(r)'
<1>1. op[r] \in Op /\ outcome[r] = "none"
  BY CallFacts
<1> QED
  BY <1>1, GoesFacts DEF CallOK

LEMMA EntryFacts ==
  ASSUME NEW kind, NEW p \in Entries(kind)
  PROVE  /\ p \in {"existing", "onboarded", "member"}
         /\ p = "existing" <=> kind \in {"onboard", "profile"}
         /\ p = "member" => kind = "send"
<1>1. CASE kind \in {"onboard", "profile"}
  BY <1>1 DEF Entries
<1>2. CASE kind = "send"
  BY <1>2 DEF Entries
<1>3. CASE kind \notin {"onboard", "profile", "send"}
  BY <1>3 DEF Entries
<1> QED
  BY <1>1, <1>2, <1>3

LEMMA InvArrive ==
  ASSUME MediaInv, NEW r \in Requests, Arrive(r)
  PROVE  MediaInv'
<1> USE DEF Arrive
<1>1. FileTypes' /\ SizesKept' /\ FilesStay /\ ReferenceTypes' /\ PeopleTypes'
  BY TablesSame, ReferencesSame, PeopleSame DEF Tables
<1>2. CallTypes /\ BoundTypes
  BY TypeParts DEF MediaInv
<1>3. BoundTypes'
  BY <1>2, MediaAssumption DEF BoundTypes
<1>4. PICK o \in Op, p \in {"existing", "onboarded", "member"} :
        /\ op' = [op EXCEPT ![r] = o] /\ pc' = [pc EXCEPT ![r] = p]
        /\ p = "existing" <=> o.kind \in {"onboard", "profile"}
        /\ p = "member" => o.kind = "send"
  <2>1. PICK o \in Op : /\ op' = [op EXCEPT ![r] = o]
                        /\ \E p \in Entries(o.kind) : pc' = [pc EXCEPT ![r] = p]
    OBVIOUS
  <2>2. PICK p \in Entries(o.kind) : pc' = [pc EXCEPT ![r] = p]
    BY <2>1
  <2> QED
    BY <2>1, <2>2, EntryFacts
<1>5. CallTypes'
  BY <1>2, <1>4 DEF CallTypes, Points
<1>6. pc'[r] = p /\ op'[r] = o
  BY <1>2, <1>4 DEF CallTypes
<1>7. outcome'[r] = "none"
  BY DEF MediaInv, CallOK
<1>8. CallOK(r)'
  BY <1>4, <1>6, <1>7 DEF CallOK, KindPoint, FilePoint
<1>9. \A q \in Requests : q # r => /\ pc'[q] = pc[q] /\ op'[q] = op[q]
                                   /\ saw'[q] = saw[q] /\ outcome'[q] = outcome[q]
  BY <1>2, <1>4 DEF CallTypes
<1> QED
  BY <1>1, <1>3, <1>5, <1>8, <1>9, TypePartsNext, StepKeeps

LEMMA WhereFirst ==
  ASSUME NEW k \in Kinds \ {"onboard", "profile"}
  PROVE  /\ First(k) \in {"create", "row", "share", "member", "vet"}
         /\ First(k) = "create" => k = "upload"
         /\ First(k) = "row" => k \in {"complete", "get"}
         /\ First(k) = "share" => k = "look"
         /\ First(k) = "member" => k \in {"send", "update"}
         /\ First(k) = "vet" => k = "found"
  BY DEF First, Kinds

LEMMA InvGuard ==
  ASSUME MediaInv, NEW r \in Requests, Guard(r)
  PROVE  MediaInv'
<1>1. Running(r) /\ op[r].kind \in Kinds \ {"onboard", "profile"}
  BY CallFacts DEF Guard, Running, MediaInv, CallOK, KindPoint
<1>2. CASE Goes(r, First(op[r].kind)) /\ UNCHANGED saw
  <2>1. CallOK(r)'
    BY <1>1, <1>2, WhereFirst, GoesFacts, GoesOn DEF KindPoint, FilePoint
  <2>2. First(op[r].kind) \in Points
    BY <1>1, WhereFirst DEF Points
  <2> QED
    BY <1>2, <2>1, <2>2, GoesKeeps
<1>3. CASE Ends(r, "refused")
  BY <1>3, EndsKeeps DEF Outcomes
<1> QED
  BY <1>2, <1>3 DEF Guard

LEMMA InvCreateUploadUrl ==
  ASSUME MediaInv, NEW r \in Requests, CreateUploadUrl(r)
  PROVE  MediaInv'
<1>1. Running(r) /\ op[r].user \in Users /\ op[r].user # Nobody
  BY CallFacts DEF CreateUploadUrl, Running
<1>2. ASSUME NEW size \in Declared, NEW m \in Files, uploader[m] = Nobody,
             uploader' = [uploader EXCEPT ![m] = op[r].user],
             byteSize' = [byteSize EXCEPT ![m] = size],
             Answered(r, "ok"), UNCHANGED <<ready, references, people, titles, failures>>
      PROVE  MediaInv'
  <2>1. FileTypes /\ SizesKept /\ BoundTypes
    BY TypeParts DEF MediaInv
  <2>2. stored' = stored /\ had' = had /\ ready' = ready
    BY <1>2 DEF Answered, Calm, bucket
  <2>3. m \notin ready
    BY <1>2, <2>1 DEF FileTypes
  <2>4. FileTypes'
    <3>1. size \in Sizes
      BY DEF Declared
    <3> QED
      BY <1>1, <1>2, <2>1, <2>2, <2>3, <3>1 DEF FileTypes
  <2>5. SizesKept' /\ FilesStay
    BY <1>2, <2>1, <2>2 DEF SizesKept, FilesStay, FileTypes
  <2>6. ReferenceTypes' /\ PeopleTypes' /\ failures' \in 0..MaxFailures
    BY <1>2, <2>1, ReferencesSame, PeopleSame DEF BoundTypes
  <2> QED
    BY <1>2, <2>4, <2>5, <2>6, AnsweredKeeps DEF Outcomes
<1>3. CASE Ends(r, "refused")
  BY <1>3, EndsKeeps DEF Outcomes
<1> QED
  BY <1>2, <1>3 DEF CreateUploadUrl, Declared

LEMMA InvPut ==
  ASSUME MediaInv, NEW m \in Files, Put(m)
  PROVE  MediaInv'
<1>1. FileTypes /\ SizesKept /\ BoundTypes /\ CallTypes
  BY TypeParts DEF MediaInv
<1>2. PICK length \in Lengths : /\ stored' = [stored EXCEPT ![m] = length]
                                /\ had' = [had EXCEPT ![m] = had[m] \cup {length}]
  BY DEF Put
<1>3. length # None
  BY MediaAssumption
<1>4. FileTypes'
  <2>1. \A j \in Files : uploader'[j] = Nobody => stored'[j] = None /\ j \notin ready'
    BY <1>1, <1>2 DEF Put, Tables, files, FileTypes
  <2>2. \A j \in ready' : stored'[j] # None
    BY <1>1, <1>2, <1>3 DEF Put, Tables, files, FileTypes
  <2>3. \A j \in Files : byteSize'[j] \in Declared \/ (j \in ready' /\ byteSize'[j] \in had'[j])
    BY <1>1, <1>2 DEF Put, Tables, files, FileTypes
  <2> QED
    BY <1>1, <1>2, <2>1, <2>2, <2>3 DEF Put, Tables, files, FileTypes
<1>5. SizesKept' /\ FilesStay
  BY <1>1, <1>2, <1>3 DEF Put, Tables, files, FileTypes, SizesKept, FilesStay
<1>6. ReferenceTypes' /\ PeopleTypes'
  BY ReferencesSame, PeopleSame DEF Put, Tables
<1>7. CallTypes' /\ BoundTypes'
  BY <1>1, MediaAssumption DEF Put, CallTypes, BoundTypes
<1>8. ASSUME NEW q \in Requests PROVE CallOK(q)'
  BY <1>5, OthersKeep DEF Put
<1> QED
  BY <1>4, <1>5, <1>6, <1>7, <1>8, TypePartsNext DEF MediaInv

\* The steps that only read, and go on or end.
LEMMA InvReads ==
  ASSUME MediaInv, NEW r \in Requests,
         ReadRow(r) \/ CanAccess(r) \/ Share(r) \/ ReadProfile(r) \/ Vet(r) \/ AssertMember(r)
  PROVE  MediaInv'
<1>0. Running(r) /\ KindPoint(r) /\ op[r].kind \in Kinds /\ op[r].user # Nobody
  BY CallFacts DEF ReadRow, CanAccess, Asks, Share, ReadProfile, Vet, AssertMember, Running,
     MediaInv, CallOK
<1>1. ASSUME NEW o \in Outcomes, Ends(r, o) PROVE MediaInv'
  BY <1>1, EndsKeeps
<1>2. ASSUME NEW p \in Points, Goes(r, p), UNCHANGED saw, KindPoint(r)', FilePoint(r)'
      PROVE  MediaInv'
  <2>1. CallOK(r)'
    BY <1>0, <1>2, GoesOn
  <2> QED
    BY <1>2, <2>1, GoesKeeps
<1>3. CASE ReadRow(r)
  <2> DEFINE m == op[r].file
  <2>1. \/ \E o \in Outcomes : Ends(r, o)
        \/ /\ op[r].kind = "complete" /\ uploader[m] = op[r].user
           /\ Goes(r, "head") /\ saw' = [saw EXCEPT ![r] = byteSize[m]]
        \/ op[r].kind = "get" /\ Goes(r, "message") /\ UNCHANGED saw
    <3>1. op[r].kind \in {"complete", "get"}
      BY <1>0, <1>3 DEF ReadRow, KindPoint
    <3>2. CASE uploader[m] = Nobody
      BY <1>0, <1>3, <3>2 DEF ReadRow, Outcomes
    <3>3. CASE uploader[m] = op[r].user
      BY <1>0, <1>3, <3>1, <3>3 DEF ReadRow, Outcomes
    <3>4. CASE uploader[m] \notin {Nobody, op[r].user}
      BY <1>0, <1>3, <3>1, <3>4 DEF ReadRow, Outcomes
    <3> QED
      BY <3>2, <3>3, <3>4
  <2>2. CASE /\ op[r].kind = "complete" /\ uploader[m] = op[r].user
             /\ Goes(r, "head") /\ saw' = [saw EXCEPT ![r] = byteSize[m]]
    <3>1. m \in Files
      BY <1>0, <2>2, CallFacts
    <3>2. byteSize[m] \in Sizes \cup Lengths /\ byteSize[m] \in Declared \cup had[m]
      BY <3>1 DEF MediaInv, TypeOK
    <3>3. saw'[r] = byteSize[m]
      BY <2>2 DEF MediaInv, TypeOK
    <3>4. KindPoint(r)' /\ FilePoint(r)'
      BY <2>2, <3>2, <3>3, GoesFacts DEF KindPoint, FilePoint, files, bucket
    <3>5. CallOK(r)'
      BY <1>0, <2>2, <3>4, GoesOn
    <3> QED
      BY <2>2, <3>2, <3>5, GoesKeeps DEF Points
  <2>3. CASE op[r].kind = "get" /\ Goes(r, "message") /\ UNCHANGED saw
    <3>1. KindPoint(r)' /\ FilePoint(r)'
      BY <2>3, GoesFacts DEF KindPoint, FilePoint
    <3> QED
      BY <1>2, <2>3, <3>1 DEF Points
  <2> QED
    BY <1>1, <2>1, <2>2, <2>3
<1>4. CASE CanAccess(r)
  <2>1. \/ \E o \in Outcomes : Ends(r, o)
        \/ \E p \in {"avatar", "room"} : Goes(r, p) /\ UNCHANGED saw
    BY <1>4 DEF CanAccess, Asks, Outcomes
  <2>2. op[r].kind = "get"
    BY <1>0, <1>4 DEF CanAccess, Asks, KindPoint
  <2>3. ASSUME NEW p \in {"avatar", "room"}, Goes(r, p) /\ UNCHANGED saw PROVE MediaInv'
    <3>1. KindPoint(r)' /\ FilePoint(r)'
      BY <2>2, <2>3, GoesFacts DEF KindPoint, FilePoint
    <3> QED
      BY <1>2, <2>3, <3>1 DEF Points
  <2> QED
    BY <1>1, <2>1, <2>3
<1>5. CASE Share(r)
  <2>1. CASE Goes(r, "read") /\ UNCHANGED saw
    <3>1. KindPoint(r)' /\ FilePoint(r)'
      BY <1>0, <1>5, <2>1, GoesFacts DEF Share, KindPoint, FilePoint
    <3> QED
      BY <1>2, <2>1, <3>1 DEF Points
  <2> QED
    BY <1>1, <1>5, <2>1 DEF Share, Outcomes
<1>6. CASE ReadProfile(r)
  BY <1>1, <1>6 DEF ReadProfile, Outcomes
<1>7. CASE Vet(r)
  <2>1. CASE Goes(r, "owned") /\ UNCHANGED saw
    <3>1. KindPoint(r)' /\ FilePoint(r)'
      BY <1>0, <1>7, <2>1, GoesFacts DEF Vet, KindPoint, FilePoint
    <3> QED
      BY <1>2, <2>1, <3>1 DEF Points
  <2> QED
    BY <1>1, <1>7, <2>1 DEF Vet, Outcomes
<1>8. CASE AssertMember(r)
  <2>1. op[r].kind \in {"send", "update"}
    BY <1>0, <1>8 DEF AssertMember, KindPoint
  <2>2. CASE \E p : Goes(r, p) /\ UNCHANGED saw /\ p = IF op[r].kind = "send" THEN "owned" ELSE "existing"
    <3>1. PICK p \in {"owned", "existing"} :
            Goes(r, p) /\ UNCHANGED saw /\ (p = "existing" => op[r].kind = "update")
      BY <2>1, <2>2
    <3>2. KindPoint(r)' /\ FilePoint(r)'
      BY <2>1, <3>1, GoesFacts DEF KindPoint, FilePoint
    <3> QED
      BY <1>2, <3>1, <3>2 DEF Points
  <2> QED
    BY <1>1, <1>8, <2>2 DEF AssertMember, Outcomes
<1> QED
  BY <1>3, <1>4, <1>5, <1>6, <1>7, <1>8

LEMMA InvHead ==
  ASSUME MediaInv, NEW r \in Requests, Head(r)
  PROVE  MediaInv'
<1> DEFINE m == op[r].file
<1>1. /\ Running(r) /\ op[r].kind = "complete" /\ m \in Files /\ uploader[m] = op[r].user
  BY CallFacts DEF Head, Running, MediaInv, CallOK, KindPoint, FilePoint
<1>2. CASE Ends(r, "refused")
  BY <1>2, EndsKeeps DEF Outcomes
<1>3. ASSUME ~Missing(m), NEW size \in Length(r), saw' = [saw EXCEPT ![r] = size],
             Goes(r, "ready")
      PROVE  MediaInv'
  <2>1. stored[m] # None /\ stored[m] \in had[m] /\ stored[m] \in Lengths
    BY <1>1, <1>3 DEF Missing, MediaInv, SizesKept, TypeOK
  <2>2. saw[r] \in Declared \cup had[m] /\ had[m] \subseteq Lengths
    BY <1>1 DEF Head, MediaInv, CallOK, FilePoint, TypeOK
  <2>3. size \in Declared \cup had[m] /\ size \in Sizes \cup Lengths
    BY <1>3, <2>1, <2>2 DEF Length, Declared
  <2>4. saw'[r] = size
    BY <1>3 DEF MediaInv, TypeOK
  <2>5. KindPoint(r)' /\ FilePoint(r)'
    BY <1>1, <1>3, <2>1, <2>3, <2>4, GoesFacts DEF KindPoint, FilePoint, files, bucket
  <2>6. CallOK(r)'
    BY <1>1, <1>3, <2>5, GoesOn
  <2> QED
    BY <1>3, <2>3, <2>6, GoesKeeps DEF Points
<1> QED
  BY <1>2, <1>3 DEF Head

LEMMA InvMarkReady ==
  ASSUME MediaInv, NEW r \in Requests, MarkReady(r)
  PROVE  MediaInv'
<1> DEFINE m == op[r].file
<1>1. /\ m \in Files /\ uploader[m] # Nobody /\ stored[m] # None
      /\ saw[r] \in Declared \cup had[m]
  BY CallFacts DEF MarkReady, Running, MediaInv, CallOK, KindPoint, FilePoint
<1>2. FileTypes /\ SizesKept /\ BoundTypes
  BY TypeParts DEF MediaInv
<1>3. /\ ready' = ready \cup {m} /\ byteSize' = [byteSize EXCEPT ![m] = saw[r]]
      /\ uploader' = uploader /\ stored' = stored /\ had' = had
  BY DEF MarkReady, Answered, Calm, bucket
<1>4. FileTypes'
  <2>1. saw[r] \in Sizes \cup Lengths
    BY <1>1, <1>2 DEF FileTypes, Declared
  <2> QED
    BY <1>1, <1>2, <1>3, <2>1 DEF FileTypes
<1>5. SizesKept' /\ FilesStay
  BY <1>2, <1>3 DEF SizesKept, FilesStay
<1>6. ReferenceTypes' /\ PeopleTypes' /\ failures' \in 0..MaxFailures
  BY <1>2, ReferencesSame, PeopleSame DEF MarkReady, BoundTypes
<1> QED
  BY <1>4, <1>5, <1>6, AnsweredKeeps DEF MarkReady, Outcomes

LEMMA InvReadExisting ==
  ASSUME MediaInv, NEW r \in Requests, ReadExisting(r)
  PROVE  MediaInv'
<1>1. /\ Running(r) /\ op[r].kind \in {"onboard", "profile", "update"}
      /\ op[r].kind = "update" => op[r].room \in Rooms
  BY CallFacts DEF ReadExisting, RequireGroup, Running, MediaInv, CallOK, KindPoint
<1>2. CASE \E o \in Outcomes : Ends(r, o)
  BY <1>2, EndsKeeps
<1>3. ASSUME Goes(r, "owned"),
             NEW x \in Names \cup Sizes \cup Lengths \cup {None}, saw' = [saw EXCEPT ![r] = x] \/ UNCHANGED saw
      PROVE  MediaInv'
  <2>1. KindPoint(r)' /\ FilePoint(r)'
    BY <1>1, <1>3, GoesFacts DEF KindPoint, FilePoint
  <2>2. CallOK(r)'
    BY <1>1, <1>3, <2>1, GoesOn
  <2> QED
    BY <1>3, <2>2, GoesKeeps DEF Points
<1>4. CASE op[r].kind \in {"onboard", "profile"}
  BY <1>2, <1>3, <1>4 DEF ReadExisting, RequireGroup, Outcomes
<1>5. CASE op[r].kind = "update"
  <2>1. name[op[r].room] \in Names \cup {None}
    BY <1>1, <1>5 DEF MediaInv, TypeOK
  <2>2. \/ Goes(r, "owned") /\ saw' = [saw EXCEPT ![r] = name[op[r].room]]
        \/ Ends(r, "refused")
    BY <1>5 DEF ReadExisting, RequireGroup
  <2> QED
    BY <1>2, <1>3, <2>1, <2>2 DEF Outcomes
<1> QED
  BY <1>1, <1>4, <1>5

LEMMA InvAssertOwned ==
  ASSUME MediaInv, NEW r \in Requests, AssertOwned(r)
  PROVE  MediaInv'
<1>1. Running(r) /\ KindPoint(r)
  BY DEF AssertOwned, Running, MediaInv, CallOK
<1>2. CASE MayRefer(op[r].user, op[r].file) /\ Goes(r, "write") /\ UNCHANGED saw
  <2>1. KindPoint(r)' /\ FilePoint(r)'
    BY <1>1, <1>2, GoesFacts DEF AssertOwned, KindPoint, FilePoint, MayRefer, files
  <2>2. CallOK(r)'
    BY <1>1, <1>2, <2>1, GoesOn
  <2> QED
    BY <1>2, <2>2, GoesKeeps DEF Points
<1>3. CASE Ends(r, "refused")
  BY <1>3, EndsKeeps DEF Outcomes
<1> QED
  BY <1>2, <1>3 DEF AssertOwned

\* The files are none of the business of the writes that refer to them.
LEMMA WriteEnds ==
  ASSUME MediaInv, NEW r \in Requests, Answered(r, "ok"), UNCHANGED files, UNCHANGED failures,
         ReferenceTypes', PeopleTypes'
  PROVE  MediaInv'
<1>1. FileTypes' /\ SizesKept' /\ FilesStay
  BY TablesSame DEF Answered, Calm
<1>2. failures' \in 0..MaxFailures
  BY DEF MediaInv, TypeOK
<1> QED
  BY <1>1, <1>2, AnsweredKeeps DEF Outcomes

LEMMA InvStoreMessage ==
  ASSUME MediaInv, NEW r \in Requests, Running(r), op[r].kind = "send", StoreMessage(r),
         UNCHANGED failures
  PROVE  MediaInv'
<1>1. [file |-> op[r].file, room |-> op[r].room, sender |-> op[r].user] \in Post
  BY CallFacts DEF Post
<1>2. ReferenceTypes
  BY TypeParts DEF MediaInv
<1>3. ReferenceTypes' /\ PeopleTypes'
  BY <1>1, <1>2, PeopleSame DEF StoreMessage, ReferenceTypes
<1> QED
  BY <1>3, WriteEnds DEF StoreMessage

LEMMA InvStoreProfile ==
  ASSUME MediaInv, NEW r \in Requests, Running(r), StoreProfile(r), UNCHANGED failures
  PROVE  MediaInv'
<1>1. op[r].user \in Users /\ op[r].file \in Files \cup {None, Keep}
  BY CallFacts
<1>2. ReferenceTypes /\ PeopleTypes
  BY TypeParts DEF MediaInv
<1>3. ReferenceTypes'
  BY <1>1, <1>2 DEF StoreProfile, ReferenceTypes
<1>4. PeopleTypes'
  BY <1>1, <1>2 DEF StoreProfile, PeopleTypes, titles, Exists
<1> QED
  BY <1>3, <1>4, WriteEnds DEF StoreProfile

LEMMA InvCreateGroup ==
  ASSUME MediaInv, NEW r \in Requests, Running(r), op[r].kind = "found", CreateGroup(r),
         UNCHANGED failures
  PROVE  MediaInv'
<1>1. op[r].user \in Users /\ op[r].file \in Files \cup {None}
  BY CallFacts
<1>2. ReferenceTypes /\ PeopleTypes
  BY TypeParts DEF MediaInv
<1>3. PICK g \in Rooms, title \in Names, others \in SUBSET Users :
        /\ name' = [name EXCEPT ![g] = title]
        /\ members' = [members EXCEPT ![g] = others \cup {op[r].user}]
        /\ roomAvatar' = [roomAvatar EXCEPT ![g] = op[r].file]
        /\ op' = [op EXCEPT ![r].room = g]
  BY DEF CreateGroup
<1>4. ReferenceTypes'
  BY <1>1, <1>2, <1>3 DEF CreateGroup, ReferenceTypes
<1>5. PeopleTypes'
  <2>1. title # None
    BY MediaAssumption
  <2>2. \A h \in Rooms : members'[h] # {} => Exists(h)'
    BY <1>2, <1>3, <2>1 DEF PeopleTypes, Exists
  <2> QED
    BY <1>1, <1>2, <1>3, <2>2 DEF CreateGroup, PeopleTypes
<1>6. CallTypes
  BY TypeParts DEF MediaInv
<1>7. [op[r] EXCEPT !.room = g] \in Op
  BY CallFacts, FoundedOp
<1>8. /\ op' = [op EXCEPT ![r] = [op[r] EXCEPT !.room = g]]
      /\ op'[r] = [op[r] EXCEPT !.room = g] /\ pc'[r] = "view"
  BY <1>3, <1>6 DEF CreateGroup, CallTypes
<1>9. CallTypes'
  BY <1>6, <1>7, <1>8 DEF CreateGroup, CallTypes, Points
<1>10. CallOK(r)'
  <2>1. op'[r].kind = "found" /\ op'[r].room # None
    BY <1>7, <1>8, MediaAssumption DEF Op
  <2>2. outcome'[r] = "none"
    BY CallFacts DEF CreateGroup
  <2> QED
    BY <1>7, <1>8, <2>1, <2>2 DEF CallOK, KindPoint, FilePoint
<1>11. FileTypes' /\ SizesKept' /\ FilesStay /\ BoundTypes'
  BY TablesSame, BoundsSame DEF CreateGroup, Calm
<1>12. \A q \in Requests : q # r => /\ pc'[q] = pc[q] /\ op'[q] = op[q]
                                    /\ saw'[q] = saw[q] /\ outcome'[q] = outcome[q]
  BY <1>6, <1>8 DEF CreateGroup, CallTypes
<1> QED
  BY <1>4, <1>5, <1>9, <1>10, <1>11, <1>12, TypePartsNext, StepKeeps

LEMMA InvUpdateRoom ==
  ASSUME MediaInv, NEW r \in Requests, Running(r), op[r].kind = "update", UpdateRoom(r),
         UNCHANGED failures
  PROVE  MediaInv'
<1> DEFINE g == op[r].room
<1>1. g \in Rooms /\ g # None /\ op[r].file \in Files \cup {None, Keep}
  BY CallFacts, MediaAssumption
<1>2. ReferenceTypes /\ PeopleTypes /\ CallTypes
  BY TypeParts DEF MediaInv
<1>3. PICK title \in Names \cup {Keep} :
        /\ name' = IF title = Keep THEN name ELSE [name EXCEPT ![g] = title]
        /\ roomAvatar' = IF op[r].file = Keep THEN roomAvatar
                         ELSE [roomAvatar EXCEPT ![g] = op[r].file]
        /\ IF title # Keep /\ Renamed(r, title)
             THEN /\ pc' = [pc EXCEPT ![r] = "tell"]
                  /\ saw' = [saw EXCEPT ![r] = title]
                  /\ UNCHANGED <<op, outcome>> /\ Calm
             ELSE Answered(r, "ok")
        /\ UNCHANGED <<files, posts, avatar, people, named>>
  BY DEF UpdateRoom
<1>4. ReferenceTypes'
  BY <1>1, <1>2, <1>3 DEF ReferenceTypes
<1>5. PeopleTypes'
  <2>1. title # Keep => title \in Names /\ title # None
    BY MediaAssumption
  <2>2. \A h \in Rooms : members'[h] # {} => Exists(h)'
    BY <1>1, <1>2, <1>3, <2>1 DEF PeopleTypes, Exists, people
  <2> QED
    BY <1>1, <1>2, <1>3, <2>1, <2>2 DEF PeopleTypes, people
<1>6. CASE Answered(r, "ok")
  BY <1>3, <1>4, <1>5, <1>6, WriteEnds
<1>7. CASE /\ title # Keep
           /\ pc' = [pc EXCEPT ![r] = "tell"]
           /\ saw' = [saw EXCEPT ![r] = title]
           /\ UNCHANGED <<op, outcome>> /\ Calm
  <2>1. FileTypes' /\ SizesKept' /\ FilesStay
    BY <1>3, <1>7, TablesSame DEF Calm
  <2>2. BoundTypes'
    BY <1>7, BoundsSame DEF Calm
  <2>3. title \in Names /\ pc'[r] = "tell" /\ saw'[r] = title
    BY <1>2, <1>7 DEF CallTypes
  <2>4. CallTypes'
    BY <1>2, <1>7, <2>3 DEF CallTypes, Points
  <2>5. CallOK(r)'
    <3>1. op[r] \in Op /\ outcome[r] = "none"
      BY CallFacts
    <3> QED
      BY <1>1, <1>7, <2>3, <3>1 DEF CallOK, KindPoint, FilePoint
  <2>6. \A q \in Requests : q # r => /\ pc'[q] = pc[q] /\ op'[q] = op[q]
                                     /\ saw'[q] = saw[q] /\ outcome'[q] = outcome[q]
    BY <1>2, <1>7 DEF CallTypes
  <2> QED
    BY <1>4, <1>5, <2>1, <2>2, <2>4, <2>5, <2>6, TypePartsNext, StepKeeps
<1> QED
  BY <1>3, <1>6, <1>7

LEMMA InvWrite ==
  ASSUME MediaInv, NEW r \in Requests, Write(r)
  PROVE  MediaInv'
<1>1. Running(r) /\ op[r].kind \in {"send", "onboard", "profile", "found", "update"}
  BY DEF Write, Running, MediaInv, CallOK, KindPoint
<1>2. CASE op[r].kind = "send"
  BY <1>1, <1>2, InvStoreMessage DEF Write
<1>3. CASE op[r].kind \in {"onboard", "profile"}
  BY <1>1, <1>3, InvStoreProfile DEF Write
<1>4. CASE op[r].kind = "found"
  BY <1>1, <1>4, InvCreateGroup DEF Write
<1>5. CASE op[r].kind = "update"
  BY <1>1, <1>5, InvUpdateRoom DEF Write
<1> QED
  BY <1>1, <1>2, <1>3, <1>4, <1>5

LEMMA InvReadView ==
  ASSUME MediaInv, NEW r \in Requests, ReadView(r)
  PROVE  MediaInv'
<1>1. Running(r) /\ op[r].kind = "found" /\ op[r].room \in Rooms
  BY CallFacts DEF ReadView, Running, MediaInv, CallOK, KindPoint
<1>2. name[op[r].room] \in Names \cup {None}
  BY <1>1 DEF MediaInv, TypeOK
<1>3. saw'[r] = name[op[r].room] /\ op[r].room # None
  BY DEF ReadView, MediaInv, TypeOK, CallOK, KindPoint
<1>4. KindPoint(r)' /\ FilePoint(r)'
  BY <1>1, <1>2, <1>3, GoesFacts DEF ReadView, KindPoint, FilePoint
<1>5. CallOK(r)'
  BY <1>1, <1>4, GoesOn DEF ReadView
<1> QED
  BY <1>2, <1>5, GoesKeeps DEF ReadView, Points

LEMMA InvTellName ==
  ASSUME MediaInv, NEW r \in Requests, TellName(r)
  PROVE  MediaInv'
<1>1. op[r].room \in Rooms /\ saw[r] \in Names \cup {None}
  BY CallFacts DEF TellName, Running, MediaInv, CallOK, KindPoint, FilePoint
<1>2. PeopleTypes
  BY TypeParts DEF MediaInv
<1>3. PeopleTypes' /\ ReferenceTypes'
  BY <1>1, <1>2, ReferencesSame DEF TellName, PeopleTypes, people, Exists
<1> QED
  BY <1>3, WriteEnds DEF TellName

\* What members do meanwhile.
LEMMA InvMembers ==
  ASSUME MediaInv,
         \/ \E g \in Rooms, u \in Users : Enter(g, u) \/ Leave(g, u)
         \/ \E p \in posts : Unsend(p)
  PROVE  MediaInv'
<1>1. Does
  BY DEF Enter, Leave, Unsend
<1>2. FileTypes' /\ SizesKept' /\ FilesStay
  BY <1>1, TablesSame DEF Does
<1>3. CallTypes /\ BoundTypes /\ ReferenceTypes /\ PeopleTypes
  BY TypeParts DEF MediaInv
<1>4. CallTypes' /\ BoundTypes'
  BY <1>1, <1>3, MediaAssumption DEF Does, CallTypes, BoundTypes
<1>5. ReferenceTypes'
  BY <1>1, <1>3 DEF Does, Enter, Leave, Unsend, ReferenceTypes
<1>6. name' = name /\ named' = named /\ onboarded' = onboarded
  BY <1>1 DEF Does, titles
<1>7. PeopleTypes'
  <2>1. ASSUME NEW g \in Rooms, NEW u \in Users, Enter(g, u) \/ Leave(g, u)
        PROVE  PeopleTypes'
    <3>1. PICK S \in SUBSET Users : members' = [members EXCEPT ![g] = S]
      BY <1>3, <2>1 DEF Enter, Leave, PeopleTypes
    <3>2. Exists(g)
      BY <1>3, <2>1 DEF Enter, Leave, PeopleTypes
    <3> QED
      BY <1>3, <1>6, <3>1, <3>2 DEF PeopleTypes, Exists
  <2>2. CASE UNCHANGED members
    BY <1>3, <1>6, <2>2 DEF PeopleTypes, Exists
  <2> QED
    BY <2>1, <2>2 DEF Unsend
<1>8. ASSUME NEW q \in Requests PROVE CallOK(q)'
  BY <1>1, <1>2, OthersKeep DEF Does
<1> QED
  BY <1>2, <1>4, <1>5, <1>7, <1>8, TypePartsNext DEF MediaInv

LEMMA InvFail ==
  ASSUME MediaInv, NEW r \in Requests, Fail(r)
  PROVE  MediaInv'
<1>1. FileTypes' /\ SizesKept' /\ FilesStay /\ ReferenceTypes' /\ PeopleTypes'
  BY TablesSame, ReferencesSame, PeopleSame DEF Fail, Answered, Tables, Calm
<1>2. failures' \in 0..MaxFailures
  BY MediaAssumption DEF Fail, MediaInv, TypeOK
<1> QED
  BY <1>1, <1>2, AnsweredKeeps DEF Fail, Outcomes

LEMMA InvStutter == MediaInv /\ UNCHANGED vars => MediaInv'
<1> SUFFICES ASSUME MediaInv, UNCHANGED vars PROVE MediaInv'
  OBVIOUS
<1> USE DEF vars, history
<1>1. FileTypes' /\ SizesKept' /\ FilesStay /\ ReferenceTypes' /\ PeopleTypes' /\ BoundTypes'
  BY TablesSame, ReferencesSame, PeopleSame, BoundsSame
<1>2. CallTypes
  BY TypeParts DEF MediaInv
<1>3. CallTypes'
  BY <1>2 DEF CallTypes
<1>4. ASSUME NEW q \in Requests PROVE CallOK(q)'
  BY <1>1, OthersKeep
<1> QED
  BY <1>1, <1>3, <1>4, TypePartsNext DEF MediaInv

LEMMA InvNext == MediaInv /\ [Next]_vars => MediaInv'
<1> SUFFICES ASSUME MediaInv, [Next]_vars PROVE MediaInv'
  OBVIOUS
<1>1. ASSUME NEW r \in Requests, Step(r) PROVE MediaInv'
  BY <1>1, InvGuard, InvCreateUploadUrl, InvReads, InvHead, InvMarkReady, InvReadExisting,
     InvAssertOwned, InvWrite, InvReadView, InvTellName DEF Step
<1>2. CASE UserSteps
  BY <1>2, InvPut, InvMembers DEF UserSteps
<1>3. CASE UNCHANGED vars
  BY <1>3, InvStutter
<1> QED
  BY <1>1, <1>2, <1>3, InvArrive, InvFail DEF Next, Wait

LEMMA InvAlways == Spec => []MediaInv
  BY InvInit, InvNext, PTL DEF Spec

\* Every step keeps the types and what ties the tables to each other: a READY file has its
\* object, though it may be empty, and a row has a size that was declared and accepted or, once it
\* is READY, one that the object has had, whatever the client puts meanwhile and whether or not
\* the bucket tells the length of the object.
THEOREM TypeCorrect == Spec => []TypeOK
<1>1. MediaInv => TypeOK
  BY DEF MediaInv
<1> QED
  BY <1>1, InvAlways, PTL

-----------------------------------------------------------------------------
(* Whose step it is.                                                       *)

LEMMA StepRuns == ASSUME NEW r \in Requests, Step(r) \/ Fail(r) PROVE Running(r)
  BY DEF Step, Fail, Running, Guard, CreateUploadUrl, ReadRow, Head, MarkReady, CanAccess, Asks,
     Share, ReadProfile, Vet, AssertMember, ReadExisting, RequireGroup, AssertOwned, Write,
     ReadView, TellName

\* A call that writes nothing is over, or goes on; an update asks whose file it refers to when it
\* has read the name of its room.
LEMMA ReadStep ==
  ASSUME MediaInv, NEW r \in Requests, Step(r),
         ~Write(r), ~ReadView(r), ~TellName(r), ~CreateUploadUrl(r), ~MarkReady(r)
  PROVE  \/ \E o : Ends(r, o)
         \/ \E p \in Points \ {"idle", "done", "view", "tell"} :
              /\ Goes(r, p) /\ (saw' = saw \/ \E x : saw' = [saw EXCEPT ![r] = x])
              /\ p \in {"owned", "write"} /\ op[r].kind = "update" =>
                   \/ pc[r] = "owned" /\ UNCHANGED saw
                   \/ saw' = [saw EXCEPT ![r] = name[op[r].room]]
<1> DEFINE Reads ==
      \/ \E o : Ends(r, o)
      \/ \E p \in Points \ {"idle", "done", "view", "tell"} :
           /\ Goes(r, p) /\ (saw' = saw \/ \E x : saw' = [saw EXCEPT ![r] = x])
           /\ p \in {"owned", "write"} /\ op[r].kind = "update" =>
                \/ pc[r] = "owned" /\ UNCHANGED saw
                \/ saw' = [saw EXCEPT ![r] = name[op[r].room]]
<1>1. CallOK(r) /\ op[r].kind \in Kinds /\ op[r].user # Nobody
  BY StepRuns, CallFacts DEF MediaInv
<1>2. ASSUME NEW p \in Points \ {"idle", "done", "view", "tell", "owned", "write"}, Goes(r, p),
             saw' = saw \/ \E x : saw' = [saw EXCEPT ![r] = x]
      PROVE  Reads
  BY <1>2
<1>3. ASSUME NEW p \in {"owned", "write"}, Goes(r, p), op[r].kind # "update", saw' = saw
      PROVE  Reads
  BY <1>3 DEF Points
<1>4. CASE Guard(r)
  <2>1. op[r].kind \in Kinds \ {"onboard", "profile"}
    BY <1>1, <1>4 DEF Guard, CallOK, KindPoint
  <2>2. First(op[r].kind) \in Points \ {"idle", "done", "view", "tell", "owned", "write"}
    BY <2>1, WhereFirst DEF Points
  <2> QED
    BY <1>2, <1>4, <2>2 DEF Guard
<1>5. CASE ReadRow(r)
  <2>1. op[r].kind \in {"complete", "get"}
    BY <1>1, <1>5 DEF ReadRow, CallOK, KindPoint
  <2>2. \/ \E o : Ends(r, o)
        \/ /\ saw' = saw \/ \E x : saw' = [saw EXCEPT ![r] = x]
           /\ Goes(r, "head") \/ Goes(r, "message")
    <3>1. CASE uploader[op[r].file] = Nobody
      BY <1>1, <1>5, <2>1, <3>1 DEF ReadRow
    <3>2. CASE uploader[op[r].file] = op[r].user
      BY <1>1, <1>5, <2>1, <3>2 DEF ReadRow
    <3>3. CASE uploader[op[r].file] \notin {Nobody, op[r].user}
      BY <1>5, <2>1, <3>3 DEF ReadRow
    <3> QED
      BY <3>1, <3>2, <3>3
  <2> QED
    BY <1>2, <2>2 DEF Points
<1>6. CASE Head(r) \/ CanAccess(r) \/ Share(r) \/ ReadProfile(r)
  <2>1. \/ \E o : Ends(r, o)
        \/ \E p \in {"ready", "avatar", "room", "read"} :
             Goes(r, p) /\ (saw' = saw \/ \E x : saw' = [saw EXCEPT ![r] = x])
    BY <1>6 DEF Head, CanAccess, Asks, Share, ReadProfile
  <2> QED
    BY <1>2, <2>1 DEF Points
<1>7. CASE Vet(r) \/ AssertMember(r)
  <2>1. \/ \E o : Ends(r, o)
        \/ Goes(r, "owned") /\ op[r].kind # "update" /\ saw' = saw
        \/ Goes(r, "existing") /\ saw' = saw
    BY <1>1, <1>7 DEF Vet, AssertMember, CallOK, KindPoint
  <2> QED
    BY <1>2, <1>3, <2>1 DEF Points
<1>8. CASE ReadExisting(r)
  <2>1. op[r].kind \in {"onboard", "profile", "update"}
    BY <1>1, <1>8 DEF ReadExisting, RequireGroup, CallOK, KindPoint
  <2>2. \/ \E o : Ends(r, o)
        \/ /\ Goes(r, "owned") /\ (saw' = saw \/ \E x : saw' = [saw EXCEPT ![r] = x])
           /\ op[r].kind = "update" => saw' = [saw EXCEPT ![r] = name[op[r].room]]
    BY <1>8, <2>1 DEF ReadExisting, RequireGroup
  <2> QED
    BY <2>2 DEF Points
<1>9. CASE AssertOwned(r)
  <2>1. \/ \E o : Ends(r, o)
        \/ pc[r] = "owned" /\ Goes(r, "write") /\ UNCHANGED saw
    BY <1>9 DEF AssertOwned
  <2> QED
    BY <2>1 DEF Points
<1> QED
  BY <1>4, <1>5, <1>6, <1>7, <1>8, <1>9 DEF Step

\* Every step of a call is a Goes, an Answered, or the write of a name that is still to be told.
LEMMA StepShape ==
  ASSUME MediaInv, NEW r \in Requests, Arrive(r) \/ Step(r) \/ Fail(r)
  PROVE  /\ \E p \in Points \ {"idle"} : pc' = [pc EXCEPT ![r] = p]
         /\ op' = op \/ \E o \in Op \cup {NoOp} : op' = [op EXCEPT ![r] = o]
         /\ saw' = saw \/ \E x : saw' = [saw EXCEPT ![r] = x]
         /\ outcome' = outcome \/ \E x : outcome' = [outcome EXCEPT ![r] = x]
         /\ op' = op \/ pc' = [pc EXCEPT ![r] = "done"] \/ Arrive(r) \/ CreateGroup(r)
<1> DEFINE Shape ==
      /\ \E p \in Points \ {"idle"} : pc' = [pc EXCEPT ![r] = p]
      /\ op' = op \/ \E o \in Op \cup {NoOp} : op' = [op EXCEPT ![r] = o]
      /\ saw' = saw \/ \E x : saw' = [saw EXCEPT ![r] = x]
      /\ outcome' = outcome \/ \E x : outcome' = [outcome EXCEPT ![r] = x]
      /\ op' = op \/ pc' = [pc EXCEPT ![r] = "done"] \/ Arrive(r) \/ CreateGroup(r)
<1>1. ASSUME NEW o, Answered(r, o) PROVE Shape
  BY <1>1 DEF Answered, Points
<1>2. ASSUME NEW p \in Points \ {"idle"}, Goes(r, p),
             saw' = saw \/ \E x : saw' = [saw EXCEPT ![r] = x]
      PROVE  Shape
  BY <1>2 DEF Goes
<1>3. CASE Arrive(r)
  <2>1. PICK o \in Op : /\ op' = [op EXCEPT ![r] = o] /\ saw' = saw /\ outcome' = outcome
                        /\ \E p \in Entries(o.kind) : pc' = [pc EXCEPT ![r] = p]
    BY <1>3 DEF Arrive
  <2>2. PICK p \in Entries(o.kind) : pc' = [pc EXCEPT ![r] = p]
    BY <2>1
  <2>3. p \in Points \ {"idle"}
    BY EntryFacts DEF Points
  <2> QED
    BY <1>3, <2>1, <2>2, <2>3
<1>4. CASE Fail(r)
  BY <1>1, <1>4 DEF Fail
<1>5. CASE ReadView(r) \/ CreateUploadUrl(r) \/ MarkReady(r) \/ TellName(r)
  BY <1>1, <1>2, <1>5 DEF Points, ReadView, CreateUploadUrl, MarkReady, TellName, Ends
<1>6. CASE Write(r)
  <2>1. op[r].kind \in {"send", "onboard", "profile", "found", "update"}
    BY <1>6 DEF Write, MediaInv, CallOK, KindPoint
  <2>2. CASE op[r].kind = "update"
    <3>1. \/ Answered(r, "ok")
          \/ /\ pc' = [pc EXCEPT ![r] = "tell"] /\ \E x : saw' = [saw EXCEPT ![r] = x]
             /\ op' = op /\ outcome' = outcome
      BY <1>6, <2>2 DEF Write, UpdateRoom
    <3> QED
      BY <1>1, <3>1 DEF Points
  <2>3. CASE op[r].kind = "found"
    <3>1. Running(r) /\ CreateGroup(r)
      BY <1>6, <2>3 DEF Write, Running
    <3>2. PICK g \in Rooms : op' = [op EXCEPT ![r] = [op[r] EXCEPT !.room = g]]
      BY <3>1 DEF CreateGroup
    <3>3. [op[r] EXCEPT !.room = g] \in Op
      BY <2>3, <3>1, CallFacts, FoundedOp
    <3> QED
      BY <3>1, <3>2, <3>3 DEF CreateGroup, Points
  <2>4. CASE op[r].kind \notin {"update", "found"}
    <3>1. Answered(r, "ok")
      BY <1>6, <2>1, <2>4 DEF Write, StoreMessage, StoreProfile
    <3> QED
      BY <1>1, <3>1
  <2> QED
    BY <2>2, <2>3, <2>4
<1>7. CASE Step(r) /\ ~Write(r) /\ ~ReadView(r) /\ ~TellName(r) /\ ~CreateUploadUrl(r) /\ ~MarkReady(r)
  BY <1>1, <1>2, <1>7, ReadStep DEF Ends
<1> QED
  BY <1>3, <1>4, <1>5, <1>6, <1>7

\* A call that does not step is left as it is.
LEMMA WhoMoves ==
  ASSUME MediaInv, [Next]_vars, NEW r \in Requests
  PROVE  \/ Arrive(r) \/ Step(r) \/ Fail(r)
         \/ /\ pc'[r] = pc[r] /\ op'[r] = op[r] /\ saw'[r] = saw[r] /\ outcome'[r] = outcome[r]
<1>1. ASSUME NEW q \in Requests, q # r, Arrive(q) \/ Step(q) \/ Fail(q)
      PROVE  pc'[r] = pc[r] /\ op'[r] = op[r] /\ saw'[r] = saw[r] /\ outcome'[r] = outcome[r]
  BY <1>1, StepShape DEF MediaInv, TypeOK
<1>2. CASE UserSteps \/ UNCHANGED vars
  BY <1>2 DEF UserSteps, Put, Enter, Leave, Unsend, Does, vars
<1> QED
  BY <1>1, <1>2 DEF Next, Wait

\* A call that has got its answer does not start again.
LEMMA StartsOnce ==
  ASSUME MediaInv, [Next]_vars, NEW r \in Requests, ~Running(r), Running(r)'
  PROVE  Arrive(r) /\ pc[r] = "idle"
<1>1. Arrive(r)
  BY WhoMoves, StepRuns DEF Running
<1> QED
  BY <1>1 DEF Arrive

\* A profile stays.
LEMMA OnboardedStays == MediaInv /\ [Next]_vars => onboarded \subseteq onboarded'
<1> SUFFICES ASSUME MediaInv, [Next]_vars PROVE onboarded \subseteq onboarded'
  OBVIOUS
<1>1. ASSUME NEW r \in Requests, Step(r) PROVE onboarded \subseteq onboarded'
  <2>1. UNCHANGED onboarded \/ Write(r)
    BY <1>1, ReadStep DEF CreateUploadUrl, MarkReady, ReadView, TellName, Ends, Goes, Tables, people
  <2>2. CASE Write(r)
    <3>1. op[r].kind \in {"send", "onboard", "profile", "found", "update"}
      BY <2>2 DEF Write, MediaInv, CallOK, KindPoint
    <3> QED
      BY <2>2, <3>1 DEF Write, StoreMessage, StoreProfile, CreateGroup, UpdateRoom, people
  <2> QED
    BY <2>1, <2>2
<1> QED
  BY <1>1 DEF Next, Wait, vars, people, Arrive, Fail, Tables, UserSteps, Put, Enter, Leave, Unsend,
     Does

-----------------------------------------------------------------------------
(* Why a call is let in.                                                   *)

LEMMA GetReasons ==
  ASSUME NEW r \in Requests, op[r].kind = "get"
  PROVE  /\ Reasons(r) \subseteq {"uploader", "message", "avatar", "room"}
         /\ "uploader" \in Reasons(r) <=> uploader[op[r].file] = op[r].user
         /\ "message" \in Reasons(r) <=> InMessage(op[r].user, op[r].file)
         /\ "avatar" \in Reasons(r) <=> AsAvatar(op[r].user, op[r].file)
         /\ "room" \in Reasons(r) <=> AsRoomAvatar(op[r].user, op[r].file)
  BY DEF Reasons, InMessage, AsAvatar, AsRoomAvatar

LEMMA LookReasons ==
  ASSUME NEW r \in Requests, op[r].kind = "look"
  PROVE  /\ Reasons(r) \subseteq {"shared"}
         /\ "shared" \in Reasons(r) <=> ShareRoom(op[r].user, op[r].other)
  BY DEF Reasons, ShareRoom

LEMMA ReasonsSame ==
  ASSUME NEW r \in Requests, op'[r] = op[r], UNCHANGED Tables
  PROVE  Reasons(r)' = Reasons(r)
  BY DEF Reasons, Tables, files, references, people, titles

\* What Watch notes of one call.
LEMMA Watched ==
  ASSUME MediaInv, HistoryInv, [Next]_vars, NEW r \in Requests
  PROVE  /\ Running(r)' => since'[r] \subseteq Reasons(r)'
         /\ Running(r) /\ Running(r)' => since'[r] \subseteq since[r]
         /\ Running(r)' /\ (r \in ever \/ Reasons(r)' # {}) => r \in ever'
         /\ r \in late' /\ Running(r) => r \in late
         /\ r \in late' /\ ~Running(r) /\ Running(r)' => op'[r].user \in onboarded
<1>1. CASE Watch
  <2>1. ASSUME Running(r)', ~Running(r)
        PROVE  since'[r] \subseteq Reasons(r)'
    <3>1. pc[r] = "idle"
      BY <2>1, StartsOnce
    <3>2. since'[r] = Reasons(r)'
      BY <1>1, <2>1, <3>1 DEF Watch
    <3> QED
      BY <3>2
  <2>2. ASSUME Running(r)', Running(r)
        PROVE  since'[r] = since[r] \cap Reasons(r)'
    <3>1. pc[r] # "idle"
      BY <2>2 DEF Running
    <3> QED
      BY <1>1, <2>2, <3>1 DEF Watch
  <2>3. Running(r)' /\ (r \in ever \/ Reasons(r)' # {}) => r \in ever'
    BY <1>1 DEF Watch
  <2>4. r \in late' => Running(r)' /\ IF Running(r) THEN r \in late ELSE op'[r].user \in onboarded
    BY <1>1 DEF Watch
  <2> QED
    BY <2>1, <2>2, <2>3, <2>4
<1>2. CASE UNCHANGED vars
  <2>1. /\ op' = op /\ pc' = pc /\ since' = since /\ ever' = ever /\ late' = late
        /\ UNCHANGED Tables
    BY <1>2 DEF vars, history, Tables
  <2>2. Running(r)' = Running(r)
    BY <2>1 DEF Running
  <2>3. Reasons(r)' = Reasons(r)
    BY <2>1, ReasonsSame
  <2> QED
    BY <2>1, <2>2, <2>3 DEF HistoryInv, SincePoint, EverPoint
<1> QED
  BY <1>1, <1>2 DEF Next, Wait

LEMMA HistoryInit == Init => HistoryInv
  BY DEF Init, HistoryInv, SincePoint, EverPoint, LatePoint, Running

\* A call reaches the points of canAccess one after the other, and "read" behind shareRoom.
LEMMA AccessSteps ==
  ASSUME MediaInv, [Next]_vars, NEW r \in Requests, pc'[r] # pc[r],
         pc'[r] \in {"message", "avatar", "room", "read"}
  PROVE  /\ Running(r) /\ op'[r] = op[r] /\ UNCHANGED Tables
         /\ pc'[r] = "message" => /\ pc[r] = "row" /\ op[r].kind = "get"
                                  /\ uploader[op[r].file] # op[r].user
         /\ pc'[r] = "avatar" => /\ pc[r] = "message" /\ op[r].kind = "get"
                                 /\ ~InMessage(op[r].user, op[r].file)
         /\ pc'[r] = "room" => /\ pc[r] = "avatar" /\ op[r].kind = "get"
                               /\ ~AsAvatar(op[r].user, op[r].file)
         /\ pc'[r] = "read" => /\ pc[r] = "share" /\ op[r].kind = "look"
                               /\ ShareRoom(op[r].user, op[r].other)
<1>1. Step(r) \/ Arrive(r) \/ Fail(r)
  BY WhoMoves
<1>2. ~Arrive(r)
  BY EntryFacts DEF Arrive, MediaInv, TypeOK
<1>3. ASSUME NEW o, Answered(r, o) PROVE FALSE
  BY <1>3 DEF Answered, MediaInv, TypeOK
<1>4. Step(r) /\ Running(r)
  BY <1>1, <1>2, <1>3, StepRuns DEF Fail
<1>5. CallOK(r) /\ op[r].kind \in Kinds /\ op[r].user # Nobody
  BY <1>4, CallFacts DEF MediaInv
<1>6. ASSUME NEW p \in Points \ {"message", "avatar", "room", "read"}, pc' = [pc EXCEPT ![r] = p]
      PROVE  FALSE
  BY <1>6 DEF MediaInv, TypeOK
<1>7. ASSUME NEW p \in Points \ {"message", "avatar", "room", "read"}, Goes(r, p) PROVE FALSE
  BY <1>6, <1>7 DEF Goes
<1>8. ~Guard(r)
  <2>1. pc[r] = "onboarded" => op[r].kind \in Kinds \ {"onboard", "profile"}
    BY <1>5 DEF CallOK, KindPoint
  <2>2. pc[r] = "onboarded" => First(op[r].kind) \in Points \ {"message", "avatar", "room", "read"}
    BY <2>1, WhereFirst DEF Points
  <2> QED
    BY <1>3, <1>7, <2>2 DEF Guard, Ends
<1>9. /\ ~CreateUploadUrl(r) /\ ~MarkReady(r) /\ ~ReadProfile(r) /\ ~ReadView(r)
      /\ ~TellName(r) /\ ~Head(r)
  BY <1>3, <1>7 DEF CreateUploadUrl, MarkReady, ReadProfile, ReadView, TellName, Head, Ends, Points
<1>10. ~Vet(r) /\ ~AssertMember(r) /\ ~AssertOwned(r)
  <2>1. \A p \in {"owned", "existing", "write"} : ~Goes(r, p)
    BY <1>7 DEF Points
  <2> QED
    BY <1>3, <2>1 DEF Vet, AssertMember, AssertOwned, Ends
<1>11. ~ReadExisting(r)
  <2>1. ~Goes(r, "owned") /\ \A o : ~Ends(r, o)
    BY <1>3, <1>7 DEF Points, Ends
  <2>2. pc[r] = "existing" => op[r].kind \in {"onboard", "profile", "update"}
    BY <1>5 DEF CallOK, KindPoint
  <2> QED
    BY <2>1, <2>2 DEF ReadExisting, RequireGroup
<1>12. ~Write(r)
  <2>1. pc[r] = "write" => op[r].kind \in {"send", "onboard", "profile", "found", "update"}
    BY <1>5 DEF CallOK, KindPoint
  <2>2. pc' # [pc EXCEPT ![r] = "view"] /\ pc' # [pc EXCEPT ![r] = "tell"]
    BY <1>6 DEF Points
  <2> QED
    BY <1>3, <2>1, <2>2 DEF Write, StoreMessage, StoreProfile, CreateGroup, UpdateRoom
<1>13. ReadRow(r) \/ CanAccess(r) \/ Share(r)
  BY <1>4, <1>8, <1>9, <1>10, <1>11, <1>12 DEF Step
<1>14. CASE ReadRow(r)
  <2>1. op[r].kind \in {"complete", "get"}
    BY <1>5, <1>14 DEF ReadRow, CallOK, KindPoint
  <2>2. /\ op[r].kind = "get" /\ uploader[op[r].file] \notin {Nobody, op[r].user}
        /\ Goes(r, "message")
    <3>1. ~Goes(r, "head") /\ \A o : ~Ends(r, o)
      BY <1>3, <1>7 DEF Points, Ends
    <3>2. uploader[op[r].file] # Nobody
      BY <1>14, <3>1 DEF ReadRow
    <3>3. uploader[op[r].file] # op[r].user
      BY <1>5, <1>14, <2>1, <3>1 DEF ReadRow
    <3>4. op[r].kind = "get"
      BY <1>14, <2>1, <3>1, <3>2, <3>3 DEF ReadRow
    <3> QED
      BY <1>14, <3>2, <3>3, <3>4 DEF ReadRow
  <2> QED
    BY <1>4, <1>14, <2>2, GoesFacts DEF ReadRow, Goes
<1>15. CASE CanAccess(r)
  <2>1. op[r].kind = "get"
    BY <1>5, <1>15 DEF CanAccess, Asks, CallOK, KindPoint
  <2>2. \/ /\ pc[r] = "message" /\ ~InMessage(op[r].user, op[r].file) /\ Goes(r, "avatar")
        \/ /\ pc[r] = "avatar" /\ ~AsAvatar(op[r].user, op[r].file) /\ Goes(r, "room")
    BY <1>3, <1>15 DEF CanAccess, Asks, Ends
  <2> QED
    BY <1>4, <2>1, <2>2, GoesFacts DEF Goes
<1>16. CASE Share(r)
  <2>1. op[r].kind = "look"
    BY <1>5, <1>16 DEF Share, CallOK, KindPoint
  <2>2. ShareRoom(op[r].user, op[r].other) /\ Goes(r, "read")
    BY <1>3, <1>16 DEF Share, Ends
  <2> QED
    BY <1>4, <1>16, <2>1, <2>2, GoesFacts DEF Share, Goes
<1> QED
  BY <1>13, <1>14, <1>15, <1>16

\* What a call asked for, and for whom, stays the same until it is answered.
LEMMA OpStays ==
  ASSUME MediaInv, [Next]_vars, NEW r \in Requests, Running(r), Running(r)'
  PROVE  op'[r].kind = op[r].kind /\ op'[r].user = op[r].user
<1>1. ~Arrive(r)
  BY DEF Arrive, Running
<1>2. pc' # [pc EXCEPT ![r] = "done"]
  BY DEF Running, MediaInv, TypeOK
<1>3. CASE op'[r] = op[r]
  BY <1>3
<1>4. CASE CreateGroup(r)
  <2>1. PICK g \in Rooms : op' = [op EXCEPT ![r] = [op[r] EXCEPT !.room = g]]
    BY <1>4 DEF CreateGroup
  <2>2. op'[r] = [op[r] EXCEPT !.room = g]
    BY <2>1 DEF MediaInv, TypeOK
  <2>3. op[r] \in [kind : Kinds, user : Users, file : Files \cup {None, Keep},
                   room : Rooms \cup {None}, other : Users]
    BY CallFacts DEF Op
  <2> QED
    BY <2>2, <2>3
<1> QED
  BY <1>1, <1>2, <1>3, <1>4, WhoMoves, StepShape

\* A call writes when it has asked whose file it refers to; POST /profile asks that of a user
\* without a profile alone.
LEMMA WriteSteps ==
  ASSUME MediaInv, [Next]_vars, NEW r \in Requests, Running(r), pc'[r] # pc[r]
  PROVE  /\ pc'[r] = "write" => pc[r] = "owned"
         /\ pc'[r] = "owned" /\ op[r].kind = "onboard" => op[r].user \notin onboarded
<1>1. SUFFICES ASSUME pc'[r] \in {"owned", "write"}
               PROVE  \/ pc'[r] = "write" /\ pc[r] = "owned"
                      \/ /\ pc'[r] = "owned"
                         /\ op[r].kind = "onboard" => op[r].user \notin onboarded
  OBVIOUS
<1>2. ASSUME NEW o, Answered(r, o) PROVE FALSE
  BY <1>1, <1>2 DEF Answered, MediaInv, TypeOK
<1>3. Step(r)
  BY <1>2, WhoMoves DEF Arrive, Fail, Running
<1>4. CallOK(r) /\ op[r].kind \in Kinds /\ op[r].user # Nobody
  BY CallFacts DEF MediaInv
<1>5. ASSUME NEW p \in Points \ {"owned", "write"}, pc' = [pc EXCEPT ![r] = p] PROVE FALSE
  BY <1>1, <1>5 DEF MediaInv, TypeOK
<1>6. ASSUME NEW p \in Points \ {"owned", "write"}, Goes(r, p) PROVE FALSE
  BY <1>5, <1>6 DEF Goes
<1>7. ~Guard(r)
  <2>1. pc[r] = "onboarded" => op[r].kind \in Kinds \ {"onboard", "profile"}
    BY <1>4 DEF CallOK, KindPoint
  <2>2. pc[r] = "onboarded" => First(op[r].kind) \in Points \ {"owned", "write"}
    BY <2>1, WhereFirst DEF Points
  <2> QED
    BY <1>2, <1>6, <2>2 DEF Guard, Ends
<1>8. /\ ~CreateUploadUrl(r) /\ ~MarkReady(r) /\ ~ReadProfile(r) /\ ~ReadView(r)
      /\ ~TellName(r) /\ ~Head(r) /\ ~Share(r) /\ ~CanAccess(r)
  BY <1>2, <1>6 DEF CreateUploadUrl, MarkReady, ReadProfile, ReadView, TellName, Head, Share, CanAccess,
     Asks, Ends, Points
<1>9. ~ReadRow(r)
  <2>1. pc[r] = "row" => op[r].kind \in {"complete", "get"}
    BY <1>4 DEF CallOK, KindPoint
  <2>2. ~Goes(r, "head") /\ ~Goes(r, "message") /\ \A o : ~Ends(r, o)
    BY <1>2, <1>6 DEF Points, Ends
  <2>3. CASE uploader[op[r].file] = Nobody
    BY <2>2, <2>3 DEF ReadRow
  <2>4. CASE uploader[op[r].file] = op[r].user
    BY <1>4, <2>1, <2>2, <2>4 DEF ReadRow
  <2>5. CASE uploader[op[r].file] \notin {Nobody, op[r].user}
    BY <2>1, <2>2, <2>5 DEF ReadRow
  <2> QED
    BY <2>3, <2>4, <2>5
<1>10. ~Write(r)
  <2>1. pc[r] = "write" => op[r].kind \in {"send", "onboard", "profile", "found", "update"}
    BY <1>4 DEF CallOK, KindPoint
  <2>2. pc' # [pc EXCEPT ![r] = "view"] /\ pc' # [pc EXCEPT ![r] = "tell"]
    BY <1>5 DEF Points
  <2> QED
    BY <1>2, <2>1, <2>2 DEF Write, StoreMessage, StoreProfile, CreateGroup, UpdateRoom
<1>11. CASE AssertOwned(r)
  <2>1. Goes(r, "write")
    BY <1>2, <1>11 DEF AssertOwned, Ends
  <2> QED
    BY <1>11, <2>1, GoesFacts DEF AssertOwned
<1>12. CASE Vet(r) \/ AssertMember(r)
  <2>1. op[r].kind # "onboard"
    BY <1>4, <1>12 DEF Vet, AssertMember, CallOK, KindPoint
  <2>2. pc'[r] # "write"
    BY <1>2, <1>12, GoesFacts DEF Vet, AssertMember, Ends
  <2> QED
    BY <1>1, <2>1, <2>2
<1>13. CASE ReadExisting(r)
  <2>1. op[r].kind \in {"onboard", "profile", "update"}
    BY <1>4, <1>13 DEF ReadExisting, RequireGroup, CallOK, KindPoint
  <2>2. Goes(r, "owned") /\ (op[r].kind = "onboard" => op[r].user \notin onboarded)
    BY <1>2, <1>13, <2>1 DEF ReadExisting, RequireGroup, MayCreate, Ends
  <2> QED
    BY <2>2, GoesFacts
<1> QED
  BY <1>3, <1>7, <1>8, <1>9, <1>10, <1>11, <1>12, <1>13 DEF Step

LEMMA SinceNext ==
  ASSUME MediaInv, HistoryInv, [Next]_vars, NEW r \in Requests
  PROVE  SincePoint(r)'
<1>0. SincePoint(r)
  BY DEF HistoryInv
<1>1. CASE pc'[r] = pc[r]
  <2>1. Running(r)' = Running(r)
    BY <1>1 DEF Running
  <2> QED
    BY <1>0, <1>1, <2>1, Watched DEF SincePoint, Running
<1>2. CASE pc'[r] # pc[r] /\ pc'[r] \in {"message", "avatar", "room"}
  <2>1. Running(r) /\ Running(r)' /\ op'[r] = op[r] /\ op[r].kind = "get" /\ UNCHANGED Tables
    BY <1>2, AccessSteps DEF Running
  <2>2. since'[r] \subseteq Reasons(r) /\ since'[r] \subseteq since[r]
    BY <2>1, Watched, ReasonsSame
  <2>3. since'[r] \subseteq Reasons(r)'
    BY <2>1, Watched
  <2>4. pc'[r] = "message" => "uploader" \notin since'[r]
    BY <1>2, <2>1, <2>2, AccessSteps, GetReasons
  <2>5. pc'[r] = "avatar" => "uploader" \notin since'[r] /\ "message" \notin since'[r]
    BY <1>0, <1>2, <2>1, <2>2, AccessSteps, GetReasons DEF SincePoint
  <2>6. pc'[r] = "room" => {"uploader", "message", "avatar"} \cap since'[r] = {}
    BY <1>0, <1>2, <2>1, <2>2, AccessSteps, GetReasons DEF SincePoint
  <2> QED
    BY <1>2, <2>3, <2>4, <2>5, <2>6 DEF SincePoint
<1>3. CASE pc'[r] \notin {"message", "avatar", "room"}
  BY <1>3, Watched DEF SincePoint
<1> QED
  BY <1>1, <1>2, <1>3

LEMMA EverNext ==
  ASSUME MediaInv, HistoryInv, [Next]_vars, NEW r \in Requests
  PROVE  EverPoint(r)'
<1>1. Running(r)' /\ Reasons(r)' # {} => r \in ever'
  BY Watched
<1>2. ASSUME pc'[r] = "read" PROVE r \in ever
  <2>1. CASE pc[r] = "read"
    BY <2>1 DEF HistoryInv, EverPoint
  <2>2. CASE pc[r] # "read"
    <3>1. Running(r) /\ op[r].kind = "look" /\ ShareRoom(op[r].user, op[r].other)
      BY <1>2, <2>2, AccessSteps
    <3>2. Reasons(r) # {}
      BY <3>1, LookReasons
    <3> QED
      BY <3>1, <3>2 DEF HistoryInv, EverPoint
  <2> QED
    BY <2>1, <2>2
<1>3. pc'[r] = "read" => r \in ever'
  BY <1>2, Watched DEF Running
<1> QED
  BY <1>1, <1>3 DEF EverPoint

LEMMA LateNext ==
  ASSUME MediaInv, HistoryInv, [Next]_vars, NEW r \in Requests
  PROVE  LatePoint(r)'
<1> SUFFICES ASSUME r \in late'
             PROVE  /\ Running(r)' => op'[r].user \in onboarded'
                    /\ op'[r].kind = "onboard" => pc'[r] \notin {"owned", "write"}
  BY DEF LatePoint
<1>1. CASE Running(r) /\ Running(r)'
  <2>1. r \in late /\ op'[r].kind = op[r].kind /\ op'[r].user = op[r].user
    BY <1>1, Watched, OpStays
  <2>2. op[r].user \in onboarded /\ (op[r].kind = "onboard" => pc[r] \notin {"owned", "write"})
    BY <1>1, <2>1 DEF HistoryInv, LatePoint
  <2>3. op[r].kind = "onboard" => pc'[r] \notin {"owned", "write"}
    BY <1>1, <2>2, WriteSteps
  <2> QED
    BY <2>1, <2>2, <2>3, OnboardedStays
<1>2. CASE ~Running(r) /\ Running(r)'
  <2>1. op'[r].user \in onboarded
    BY <1>2, Watched
  <2>2. pc'[r] \in {"existing", "onboarded", "member"}
    BY <1>2, StartsOnce DEF Arrive, Entries, MediaInv, TypeOK
  <2> QED
    BY <2>1, <2>2, OnboardedStays
<1>3. CASE ~Running(r)'
  BY <1>3 DEF Running
<1> QED
  BY <1>1, <1>2, <1>3

LEMMA HistoryNext == MediaInv /\ HistoryInv /\ [Next]_vars => HistoryInv'
  BY SinceNext, EverNext, LateNext DEF HistoryInv

LEMMA HistoryAlways == Spec => [](MediaInv /\ HistoryInv)
<1>1. Init => MediaInv /\ HistoryInv
  BY InvInit, HistoryInit
<1>2. MediaInv /\ HistoryInv /\ [Next]_vars => (MediaInv /\ HistoryInv)'
  BY InvNext, HistoryNext
<1> QED
  BY <1>1, <1>2, PTL DEF Spec

-----------------------------------------------------------------------------
(* What callers are told.                                                  *)

\* An answer other than a failure comes of a step of the call, which ends it.
LEMMA AnswerStep ==
  ASSUME MediaInv, [Next]_vars, NEW r \in Requests, NEW o \in {"ok", "refused"}, Answers(r, o)
  PROVE  /\ Running(r) /\ Step(r) /\ CallOK(r) /\ op[r].kind \in Kinds /\ op[r].user # Nobody
         /\ \A p : ~Goes(r, p)
         /\ \A a : Answered(r, a) => a = o
         /\ outcome' # outcome
<1>1. Running(r) /\ outcome'[r] = o /\ outcome[r] = "none"
  BY CallFacts DEF Answers
<1>2. ASSUME NEW a, Answered(r, a) PROVE a = o
  BY <1>1, <1>2 DEF Answered, MediaInv, TypeOK
<1>3. ~Fail(r) /\ ~Arrive(r)
  BY <1>1, <1>2 DEF Fail, Arrive
<1>4. Step(r)
  BY <1>1, <1>3, WhoMoves
<1>5. \A p : ~Goes(r, p)
  BY <1>1 DEF Goes
<1>6. CallOK(r) /\ op[r].kind \in Kinds /\ op[r].user # Nobody
  BY <1>1, CallFacts DEF MediaInv
<1> QED
  BY <1>1, <1>2, <1>4, <1>5, <1>6

\* At which points, and for what, a caller who asked to see something gets its answer.
LEMMA SeeAnswered ==
  ASSUME MediaInv, [Next]_vars, NEW r \in Requests, NEW o \in {"ok", "refused"}, Answers(r, o),
         op[r].kind \in {"get", "look"}
  PROVE  \/ pc[r] = "read"
         \/ pc[r] = "onboarded" /\ o = "refused" /\ op[r].user \notin onboarded
         \/ /\ op[r].kind = "look" /\ o = "refused" /\ ~ShareRoom(op[r].user, op[r].other)
         \/ /\ op[r].kind = "get" /\ o = "ok"
            /\ \/ uploader[op[r].file] = op[r].user
               \/ InMessage(op[r].user, op[r].file)
               \/ AsAvatar(op[r].user, op[r].file)
               \/ AsRoomAvatar(op[r].user, op[r].file)
         \/ /\ op[r].kind = "get" /\ o = "refused" /\ pc[r] = "room"
            /\ ~AsRoomAvatar(op[r].user, op[r].file)
<1>1. /\ Running(r) /\ Step(r) /\ CallOK(r) /\ op[r].user # Nobody
      /\ \A p : ~Goes(r, p)
      /\ \A a : Answered(r, a) => a = o
  BY AnswerStep
<1>2. pc[r] \in {"onboarded", "row", "message", "avatar", "room", "share", "read"}
  BY <1>1 DEF CallOK, KindPoint, Running, MediaInv, TypeOK, Points
<1>3. \A a : Ends(r, a) => a = o
  BY <1>1 DEF Ends
<1>4. Guard(r) \/ ReadRow(r) \/ CanAccess(r) \/ Share(r) \/ ReadProfile(r)
  BY <1>1, <1>2 DEF Step, CreateUploadUrl, Head, MarkReady, Vet, AssertMember, ReadExisting, RequireGroup,
     AssertOwned, Write, ReadView, TellName
<1>5. CASE Guard(r)
  BY <1>1, <1>3, <1>5 DEF Guard
<1>6. CASE ReadRow(r)
  <2>1. op[r].kind = "get"
    BY <1>1, <1>6 DEF ReadRow, CallOK, KindPoint
  <2>2. uploader[op[r].file] # Nobody
    <3>1. ~Ends(r, "missing")
      BY <1>3
    <3> QED
      BY <1>1, <1>6, <2>1, <3>1 DEF ReadRow
  <2>3. uploader[op[r].file] = op[r].user
    BY <1>1, <1>6, <2>1, <2>2 DEF ReadRow
  <2>4. Ends(r, "ok")
    BY <1>1, <1>6, <2>1, <2>3 DEF ReadRow
  <2> QED
    BY <1>3, <2>1, <2>3, <2>4
<1>7. CASE CanAccess(r)
  <2>1. op[r].kind = "get"
    BY <1>1, <1>7 DEF CanAccess, Asks, CallOK, KindPoint
  <2> QED
    BY <1>1, <1>3, <1>7, <2>1 DEF CanAccess, Asks
<1>8. CASE Share(r)
  <2>1. op[r].kind = "look"
    BY <1>1, <1>8 DEF Share, CallOK, KindPoint
  <2> QED
    BY <1>1, <1>3, <1>8, <2>1 DEF Share
<1>9. CASE ReadProfile(r)
  BY <1>9 DEF ReadProfile
<1> QED
  BY <1>4, <1>5, <1>6, <1>7, <1>8, <1>9

\* A URL, or a profile, is given to nobody who was not entitled to it at some time since the call
\* came (canAccess of media.service, getProfile of users.service).
THEOREM OnlyTheEntitled == Spec => OnlyEntitledSee
<1>1. ASSUME MediaInv, HistoryInv, [Next]_vars, NEW r \in Requests, Answers(r, "ok"),
             op[r].kind \in {"get", "look"}
      PROVE  r \in ever
  <2>1. Running(r) /\ EverPoint(r)
    BY <1>1 DEF Answers, HistoryInv
  <2>2. CASE pc[r] = "read"
    BY <2>1, <2>2 DEF EverPoint
  <2>3. CASE pc[r] # "read"
    <3>1. /\ op[r].kind = "get"
          /\ \/ uploader[op[r].file] = op[r].user
             \/ InMessage(op[r].user, op[r].file)
             \/ AsAvatar(op[r].user, op[r].file)
             \/ AsRoomAvatar(op[r].user, op[r].file)
      BY <1>1, <2>3, SeeAnswered
    <3>2. Reasons(r) # {}
      BY <3>1, GetReasons
    <3> QED
      BY <2>1, <3>2 DEF EverPoint
  <2> QED
    BY <2>2, <2>3
<1>2. MediaInv /\ HistoryInv /\ [Next]_vars
        => [\A r \in Requests :
              Answers(r, "ok") /\ op[r].kind \in {"get", "look"} => r \in ever]_vars
  BY <1>1
<1> QED
  BY <1>2, HistoryAlways, PTL DEF Spec, OnlyEntitledSee

\* And nobody with a profile is turned away who was entitled for one reason all the time, though
\* the four tables are read one after the other.
THEOREM TheEntitled == Spec => EntitledSee
<1>1. ASSUME MediaInv, HistoryInv, [Next]_vars, NEW r \in Requests, Answers(r, "refused"),
             op[r].kind \in {"get", "look"}, r \in late
      PROVE  since[r] = {}
  <2>1. Running(r) /\ SincePoint(r) /\ op[r].user \in onboarded
    BY <1>1 DEF Answers, HistoryInv, LatePoint
  <2>2. pc[r] # "read"
    <3>1. SUFFICES ASSUME pc[r] = "read" PROVE FALSE
      OBVIOUS
    <3>2. ReadProfile(r)
      BY <1>1, <3>1, AnswerStep DEF Step, Guard, CreateUploadUrl, ReadRow, Head, MarkReady,
         CanAccess, Asks, Share, Vet, AssertMember, ReadExisting, RequireGroup, AssertOwned, Write, ReadView, TellName
    <3> QED
      BY <1>1, <3>2, AnswerStep DEF ReadProfile, Ends
  <2>3. CASE op[r].kind = "look"
    <3>1. ~ShareRoom(op[r].user, op[r].other)
      BY <1>1, <2>1, <2>2, <2>3, SeeAnswered
    <3> QED
      BY <2>1, <2>3, <3>1, LookReasons DEF SincePoint
  <2>4. CASE op[r].kind = "get"
    <3>1. pc[r] = "room" /\ ~AsRoomAvatar(op[r].user, op[r].file)
      BY <1>1, <2>1, <2>2, <2>4, SeeAnswered
    <3> QED
      BY <2>1, <2>4, <3>1, GetReasons DEF SincePoint
  <2> QED
    BY <1>1, <2>3, <2>4
<1>2. MediaInv /\ HistoryInv /\ [Next]_vars
        => [\A r \in Requests :
              Answers(r, "refused") /\ op[r].kind \in {"get", "look"} /\ r \in late
                => since[r] = {}]_vars
  BY <1>1
<1> QED
  BY <1>2, HistoryAlways, PTL DEF Spec, EntitledSee

\* A POST /profile that came when its user had a profile does not succeed: it does not get past
\* the check of onboardedAt, and a profile never goes away.
THEOREM ProfilesNotRedone == Spec => OnboardedOnce
<1>1. ASSUME MediaInv, HistoryInv, [Next]_vars, NEW r \in late, op[r].kind = "onboard",
             Answers(r, "ok"), r \in Requests
      PROVE  FALSE
  <2>1. /\ Running(r) /\ Step(r) /\ CallOK(r)
        /\ \A p : ~Goes(r, p)
        /\ \A a : Answered(r, a) => a = "ok"
    BY <1>1, AnswerStep
  <2>2. pc[r] \in {"existing", "owned", "write"}
    BY <1>1, <2>1 DEF CallOK, KindPoint, Running, MediaInv, TypeOK, Points
  <2>3. pc[r] = "existing"
    BY <1>1, <2>2 DEF HistoryInv, LatePoint
  <2>4. ReadExisting(r)
    BY <2>1, <2>3 DEF Step, Guard, CreateUploadUrl, ReadRow, Head, MarkReady,
       CanAccess, Asks, Share, ReadProfile, Vet, AssertMember, AssertOwned, Write, ReadView, TellName
  <2>5. ~Ends(r, "refused")
    BY <2>1 DEF Ends
  <2> QED
    BY <1>1, <2>1, <2>4, <2>5 DEF ReadExisting, RequireGroup
<1>2. Spec => [](late \subseteq Requests)
  <2>1. Init => late \subseteq Requests
    BY DEF Init
  <2>2. late \subseteq Requests /\ [Next]_vars => (late \subseteq Requests)'
    BY DEF Next, Watch, Wait, vars, history
  <2> QED
    BY <2>1, <2>2, PTL DEF Spec
<1>3. MediaInv /\ HistoryInv /\ late \subseteq Requests /\ [Next]_vars
        => [\A r \in late : ~(op[r].kind = "onboard" /\ Answers(r, "ok"))]_vars
  BY <1>1
<1> QED
  BY <1>2, <1>3, HistoryAlways, PTL DEF Spec, OnboardedOnce

-----------------------------------------------------------------------------
(* What is written.                                                        *)

\* Messages, avatars and the names of rooms change where they are written, and nowhere else.
LEMMA WritesOnly ==
  ASSUME MediaInv, NEW r \in Requests, Step(r), ~Write(r)
  PROVE  UNCHANGED <<references, name>> /\ (~TellName(r) => UNCHANGED titles)
<1>1. CASE CreateUploadUrl(r) \/ MarkReady(r) \/ ReadView(r) \/ TellName(r)
  BY <1>1 DEF CreateUploadUrl, MarkReady, ReadView, TellName, Goes, Ends, Tables, titles
<1>2. CASE ~ReadView(r) /\ ~TellName(r) /\ ~CreateUploadUrl(r) /\ ~MarkReady(r)
  BY <1>2, ReadStep DEF Ends, Goes, Tables, titles
<1> QED
  BY <1>1, <1>2

\* Who writes refers to a file of its own, or to none.
LEMMA WritesOwn ==
  ASSUME MediaInv, NEW r \in Requests, Write(r)
  PROVE  /\ \A p \in posts' \ posts : uploader[p.file] = p.sender
         /\ \A u \in Users : avatar'[u] \notin {avatar[u], None} => uploader[avatar'[u]] = u
         /\ \A g \in Rooms : roomAvatar'[g] \notin {roomAvatar[g], None} =>
              uploader[roomAvatar'[g]] = op[r].user
<1>1. /\ pc[r] = "write" /\ Running(r) /\ MayRefer(op[r].user, op[r].file)
      /\ op[r].kind \in {"send", "onboard", "profile", "found", "update"}
  BY DEF Write, Running, MediaInv, CallOK, FilePoint, KindPoint
<1>2. /\ op[r].file \in Files => uploader[op[r].file] = op[r].user
      /\ op[r].kind = "send" => op[r].file \in Files
      /\ op[r].file \in Files \cup {None, Keep}
      /\ op[r].kind = "found" => op[r].file # Keep
  BY <1>1, CallFacts DEF MayRefer
<1>3. avatar \in [Users -> Files \cup {None}] /\ roomAvatar \in [Rooms -> Files \cup {None}]
  BY DEF MediaInv, TypeOK
<1>4. CASE op[r].kind = "send"
  <2>1. StoreMessage(r)
    BY <1>4 DEF Write
  <2> QED
    BY <1>2, <1>4, <2>1 DEF StoreMessage
<1>5. CASE op[r].kind \in {"onboard", "profile"}
  <2>1. StoreProfile(r)
    BY <1>5 DEF Write
  <2> QED
    BY <1>2, <1>3, <2>1 DEF StoreProfile
<1>6. CASE op[r].kind = "found"
  <2>1. CreateGroup(r)
    BY <1>6 DEF Write
  <2> QED
    BY <1>2, <1>3, <1>6, <2>1 DEF CreateGroup
<1>7. CASE op[r].kind = "update"
  <2>1. UpdateRoom(r)
    BY <1>7 DEF Write
  <2> QED
    BY <1>2, <1>3, <2>1 DEF UpdateRoom
<1> QED
  BY <1>1, <1>4, <1>5, <1>6, <1>7

\* A file is referred to by who uploaded it (assertOwnedMedia): between the assertion and the
\* write the row keeps its uploader.
THEOREM OwnFiles == Spec => OnlyOwnFiles
<1> DEFINE Own ==
      /\ \A p \in posts' \ posts : uploader[p.file] = p.sender
      /\ \A u \in Users : avatar'[u] \notin {avatar[u], None} => uploader[avatar'[u]] = u
      /\ \A g \in Rooms : roomAvatar'[g] \notin {roomAvatar[g], None} =>
           \E r \in Requests : pc[r] = "write" /\ uploader[roomAvatar'[g]] = op[r].user
<1>1. MediaInv /\ [Next]_vars => Own
  <2> SUFFICES ASSUME MediaInv, [Next]_vars PROVE Own
    OBVIOUS
  <2>1. CASE \E r \in Requests : Write(r)
    <3>1. PICK r \in Requests : Write(r)
      BY <2>1
    <3>2. pc[r] = "write"
      BY <3>1 DEF Write
    <3> QED
      BY <3>1, <3>2, WritesOwn
  <2>2. CASE \E r \in Requests : Step(r) /\ ~Write(r)
    BY <2>2, WritesOnly DEF references
  <2>3. CASE \E r \in Requests : Arrive(r) \/ Fail(r)
    BY <2>3 DEF Arrive, Fail, Tables, references
  <2>4. CASE UserSteps \/ UNCHANGED vars
    <3>1. posts' \subseteq posts /\ UNCHANGED <<avatar, roomAvatar>>
      BY <2>4 DEF UserSteps, Put, Enter, Leave, Unsend, Does, vars, Tables, references
    <3> QED
      BY <3>1
  <2> QED
    BY <2>1, <2>2, <2>3, <2>4 DEF Next, Wait
<1>2. MediaInv /\ [Next]_vars => [Own]_vars
  BY <1>1
<1> QED
  BY <1>2, InvAlways, PTL DEF Spec, OnlyOwnFiles

-----------------------------------------------------------------------------
(* The name the members were told of.                                      *)

LEMMA NamesInit == Init => NamesInv
  BY DEF Init, NamesInv, OneAtWork, InFlight, Running, NamePoint

\* What of the calls and the names stays, and with it what NamesInv says of a call.
LEMMA PointsStay ==
  ASSUME NEW r \in Requests, pc'[r] = pc[r], op'[r] = op[r], saw'[r] = saw[r], UNCHANGED titles
  PROVE  /\ NamePoint(r) => NamePoint(r)'
         /\ Telling(r) <=> Telling(r)'
  BY DEF NamePoint, Telling, titles

\* A step in which no call moves and no name changes.
LEMMA NamesStay ==
  ASSUME NamesInv, UNCHANGED <<pc, op, saw, titles, overlaps, failures>>
  PROVE  NamesInv'
<1> SUFFICES ASSUME overlaps = 0, failures = 0
             PROVE  /\ OneAtWork'
                    /\ \A r \in Requests : NamePoint(r)' /\ (pc'[r] \in {"view", "tell"} => Telling(r)')
                    /\ named' = name' \/ \E r \in Requests : Telling(r)'
  BY DEF NamesInv
<1>1. /\ OneAtWork
      /\ \A r \in Requests : NamePoint(r) /\ (pc[r] \in {"view", "tell"} => Telling(r))
      /\ named = name \/ \E r \in Requests : Telling(r)
  BY DEF NamesInv
<1>2. OneAtWork'
  BY <1>1 DEF OneAtWork, InFlight, Running
<1>3. \A r \in Requests : NamePoint(r)' /\ (pc'[r] \in {"view", "tell"} => Telling(r)')
  BY <1>1, PointsStay
<1>4. named' = name' \/ \E r \in Requests : Telling(r)'
  BY <1>1, PointsStay DEF titles
<1> QED
  BY <1>2, <1>3, <1>4

\* A call that comes while none is at work.
LEMMA NamesArrive ==
  ASSUME MediaInv, NamesInv, NEW r \in Requests, Arrive(r)
  PROVE  NamesInv'
<1> SUFFICES ASSUME overlaps' = 0, failures' = 0
             PROVE  /\ OneAtWork'
                    /\ \A q \in Requests : NamePoint(q)' /\ (pc'[q] \in {"view", "tell"} => Telling(q)')
                    /\ named' = name'
  BY DEF NamesInv
<1>1. InFlight = {} /\ overlaps = 0 /\ failures = 0
  BY DEF Arrive, MediaInv, TypeOK
<1>2. \A q \in Requests : ~Running(q)
  BY <1>1 DEF InFlight
<1>3. named = name /\ named' = name'
  BY <1>1, <1>2 DEF NamesInv, Telling, Running, Arrive, Tables, titles
<1>4. /\ \A q \in Requests : q # r => pc'[q] = pc[q]
      /\ pc'[r] \in {"existing", "onboarded", "member"}
  BY DEF Arrive, Entries, MediaInv, TypeOK
<1>5. OneAtWork'
  BY <1>2, <1>4 DEF OneAtWork, InFlight, Running
<1>6. \A q \in Requests : pc'[q] \notin {"owned", "write", "view", "tell"}
  BY <1>2, <1>4 DEF Running
<1> QED
  BY <1>3, <1>5, <1>6 DEF NamePoint

\* A step of a call neither counts as one that came meanwhile nor as one that died.
LEMMA StepBounds ==
  ASSUME MediaInv, NEW r \in Requests, Step(r)
  PROVE  UNCHANGED <<overlaps, failures>>
<1>1. CASE Write(r)
  <2>1. op[r].kind \in {"send", "onboard", "profile", "found", "update"}
    BY <1>1 DEF Write, MediaInv, CallOK, KindPoint
  <2> QED
    BY <1>1, <2>1 DEF Write, StoreMessage, StoreProfile, CreateGroup, UpdateRoom, Answered, Calm
<1>2. CASE CreateUploadUrl(r) \/ MarkReady(r) \/ ReadView(r) \/ TellName(r)
  BY <1>2 DEF CreateUploadUrl, MarkReady, ReadView, TellName, Goes, Ends, Answered, Calm
<1> QED
  BY <1>1, <1>2, ReadStep DEF Ends, Goes, Answered, Calm

\* No call comes to tell a name but from the write, or from the view of a new room; and an update that goes on to its write has
\* the name it read.
LEMMA NameRead ==
  ASSUME MediaInv, NEW r \in Requests, Step(r), ~Write(r), ~ReadView(r), ~TellName(r),
         NamePoint(r)
  PROVE  {pc[r], pc'[r]} \cap {"view", "tell"} = {} /\ NamePoint(r)'
<1>1. pc[r] \notin {"view", "tell"}
  BY DEF Step, Guard, CreateUploadUrl, ReadRow, Head, MarkReady, CanAccess, Asks, Share,
     ReadProfile, Vet, AssertMember, ReadExisting, RequireGroup, AssertOwned
<1>2. ASSUME NEW o, Answered(r, o) PROVE pc'[r] \notin {"view", "tell"} /\ NamePoint(r)'
  <2>1. pc'[r] = "done"
    BY <1>2 DEF Answered, MediaInv, TypeOK
  <2> QED
    BY <2>1 DEF NamePoint
<1>3. name' = name
  BY WritesOnly
<1>4. CASE CreateUploadUrl(r) \/ MarkReady(r)
  BY <1>1, <1>2, <1>4 DEF CreateUploadUrl, MarkReady, Ends
<1>5. CASE \E o : Ends(r, o)
  BY <1>1, <1>2, <1>5 DEF Ends
<1>6. ASSUME NEW p \in Points \ {"idle", "done", "view", "tell"}, Goes(r, p),
             p \in {"owned", "write"} /\ op[r].kind = "update" =>
               \/ pc[r] = "owned" /\ UNCHANGED saw
               \/ saw' = [saw EXCEPT ![r] = name[op[r].room]]
      PROVE  pc'[r] \notin {"view", "tell"} /\ NamePoint(r)'
  <2>1. pc'[r] = p /\ op'[r] = op[r]
    BY <1>6, GoesFacts
  <2>2. saw \in [Requests -> Names \cup Sizes \cup Lengths \cup {None}]
    BY DEF MediaInv, TypeOK
  <2>3. ASSUME p \in {"owned", "write"}, op[r].kind = "update" PROVE saw'[r] = name[op[r].room]
    BY <1>6, <2>2, <2>3 DEF NamePoint
  <2> QED
    BY <1>3, <1>6, <2>1, <2>3 DEF NamePoint
<1> QED
  BY <1>1, <1>4, <1>5, <1>6, ReadStep

\* The one call that is at work goes on.
LEMMA NamesStep ==
  ASSUME MediaInv, NamesInv, NEW r \in Requests, Step(r)
  PROVE  NamesInv'
<1>1. /\ UNCHANGED <<overlaps, failures>>
      /\ Running(r) /\ CallOK(r) /\ op[r].kind \in Kinds /\ op[r].user # Nobody
  <2>1. Running(r) /\ CallOK(r) /\ op[r].kind \in Kinds /\ op[r].user # Nobody
    BY StepRuns, CallFacts DEF MediaInv
  <2>2. UNCHANGED <<overlaps, failures>>
    BY StepBounds
  <2> QED
    BY <2>1, <2>2
<1> SUFFICES ASSUME overlaps = 0, failures = 0
             PROVE  /\ OneAtWork'
                    /\ \A q \in Requests : NamePoint(q)' /\ (pc'[q] \in {"view", "tell"} => Telling(q)')
                    /\ named' = name' \/ \E q \in Requests : Telling(q)'
  BY <1>1 DEF NamesInv
<1>2. /\ \A q \in Requests : Running(q) => q = r
      /\ NamePoint(r) /\ (pc[r] \in {"view", "tell"} => Telling(r))
      /\ named = name \/ Telling(r)
  BY <1>1 DEF NamesInv, OneAtWork, InFlight, Telling, Running
<1>3. \A q \in Requests \ {r} : ~Running(q) /\ pc'[q] = pc[q]
  BY <1>2, StepShape DEF MediaInv, TypeOK
<1>4. OneAtWork'
  BY <1>3 DEF OneAtWork, InFlight, Running
<1>5. \A q \in Requests \ {r} : NamePoint(q)' /\ pc'[q] \notin {"view", "tell"}
  BY <1>3 DEF NamePoint, Running
<1> SUFFICES /\ NamePoint(r)' /\ (pc'[r] \in {"view", "tell"} => Telling(r)')
             /\ named' = name' \/ Telling(r)'
  BY <1>4, <1>5
<1>6. CASE Write(r)
  <2>1. pc[r] = "write" /\ named = name /\ op[r].kind \in {"send", "onboard", "profile", "found", "update"}
    BY <1>1, <1>2, <1>6 DEF Write, Telling, CallOK, KindPoint
  <2>2. CASE op[r].kind = "update"
    <3>1. UpdateRoom(r) /\ saw[r] = name[op[r].room] /\ op[r].room \in Rooms
      BY <1>1, <1>2, <1>6, <2>1, <2>2, CallFacts DEF Write, NamePoint
    <3>2. name \in [Rooms -> Names \cup {None}]
      BY DEF MediaInv, TypeOK
    <3>3. PICK title \in Names \cup {Keep} :
            /\ name' = IF title = Keep THEN name ELSE [name EXCEPT ![op[r].room] = title]
            /\ IF title # Keep /\ title # saw[r]
                 THEN /\ pc' = [pc EXCEPT ![r] = "tell"] /\ saw' = [saw EXCEPT ![r] = title]
                      /\ op' = op
                 ELSE Answered(r, "ok")
            /\ named' = named
      BY <3>1 DEF UpdateRoom, Renamed
    <3>4. CASE title # Keep /\ title # saw[r]
      <4>1. pc'[r] = "tell" /\ saw'[r] = title /\ op'[r] = op[r]
        BY <3>3, <3>4 DEF MediaInv, TypeOK
      <4>2. name' = [named' EXCEPT ![op'[r].room] = saw'[r]]
        BY <2>1, <3>3, <3>4, <4>1
      <4> QED
        BY <4>1, <4>2 DEF Telling, NamePoint
    <3>5. CASE ~(title # Keep /\ title # saw[r])
      <4>1. name' = name /\ pc'[r] = "done"
        BY <3>1, <3>2, <3>3, <3>5 DEF Answered, MediaInv, TypeOK
      <4> QED
        BY <2>1, <3>3, <4>1 DEF NamePoint
    <3> QED
      BY <3>4, <3>5
  <2>3. CASE op[r].kind = "found"
    <3>1. PICK g \in Rooms, title \in Names :
            /\ name' = [name EXCEPT ![g] = title] /\ named' = named
            /\ op' = [op EXCEPT ![r] = [op[r] EXCEPT !.room = g]]
            /\ pc' = [pc EXCEPT ![r] = "view"]
      BY <1>6, <2>3 DEF Write, CreateGroup
    <3>2. pc'[r] = "view" /\ op'[r].room = g
      <4>1. op'[r] = [op[r] EXCEPT !.room = g] /\ pc'[r] = "view"
        BY <3>1 DEF MediaInv, TypeOK
      <4>2. op[r] \in [kind : Kinds, user : Users, file : Files \cup {None, Keep},
                       room : Rooms \cup {None}, other : Users]
        BY <1>1, CallFacts DEF Op
      <4> QED
        BY <4>1, <4>2
    <3>3. name' = [named' EXCEPT ![g] = name'[g]]
      BY <2>1, <3>1 DEF MediaInv, TypeOK
    <3> QED
      BY <3>2, <3>3 DEF Telling, NamePoint
  <2>4. CASE op[r].kind \notin {"update", "found"}
    <3>1. named' = name' /\ Answered(r, "ok")
      BY <1>6, <2>1, <2>4 DEF Write, StoreMessage, StoreProfile, titles
    <3>2. pc'[r] = "done"
      BY <3>1 DEF Answered, MediaInv, TypeOK
    <3> QED
      BY <3>1, <3>2 DEF NamePoint
  <2> QED
    BY <2>2, <2>3, <2>4
<1>7. CASE TellName(r)
  <2>1. named' = name /\ name' = name /\ pc'[r] = "done"
    BY <1>2, <1>7 DEF TellName, Telling, Answered, MediaInv, TypeOK
  <2> QED
    BY <2>1 DEF NamePoint
<1>8. CASE ReadView(r)
  <2>1. /\ name = [named EXCEPT ![op[r].room] = name[op[r].room]]
        /\ name' = name /\ named' = named
    BY <1>2, <1>8, WritesOnly DEF ReadView, Telling, Write, TellName, Goes, Tables, titles
  <2>2. pc'[r] = "tell" /\ op'[r] = op[r] /\ saw'[r] = name[op[r].room]
    BY <1>8, GoesFacts DEF ReadView, MediaInv, TypeOK
  <2> QED
    BY <2>1, <2>2 DEF Telling, NamePoint
<1>9. CASE ~Write(r) /\ ~ReadView(r) /\ ~TellName(r)
  <2>1. UNCHANGED titles
    BY <1>9, WritesOnly
  <2>2. {pc[r], pc'[r]} \cap {"view", "tell"} = {} /\ NamePoint(r)'
    BY <1>2, <1>9, NameRead
  <2>3. named' = name'
    BY <1>2, <2>1, <2>2 DEF Telling, titles
  <2> QED
    BY <2>2, <2>3
<1> QED
  BY <1>6, <1>7, <1>8, <1>9

LEMMA NamesNext == MediaInv /\ NamesInv /\ [Next]_vars => NamesInv'
<1> SUFFICES ASSUME MediaInv, NamesInv, [Next]_vars PROVE NamesInv'
  OBVIOUS
<1>1. ASSUME NEW r \in Requests, Fail(r) PROVE NamesInv'
  <2>1. failures' # 0
    BY <1>1 DEF Fail, MediaInv, TypeOK
  <2> QED
    BY <2>1 DEF NamesInv
<1>2. CASE UserSteps \/ UNCHANGED vars
  <2>1. UNCHANGED <<pc, op, saw, titles, overlaps, failures>>
    BY <1>2 DEF UserSteps, Put, Enter, Leave, Unsend, Does, vars, Tables
  <2> QED
    BY <2>1, NamesStay
<1> QED
  BY <1>1, <1>2, NamesArrive, NamesStep DEF Next, Wait

\* After updates of rooms that came one after the other, none of which died, the last name the
\* members were told of (ROOM_RENAMED, room:created) is the room's.
THEOREM NamesAreTold == Spec => []NameIsTold
<1>1. MediaInv /\ NamesInv => NameIsTold
  BY DEF NamesInv, NameIsTold, Telling, InFlight, Running
<1>2. Init => MediaInv /\ NamesInv
  BY InvInit, NamesInit
<1>3. MediaInv /\ NamesInv /\ [Next]_vars => (MediaInv /\ NamesInv)'
  BY InvNext, NamesNext
<1> QED
  BY <1>1, <1>2, <1>3, PTL DEF Spec
=============================================================================
