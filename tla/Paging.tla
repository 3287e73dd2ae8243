------------------------------- MODULE Paging -------------------------------
(***************************************************************************)
(* A client scrolls down a list page by page while the list changes:       *)
(* listMessages, by seq, and listRooms, by lastMessageAt (src/messages,    *)
(* src/rooms).  Both read limit + 1 rows below a cursor, latest first,     *)
(* return limit of them, and give the key of the last as the next cursor   *)
(* when there was one row more.                                            *)
(***************************************************************************)
EXTENDS Naturals, FiniteSets

CONSTANTS
  Rows,    \* messages of a room, or rooms of a user
  Limit,   \* the page size
  MaxKey,  \* bound on seqs and times
  Lag      \* bound on the time from the insert of a message to the update of its room

ASSUME PagingAssumption ==
  /\ Limit \in Nat \ {0}
  /\ MaxKey \in Nat
  /\ Lag \in Nat
  /\ IsFiniteSet(Rows)

VARIABLES
  listing,  \* "messages" or "rooms"
  present,  \* the rows there are
  key,      \* key[i]: the seq of a message, the lastMessageAt of a room; 0 for null
  now,      \* the clock lastMessageAt is set from
  scroll,   \* "first", "next" or "end"
  cursor,   \* the cursor of the next page
  listed,      \* the rows the client has
  cursors,  \* the cursors it was given (history)
  twice,    \* the rows it got more than once (history)
  start,    \* the rows there were at its first page (history)
  moved,    \* the rooms refreshed or left since (history)
  back      \* the rooms given an earlier time since (history)

rows == <<present, key, now>>
client == <<scroll, cursor, listed>>
scrollHistory == <<cursors, twice, start, moved, back>>
scrollVars == <<listing, rows, client, scrollHistory>>

Keys == 0..MaxKey

\* seq is unique in its room; a time is not, and a room without messages has none.
UniqueSeqs(k) == \A i, j \in present : k[i] # 0 /\ (k[i] = k[j] => i = j)

ScrollInit ==
  /\ listing \in {"messages", "rooms"}
  /\ present \in SUBSET Rows
  /\ key \in [Rows -> Keys]
  /\ \A i \in Rows \ present : key[i] = 0
  /\ listing = "messages" => UniqueSeqs(key)
  /\ now \in Keys
  /\ listing = "messages" => now = 0
  /\ listing = "rooms" => \A i \in Rows : key[i] <= now
  /\ scroll = "first"
  /\ cursor = 0
  /\ listed = {}
  /\ twice = {}
  /\ start = {}
  /\ moved = {}
  /\ back = {}
  /\ cursors = {}

-----------------------------------------------------------------------------
(* The list changes.                                                       *)

\* The unique index on (roomId, seq).
SeqFree(s) == \A j \in present : key[j] # s

\* A message is stored: its seq was drawn before, and may be lower than others'.
StoreMessage(i) ==
  /\ listing = "messages"
  /\ i \notin present
  /\ \E s \in Keys \ {0} : SeqFree(s) /\ key' = [key EXCEPT ![i] = s]
  /\ present' = present \cup {i}
  /\ UNCHANGED <<listing, now, client, scrollHistory>>

\* The user becomes a member of a room; createDirect makes one without a message.
EnterRoom(i) ==
  /\ listing = "rooms"
  /\ i \notin present
  /\ present' = present \cup {i}
  /\ UNCHANGED <<listing, key, now, client, scrollHistory>>

LeaveRoom(i) ==
  /\ listing = "rooms"
  /\ i \in present
  /\ present' = present \ {i}
  /\ moved' = moved \cup {i}
  /\ UNCHANGED <<listing, key, now, client, cursors, twice, start, back>>

\* createMessage refreshes a room, of the user's or not, with the time of its message, which
\* another one's may have passed meanwhile.
TouchRoom(i) ==
  /\ listing = "rooms"
  /\ now' \in {now, now + 1} \cap Keys
  /\ \E t \in Keys \ {0} : t <= now' /\ t + Lag >= now' /\ key' = [key EXCEPT ![i] = t]
  /\ moved' = moved \cup {i}
  /\ back' = IF key'[i] < key[i] THEN back \cup {i} ELSE back
  /\ UNCHANGED <<listing, present, client, cursors, twice, start>>

-----------------------------------------------------------------------------
(* A page.                                                                 *)

\* Mutant of Below: the cursor's own row is in the next page too.
BelowOrAt == {i \in present : key[i] # 0 /\ key[i] <= cursor}

\* WHERE key < cursor: null is not below anything.
Below == {i \in present : key[i] # 0 /\ key[i] < cursor}

Candidates == IF scroll = "first" THEN present ELSE Below

\* Mutant of Latest: no ORDER BY.
LatestAny(P, C) == TRUE

\* ORDER BY key DESC NULLS LAST: rows with one key come in any order.
Latest(P, C) == \A i \in P, j \in C \ P : key[j] <= key[i]
PageSize(C) == IF Cardinality(C) <= Limit THEN Cardinality(C) ELSE Limit
Pages(C) == {P \in SUBSET C : Cardinality(P) = PageSize(C) /\ Latest(P, C)}
Oldest(P) == {k \in {key[i] : i \in P} : \A j \in P : k <= key[j]}

\* Mutant of HasMore: the page is read without the row beyond its limit.
HasMoreNever(C) == FALSE
HasMore(C) == Cardinality(C) > Limit

\* nextCursor: null on the last page, and when the last row of a page has no key.
NextCursor(P, C) == IF HasMore(C) THEN cursor' \in Oldest(P) ELSE cursor' = 0

Load ==
  /\ scroll # "end"
  /\ \E P \in Pages(Candidates) :
       /\ NextCursor(P, Candidates)
       /\ listed' = listed \cup P
       /\ twice' = twice \cup (listed \cap P)
  /\ scroll' = IF cursor' = 0 THEN "end" ELSE "next"
  /\ start' = IF scroll = "first" THEN present ELSE start
  /\ moved' = IF scroll = "first" THEN {} ELSE moved
  /\ back' = IF scroll = "first" THEN {} ELSE back
  /\ cursors' = IF cursor' = 0 THEN cursors ELSE cursors \cup {cursor'}
  /\ UNCHANGED <<listing, rows>>

\* The client may stop at any page, and stops at the last.
Rest == scroll = "end" /\ UNCHANGED scrollVars

ScrollNext ==
  \/ \E i \in Rows : StoreMessage(i) \/ EnterRoom(i) \/ LeaveRoom(i) \/ TouchRoom(i)
  \/ Load
  \/ Rest

ScrollSpec == ScrollInit /\ [][ScrollNext]_scrollVars

-----------------------------------------------------------------------------
(* Properties.                                                             *)

\* The types; the seqs of a room's messages are unique, and no room is of the future.
ScrollTypeOK ==
  /\ listing \in {"messages", "rooms"}
  /\ present \subseteq Rows
  /\ key \in [Rows -> Keys]
  /\ now \in Keys
  /\ scroll \in {"first", "next", "end"}
  /\ cursor \in Keys
  /\ cursors \subseteq Keys
  /\ {listed, twice, start, moved, back} \subseteq SUBSET Rows
  /\ listing = "messages" => UniqueSeqs(key)
  /\ listing = "rooms" => \A i \in Rows : key[i] <= now

\* README: nextCursor is the oldest seq of the page and is passed on as it is.  A client that
\* scrolls to the end has every message there was at its first page, whatever messages are
\* stored meanwhile, above or below its cursor.
HistoryIsComplete == listing = "messages" /\ scroll = "end" => start \subseteq listed

\* No scroll shows a message twice, nor a room, however rooms move up meanwhile: only one
\* whose time an older message's has overwritten may come again.
NoneTwice == twice \subseteq back

\* Which rooms a scroll to the end may miss: those that moved meanwhile, those that share
\* their lastMessageAt with a cursor, and those that have none.
RoomsAreListed ==
  listing = "rooms" /\ scroll = "end" =>
    \A i \in start \ (listed \cup moved) : key[i] = 0 \/ key[i] \in cursors

=============================================================================
