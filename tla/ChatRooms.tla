------------------------------ MODULE ChatRooms ------------------------------
(***************************************************************************)
(* DIRECT, OFFER and GROUP chat rooms and their participants               *)
(* (src/src/chats/chat-rooms.service.ts, chat-rooms.controller.ts and the  *)
(* send handler of chat.gateway.ts).  LOAD rooms are in LoadChats; what a  *)
(* message does to counters and receipts is in ChatMessages.               *)
(*                                                                         *)
(* One record of req per request in flight; an action is what a request    *)
(* does between two awaits.  Rooms are numbered in the order in which they *)
(* are created.  mix, chosen at the start, says which requests come in,    *)
(* from and about whom, and how many rooms are created.                    *)
(***************************************************************************)
EXTENDS Naturals, FiniteSets

CONSTANTS
  Users,
  Active,      \* the users whose status is ACTIVE
  MaxRooms,    \* bounds the rooms ever created
  Reqs,        \* slots for requests in flight
  Mixes,       \* the mixes of requests looked at
  NULL

ASSUME UsersAssumption == Active \subseteq Users /\ NULL \notin Users
ASSUME RoomsAssumption == MaxRooms \in Nat /\ NULL \notin Nat
ASSUME FiniteAssumption == IsFiniteSet(Users) /\ IsFiniteSet(Reqs)
ASSUME MixesAssumption ==
  \A m \in Mixes : m.users \subseteq Users /\ m.rooms \in 0..MaxRooms

VARIABLES
  room,     \* chat_rooms
  member,   \* chat_room_participants
  created,  \* how many rooms have been created
  req,      \* requests in flight
  torn,     \* rooms that a deletion died on, or that have lost a member
  mix       \* the kinds of requests, their users, the number of rooms

vars == <<room, member, created, req, torn, mix>>

-----------------------------------------------------------------------------
Rooms == 1..MaxRooms

Stages ==
  {"idle", "find", "txFind", "insert", "reopenTx", "reopen", "reload", "bulk",
   "offer", "unhide", "hide", "readAll", "drop", "leave", "add", "remove",
   "mute", "pin", "muteRooms", "archive"}

RoomRecord ==
  [type : {"DIRECT", "OFFER", "GROUP"}, adminId : Users \cup {NULL},
   isArchived : BOOLEAN]

MemberRecord == [isHidden : BOOLEAN, mute : BOOLEAN, pin : BOOLEAN]

ASSUME RecordsAssumption == NULL \notin RoomRecord \cup MemberRecord

\* left: users still to be dealt with; found: users whose row was read as
\* hidden; drivers and rooms: what a bulk request has still to open and to
\* write to; flag: the value to be written; moved: users whose isHidden others
\* have set since the rows were read.
ReqRecord ==
  [at : Stages, by : Users \cup {NULL}, with : Users \cup {NULL},
   room : Rooms \cup {NULL}, left : SUBSET Users, found : SUBSET Users,
   drivers : SUBSET Users, rooms : SUBSET Rooms, bulk : BOOLEAN,
   says : BOOLEAN, flag : BOOLEAN, moved : SUBSET Users]

Idle == [at |-> "idle", by |-> NULL, with |-> NULL, room |-> NULL, left |-> {},
         found |-> {}, drivers |-> {}, rooms |-> {}, bulk |-> FALSE,
         says |-> FALSE, flag |-> FALSE, moved |-> {}]

Row == [isHidden |-> FALSE, mute |-> FALSE, pin |-> FALSE]

Live(r) == r \in Rooms /\ room[r] # NULL
Members(r) == {u \in Users : member[r][u] # NULL}
HiddenBy(r) == {u \in Members(r) : member[r][u].isHidden}
Private(r) == room[r].type \in {"DIRECT", "OFFER"}
AllHidden(r) == Members(r) = HiddenBy(r)

\* getUserChatRooms()
Listed(u) == {r \in Rooms : /\ Live(r) /\ ~room[r].isArchived
                            /\ u \in Members(r) \ HiddenBy(r)}

\* directChatPairWhere(): exactly this pair.
Pair(u, v) == {r \in Rooms : /\ Live(r) /\ room[r].type = "DIRECT"
                             /\ Members(r) = {u, v}}

Oldest(S) == IF S = {} THEN NULL ELSE CHOOSE r \in S : \A s \in S : r <= s

\* findDirectChat()
FindDirect(u, v) == Oldest(Pair(u, v))

-----------------------------------------------------------------------------
Enter(p, kind, r) ==
  /\ req[p].at = "idle"
  /\ kind \in mix.kinds
  /\ req' = [req EXCEPT ![p] = r]

Becomes(p, r) == req' = [req EXCEPT ![p] = r]

Goto(p, stage) == Becomes(p, [req[p] EXCEPT !.at = stage])

\* What is left of request p when it has dealt with one chat; S is what it has
\* to write to.
Rest(p, S) ==
  LET todo == IF req[p].says THEN req[p].rooms \cup S ELSE {}
  IN IF req[p].bulk /\ (req[p].drivers # {} \/ todo # {})
       THEN [Idle EXCEPT !.at = "bulk", !.by = req[p].by, !.bulk = TRUE,
                         !.says = req[p].says, !.drivers = req[p].drivers,
                         !.rooms = todo]
       ELSE Idle

\* Request p becomes s; it has set isHidden of the users S in room r.
Moves(p, s, r, S) ==
  req' = [q \in Reqs |->
            IF q = p THEN s
            ELSE IF req[q].room = r /\ req[q].at \in {"reload", "unhide", "drop"}
              THEN [req[q] EXCEPT !.moved = @ \cup S]
            ELSE req[q]]

SetHidden(r, S, b) ==
  member' = [member EXCEPT ![r] = [u \in Users |->
     IF u \in S \cap Members(r) THEN [@[u] EXCEPT !.isHidden = b] ELSE @[u]]]

\* A room with its participants, in one transaction.
NewRoom(type, admin, S) ==
  /\ created < mix.rooms
  /\ created' = created + 1
  /\ room' = [room EXCEPT ![created + 1] =
                [type |-> type, adminId |-> admin, isArchived |-> FALSE]]
  /\ member' = [member EXCEPT ![created + 1] =
                  [u \in Users |-> IF u \in S THEN Row ELSE NULL]]

\* The participants go with their room.
DeleteRoom(r) ==
  /\ room' = [room EXCEPT ![r] = NULL]
  /\ member' = [member EXCEPT ![r] = [u \in Users |-> NULL]]
  /\ torn' = torn \ {r}

-----------------------------------------------------------------------------
(* createChatRoom(), createBulkDirectChats(), createOfferChatsForNewOffer() *)

OpenBegin(p, u, v) ==
  /\ u # v /\ v \in Active
  /\ Enter(p, "open", [Idle EXCEPT !.at = "find", !.by = u, !.with = v])
  /\ UNCHANGED <<room, member, created, torn, mix>>

\* Before the transaction.
OpenFind(p) ==
  LET r == FindDirect(req[p].by, req[p].with)
  IN /\ req[p].at = "find"
     /\ Becomes(p, IF r = NULL THEN [req[p] EXCEPT !.at = "txFind"]
                   ELSE [req[p] EXCEPT !.at = "reopen", !.room = r])
     /\ UNCHANGED <<room, member, created, torn, mix>>

\* Again in the transaction, which sees what others have committed.
OpenTxFind(p) ==
  LET r == FindDirect(req[p].by, req[p].with)
  IN /\ req[p].at = "txFind"
     /\ Becomes(p, IF r = NULL THEN [req[p] EXCEPT !.at = "insert"]
                   ELSE [req[p] EXCEPT !.at = "reopenTx", !.room = r])
     /\ UNCHANGED <<room, member, created, torn, mix>>

OpenInsert(p) ==
  /\ req[p].at = "insert"
  /\ NewRoom("DIRECT", NULL, {req[p].by, req[p].with})
  /\ Becomes(p, Rest(p, {created + 1}))
  /\ UNCHANGED <<torn, mix>>

\* reopenDirectChat() in the transaction commits both statements together.
OpenReopenTx(p) ==
  LET r == req[p].room
  IN /\ req[p].at = "reopenTx"
     /\ SetHidden(r, Users, FALSE)
     /\ Moves(p, Rest(p, IF Live(r) THEN {r} ELSE {}), r, Users)
     /\ UNCHANGED <<room, created, torn, mix>>

OpenReopenOwn(p) ==
  LET r == req[p].room
  IN /\ req[p].at = "reopen"
     /\ SetHidden(r, {req[p].by}, FALSE)
     /\ Moves(p, [req[p] EXCEPT !.at = "reload", !.moved = {}], r, {req[p].by})
     /\ UNCHANGED <<room, created, torn, mix>>

\* reopenDirectChat() outside of it: updateMany, then findUnique.
OpenReopen(p) ==
  LET r == req[p].room
  IN /\ req[p].at = "reopen"
     /\ SetHidden(r, Users, FALSE)
     /\ Moves(p, [req[p] EXCEPT !.at = "reload", !.moved = {}], r, Users)
     /\ UNCHANGED <<room, created, torn, mix>>

OpenReload(p) ==
  /\ req[p].at = "reload"
  /\ Becomes(p, Rest(p, IF Live(req[p].room) THEN {req[p].room} ELSE {}))
  /\ UNCHANGED <<room, member, created, torn, mix>>

BulkBegin(p, u, S, says) ==
  /\ S # {} /\ u \notin S
  /\ Enter(p, "bulk", [Idle EXCEPT !.at = "bulk", !.by = u, !.drivers = S,
                                   !.bulk = TRUE, !.says = says])
  /\ UNCHANGED <<room, member, created, torn, mix>>

\* One driver of a bulk request.  A chat that exists is not reopened.
BulkNext(p, v) ==
  LET r == FindDirect(req[p].by, v)
      s == [req[p] EXCEPT !.drivers = @ \ {v}]
  IN /\ req[p].at = "bulk" /\ v \in req[p].drivers
     /\ Becomes(p, IF v \in Active /\ r = NULL
                     THEN [s EXCEPT !.at = "find", !.with = v]
                   ELSE IF v \in Active /\ req[p].says
                     THEN [s EXCEPT !.rooms = @ \cup {r}]
                   ELSE IF s.drivers = {} /\ s.rooms = {} THEN Idle ELSE s)
     /\ UNCHANGED <<room, member, created, torn, mix>>

\* GROUP rooms; their creator administers them.
CreateGroup(p, u, S) ==
  /\ "group" \in mix.kinds /\ req[p].at = "idle"
  /\ u \in S /\ Cardinality(S) >= 2
  /\ NewRoom("GROUP", u, S)
  /\ UNCHANGED <<req, torn, mix>>

\* One OFFER chat for each driver of a new offer; never looked for before.
OfferBegin(p, u, S) ==
  /\ S # {} /\ u \notin S
  /\ Enter(p, "offer", [Idle EXCEPT !.at = "offer", !.by = u, !.drivers = S])
  /\ UNCHANGED <<room, member, created, torn, mix>>

OfferNext(p, v) ==
  LET left == req[p].drivers \ {v}
  IN /\ req[p].at = "offer" /\ v \in req[p].drivers
     /\ NewRoom("OFFER", NULL, {req[p].by, v})
     /\ Becomes(p, IF left = {} THEN Idle ELSE [req[p] EXCEPT !.drivers = left])
     /\ UNCHANGED <<torn, mix>>

-----------------------------------------------------------------------------
(* handleSendMessage(), sendDirectChatMessage(), unhideChatRoom()          *)

\* getChatRoomOutboundContext()
Context(p, u, r, base) ==
  [base EXCEPT !.at = "unhide", !.by = u, !.room = r,
               !.left = IF Private(r) THEN Members(r) ELSE {}]

SendBegin(p, u, r) ==
  /\ Live(r) /\ u \in Members(r)
  /\ Enter(p, "send", Context(p, u, r, Idle))
  /\ UNCHANGED <<room, member, created, torn, mix>>

\* A bulk request has opened its chats and writes to them.
BulkSend(p, r) ==
  LET s == [req[p] EXCEPT !.rooms = @ \ {r}]
  IN /\ req[p].at = "bulk" /\ req[p].drivers = {} /\ r \in req[p].rooms
     /\ Becomes(p, IF Live(r) /\ req[p].by \in Members(r)
                     THEN Context(p, req[p].by, r, s)
                   ELSE IF s.rooms = {} THEN Idle ELSE s)
     /\ UNCHANGED <<room, member, created, torn, mix>>

UnhideRead(p, v) ==
  /\ req[p].at = "unhide" /\ v \in req[p].left
  /\ Becomes(p, [req[p] EXCEPT
       !.left = @ \ {v},
       !.found = IF v \in HiddenBy(req[p].room) THEN @ \cup {v} ELSE @])
  /\ UNCHANGED <<room, member, created, torn, mix>>

UnhideWrite(p, v) ==
  LET r == req[p].room
  IN /\ req[p].at = "unhide" /\ v \in req[p].found
     /\ v \in Members(r)
     /\ SetHidden(r, {v}, FALSE)
     /\ Moves(p, [req[p] EXCEPT !.found = @ \ {v}], r, {v})
     /\ UNCHANGED <<room, created, torn, mix>>

\* sendMessage()
Post(p) ==
  /\ req[p].at = "unhide" /\ req[p].left = {} /\ req[p].found = {}
  /\ Live(req[p].room) /\ req[p].by \in Members(req[p].room)
  /\ Becomes(p, Rest(p, {}))
  /\ UNCHANGED <<room, member, created, torn, mix>>

-----------------------------------------------------------------------------
(* deleteChatRoom()                                                        *)

DeleteBegin(p, u, r) ==
  /\ Live(r) /\ u \in Members(r)
  /\ Enter(p, "delete", [Idle EXCEPT !.by = u, !.room = r,
       !.at = IF Private(r) THEN "hide"
              ELSE IF room[r].adminId = u THEN "drop" ELSE "leave"])
  /\ UNCHANGED <<room, member, created, torn, mix>>

DeleteHide(p) ==
  LET r == req[p].room
  IN /\ req[p].at = "hide" /\ req[p].by \in Members(r)
     /\ SetHidden(r, {req[p].by}, TRUE)
     /\ Moves(p, [req[p] EXCEPT !.at = "readAll"], r, {req[p].by})
     /\ UNCHANGED <<room, created, torn, mix>>

DeleteReadDirect(p) ==
  /\ req[p].at = "readAll"
  /\ Becomes(p, IF AllHidden(req[p].room) /\ room[req[p].room].type = "DIRECT"
                  THEN [req[p] EXCEPT !.at = "drop", !.moved = {}] ELSE Idle)
  /\ UNCHANGED <<room, member, created, torn, mix>>

DeleteReadAll(p) ==
  /\ req[p].at = "readAll"
  /\ Becomes(p, IF AllHidden(req[p].room)
                  THEN [req[p] EXCEPT !.at = "drop", !.moved = {}] ELSE Idle)
  /\ UNCHANGED <<room, member, created, torn, mix>>

DeleteDrop(p) ==
  /\ req[p].at = "drop" /\ Live(req[p].room)
  /\ DeleteRoom(req[p].room)
  /\ Becomes(p, Idle)
  /\ UNCHANGED <<created, mix>>

\* A member of a GROUP leaves.
DeleteLeave(p) ==
  LET r == req[p].room
  IN /\ req[p].at = "leave" /\ req[p].by \in Members(r)
     /\ member' = [member EXCEPT ![r][req[p].by] = NULL]
     /\ Becomes(p, Idle)
     /\ UNCHANGED <<room, created, torn, mix>>

-----------------------------------------------------------------------------
(* addParticipants(), removeParticipant()                                  *)

AddBegin(p, u, r, S) ==
  /\ S # {} /\ Live(r) /\ u \in Members(r)
  /\ Enter(p, "add", [Idle EXCEPT !.at = "add", !.by = u, !.room = r, !.left = S])
  /\ UNCHANGED <<room, member, created, torn, mix>>

\* The rows are created together but not in a transaction: one that exists, or
\* whose room is gone, fails and the others stay.
AddRow(p, v) ==
  LET r == req[p].room
      s == IF req[p].left = {v} THEN Idle ELSE [req[p] EXCEPT !.left = @ \ {v}]
  IN /\ req[p].at = "add" /\ v \in req[p].left
     /\ IF Live(r) /\ v \notin Members(r)
          THEN /\ member' = [member EXCEPT ![r][v] = Row]
               /\ Moves(p, s, r, {v})
          ELSE Becomes(p, s) /\ UNCHANGED member
     /\ UNCHANGED <<room, created, torn, mix>>

RemoveBegin(p, u, r, v) ==
  /\ Live(r) /\ u \in Members(r)
  /\ Enter(p, "remove", [Idle EXCEPT !.at = "remove", !.by = u, !.room = r,
                                     !.with = v])
  /\ UNCHANGED <<room, member, created, torn, mix>>

RemoveRow(p) ==
  LET r == req[p].room
  IN /\ req[p].at = "remove" /\ req[p].with \in Members(r)
     /\ member' = [member EXCEPT ![r][req[p].with] = NULL]
     /\ torn' = IF Private(r) THEN torn \cup {r} ELSE torn
     /\ Becomes(p, Idle)
     /\ UNCHANGED <<room, created, mix>>

-----------------------------------------------------------------------------
(* Settings of a room.                                                     *)

\* toggleMuteChatRoom(), togglePinChatRoom(): the value is read, then written.
ToggleBegin(p, kind, u, r) ==
  /\ Live(r) /\ u \in Members(r)
  /\ Enter(p, kind, [Idle EXCEPT !.at = kind, !.by = u, !.room = r,
       !.flag = IF kind = "mute" THEN ~member[r][u].mute ELSE ~member[r][u].pin])
  /\ UNCHANGED <<room, member, created, torn, mix>>

ToggleWrite(p) ==
  LET r == req[p].room
      u == req[p].by
  IN /\ req[p].at \in {"mute", "pin"} /\ u \in Members(r)
     /\ member' = [member EXCEPT ![r][u] =
          IF req[p].at = "mute" THEN [@ EXCEPT !.mute = req[p].flag]
                                ELSE [@ EXCEPT !.pin = req[p].flag]]
     /\ Becomes(p, Idle)
     /\ UNCHANGED <<room, created, torn, mix>>

\* muteChatRooms(): the rooms of the list that change.
ToMute(u, S, b) == {r \in S : u \in Members(r) /\ member[r][u].mute = ~b}

MuteRoomsBegin(p, u, S, b) ==
  /\ ToMute(u, S, b) # {}
  /\ Enter(p, "muteRooms", [Idle EXCEPT !.at = "muteRooms", !.by = u,
                                        !.rooms = S, !.flag = b])
  /\ UNCHANGED <<room, member, created, torn, mix>>

MuteRoomsWrite(p) ==
  LET u == req[p].by
  IN /\ req[p].at = "muteRooms"
     /\ member' = [r \in Rooms |->
          IF r \in ToMute(u, req[p].rooms, req[p].flag)
            THEN [member[r] EXCEPT ![u].mute = req[p].flag] ELSE member[r]]
     /\ Becomes(p, Idle)
     /\ UNCHANGED <<room, created, torn, mix>>

\* archiveChatRoom(), updateChatRoom()
ArchiveBegin(p, u, r, b) ==
  /\ Live(r) /\ u \in Members(r)
  /\ Enter(p, "archive", [Idle EXCEPT !.at = "archive", !.by = u, !.room = r,
                                      !.flag = b])
  /\ UNCHANGED <<room, member, created, torn, mix>>

ArchiveWrite(p) ==
  /\ req[p].at = "archive" /\ Live(req[p].room)
  /\ room' = [room EXCEPT ![req[p].room].isArchived = req[p].flag]
  /\ Becomes(p, Idle)
  /\ UNCHANGED <<member, created, torn, mix>>

-----------------------------------------------------------------------------
\* A request ends where it stands: its row is gone, the database fails, or the
\* process stops.  Inside a bulk request, only the chat at hand is given up.
Fail(p) ==
  /\ req[p].at # "idle"
  /\ \E s \in {Idle, Rest(p, {})} : Becomes(p, s)
  /\ torn' = IF req[p].at \in {"readAll", "drop"} /\ Live(req[p].room) THEN torn \cup {req[p].room}
             ELSE torn
  /\ UNCHANGED <<room, member, created, mix>>

Init ==
  /\ room = [r \in Rooms |-> NULL]
  /\ member = [r \in Rooms |-> [u \in Users |-> NULL]]
  /\ created = 0
  /\ req = [p \in Reqs |-> Idle]
  /\ torn = {}
  /\ mix \in Mixes

\* A request comes in.
Begin(p) ==
  \/ \E u, v \in mix.users : OpenBegin(p, u, v)
  \/ \E u \in mix.users, S \in SUBSET mix.users :
       \/ CreateGroup(p, u, S) \/ OfferBegin(p, u, S)
       \/ \E b \in BOOLEAN : BulkBegin(p, u, S, b)
  \/ \E u \in mix.users, r \in Rooms :
       \/ SendBegin(p, u, r) \/ DeleteBegin(p, u, r)
       \/ \E S \in SUBSET mix.users : AddBegin(p, u, r, S)
       \/ \E v \in mix.users : RemoveBegin(p, u, r, v)
       \/ \E kind \in {"mute", "pin"} : ToggleBegin(p, kind, u, r)
       \/ \E b \in BOOLEAN : ArchiveBegin(p, u, r, b)
  \/ \E u \in mix.users, S \in SUBSET Rooms, b \in BOOLEAN : MuteRoomsBegin(p, u, S, b)

\* A request goes on, or ends.
Proceed(p) ==
  \/ OpenFind(p) \/ OpenTxFind(p) \/ OpenInsert(p)
  \/ OpenReopenTx(p) \/ OpenReopen(p) \/ OpenReload(p)
  \/ \E v \in Users : \/ BulkNext(p, v) \/ OfferNext(p, v) \/ AddRow(p, v)
                      \/ UnhideRead(p, v) \/ UnhideWrite(p, v)
  \/ \E r \in Rooms : BulkSend(p, r)
  \/ Post(p)
  \/ DeleteHide(p) \/ DeleteReadAll(p) \/ DeleteDrop(p) \/ DeleteLeave(p)
  \/ RemoveRow(p) \/ ToggleWrite(p) \/ MuteRoomsWrite(p) \/ ArchiveWrite(p)
  \/ Fail(p)

Next == \E p \in Reqs : Begin(p) \/ Proceed(p)

Spec == Init /\ [][Next]_vars

-----------------------------------------------------------------------------
(* Properties.                                                             *)

\* The rooms, their participants and the requests keep their shape.
TypeOK ==
  /\ room \in [Rooms -> RoomRecord \cup {NULL}]
  /\ member \in [Rooms -> [Users -> MemberRecord \cup {NULL}]]
  /\ created \in 0..MaxRooms
  /\ req \in [Reqs -> ReqRecord]
  /\ torn \subseteq Rooms
  /\ mix \in Mixes

\* A DIRECT or OFFER chat that all its members have hidden is being deleted:
\* of two members who delete it together, one sees that both have.  Nobody
\* looks again, so a request that dies, or a member who is removed, leaves it.
HiddenByAllGoes ==
  \A r \in Rooms : Live(r) /\ Private(r) /\ AllHidden(r) /\ r \notin torn =>
    \E p \in Reqs : req[p].room = r /\ req[p].at \in {"readAll", "drop"}

\* Two users get more than one DIRECT chat only from requests that looked for
\* it at the same time.
DuplicatesBounded ==
  mix.kinds \cap {"add", "remove"} = {} =>
    \A u, v \in Users : Cardinality(Pair(u, v)) <= Cardinality(Reqs)

\* A DIRECT or OFFER chat is deleted under a member who shows it only if it
\* came back to that member after the deletion had looked.
DropJustified(p) ==
  DeleteDrop(p) /\ Private(req[p].room) => Members(req[p].room) \ HiddenBy(req[p].room) \subseteq req[p].moved

\* A message stays hidden only from a member who has hidden the chat while it
\* was being sent.
PostSeen(p) == Post(p) => HiddenBy(req[p].room) \subseteq req[p].moved

\* A chat that a request has opened is in the lists of its members, unless one
\* of them has hidden it since, or it is archived, which opening leaves as it is.
OpenSeen(p) ==
  OpenReload(p) /\ Live(req[p].room) =>
    \A u \in Members(req[p].room) \ req[p].moved :
      req[p].room \in Listed(u) \/ room[req[p].room].isArchived

\* No chat goes, and none stays out of sight, behind the back of a member who shows it or is
\* written to.
ShownToMembers == [][\A p \in Reqs : DropJustified(p) /\ PostSeen(p) /\ OpenSeen(p)]_vars

\* The rows keep their shape, a chat that all have hidden goes, and there are no more DIRECT
\* chats of two users than requests that looked for one at the same time.
ChatsBounded == TypeOK /\ HiddenByAllGoes /\ DuplicatesBounded

=============================================================================
