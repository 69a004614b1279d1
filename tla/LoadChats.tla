------------------------------ MODULE LoadChats ------------------------------
(***************************************************************************)
(* LOAD chat rooms: created, converted and synchronised for the TMS, forked*)
(* for further drivers, handed over between tracking teams, delivered and  *)
(* reactivated with their load, and cleaned up                             *)
(* (src/src/chats/chat-rooms.service.ts, load-chat.controller.ts,          *)
(* load-chat-tms-sync.service.ts, delivered-load-chat-cleanup.scheduler.ts,*)
(* src/src/tms/tms.controller.ts, src/src/tracking/).                      *)
(*                                                                         *)
(* One record of req per request in flight; an action is what a request    *)
(* does between two awaits.  Rooms are numbered as they are created.  Names*)
(* and hideParticipant are left out; a request comes with the users its    *)
(* participants resolve to.  mix, chosen at the start, says which requests *)
(* come in, about whom, and which OFFER chats there are.                   *)
(***************************************************************************)
EXTENDS Naturals, FiniteSets, Sequences

CONSTANTS
  Drivers, Staff,
  Tracking,    \* the staff with the role that a transfer replaces
  Loads,
  MaxRooms,    \* bounds the rooms ever created
  Reqs,        \* slots for requests in flight
  Mixes,       \* the mixes of requests looked at
  NULL

ASSUME UsersAssumption ==
  /\ IsFiniteSet(Drivers) /\ Drivers \cap Staff = {} /\ Tracking \subseteq Staff
  /\ NULL \notin Drivers \cup Staff \cup Loads \cup Reqs
ASSUME RoomsAssumption == MaxRooms \in Nat /\ NULL \notin Nat
ASSUME MixesAssumption ==
  \A m \in Mixes :
    /\ m.drivers \subseteq Drivers /\ m.staff \subseteq Staff
    /\ m.teams \subseteq SUBSET m.staff /\ m.adds \subseteq SUBSET m.staff
    /\ m.loads \subseteq Loads /\ m.rooms \in 0..MaxRooms
    /\ m.offered \in Seq(Drivers) /\ Len(m.offered) <= m.rooms
    /\ m.sells \in Staff /\ m.offerLoad \in Loads

VARIABLES
  room,      \* chat_rooms
  member,    \* the users of chat_room_participants
  created,   \* how many rooms have been created
  offers,    \* the loads that have an offer
  tracking,  \* users.trackingLoadId
  lock,      \* pg_advisory_xact_lock of a load and a driver
  req,       \* requests in flight
  raced,     \* rooms whose delivery was decided on a value read before
  mix        \* the kinds of requests and what they are about

vars == <<room, member, created, offers, tracking, lock, req, raced, mix>>
chats == <<room, member, created>>
rest == <<offers, tracking, raced, mix>>

-----------------------------------------------------------------------------
Users == Drivers \cup Staff
Rooms == 1..MaxRooms
Delivered == {"no", "now", "past"}

Stages ==
  {"idle", "offer", "next", "doomed", "lock", "write", "tell", "syncRead",
   "sync", "fork", "attach", "rows", "roles", "present", "replace",
   "reactivateRead", "reactivate", "track", "offers", "sweep"}

RoomRecord ==
  [type : {"OFFER", "LOAD"}, load : Loads, delivered : Delivered,
   isLoadArchived : BOOLEAN, isArchived : BOOLEAN, messages : BOOLEAN]

ASSUME RecordsAssumption == NULL \notin RoomRecord

\* all, left: the request's drivers and those still to be served; driver: the
\* one at hand; by: who asks; staff: the other participants; room: the chat to
\* be converted, forked or added to; had, delivered: what was read of it; drop:
\* rooms to be deleted; rooms: rooms still to be dealt with; made: rooms that
\* get the dispatch message; seen, rows: participants read and to be created;
\* moved: what others have changed since.
ReqRecord ==
  [at : Stages, task : {"create", "convert", "fork", "other"},
   by : Users \cup {NULL}, load : Loads \cup {NULL}, all : SUBSET Drivers,
   left : SUBSET Drivers, driver : Drivers \cup {NULL}, staff : SUBSET Staff,
   room : Rooms \cup {NULL}, had : SUBSET Users, delivered : Delivered,
   drop : SUBSET Rooms, rooms : SUBSET Rooms, made : SUBSET Rooms,
   sync : BOOLEAN, says : BOOLEAN, enroute : BOOLEAN,
   seen : [Rooms -> SUBSET Users], rows : [Rooms -> SUBSET Users],
   moved : SUBSET (Rooms \X (Users \cup {NULL}))]

None == [r \in Rooms |-> {}]

Idle ==
  [at |-> "idle", task |-> "other", by |-> NULL, load |-> NULL, all |-> {},
   left |-> {}, driver |-> NULL, staff |-> {}, room |-> NULL, had |-> {},
   delivered |-> "no", drop |-> {}, rooms |-> {}, made |-> {}, sync |-> FALSE,
   says |-> FALSE, enroute |-> FALSE, seen |-> None, rows |-> None, moved |-> {}]

Live(r) == r \in Rooms /\ room[r] # NULL

LoadRooms(l) == {r \in Rooms : Live(r) /\ room[r].type = "LOAD" /\ room[r].load = l}

\* The chats of the load's offer; without the offer they refer to none.
OfferRooms(l) ==
  {r \in Rooms : /\ Live(r) /\ room[r].type = "OFFER" /\ room[r].load = l
                 /\ l \in offers}

\* loadChatWithDriverWhere()
WithDriver(l, d) == {r \in LoadRooms(l) : d \in member[r]}

Shown(S) == {r \in S : ~room[r].isArchived}
DriversOf(r) == member[r] \cap Drivers
StaffOf(r) == member[r] \cap Staff
Chosen == IF mix.offered = <<>> THEN NULL ELSE mix.offered[1]

NewLoadRoom(l, delivered) ==
  [type |-> "LOAD", load |-> l, delivered |-> delivered, isLoadArchived |-> FALSE,
   isArchived |-> FALSE, messages |-> FALSE]

-----------------------------------------------------------------------------
\* Others have changed the rooms and participants C: a request that has read
\* them goes on with what it read, but a participant's row that it means to
\* delete by its id is gone.
Touched(s, C) ==
  CASE s.at \in {"present", "replace"} ->
         [s EXCEPT !.moved = @ \cup C,
                   !.seen = [r \in Rooms |-> {u \in @[r] : <<r, u>> \notin C}]]
    [] s.at \in {"sync", "sweep"} -> [s EXCEPT !.moved = @ \cup C]
    [] OTHER -> s

Becomes(p, s, C) ==
  req' = [[q \in Reqs |-> Touched(req[q], C)] EXCEPT ![p] = s]

Others(C) == req' = [q \in Reqs |-> Touched(req[q], C)]

Enter(p, kind, s) ==
  /\ req[p].at = "idle" /\ kind \in mix.kinds
  /\ Becomes(p, s, {})

\* Room r and its participants.
Whole(r) == {r} \X (member[r] \cup {NULL})

DeleteRooms(S) ==
  /\ room' = [r \in Rooms |-> IF r \in S THEN NULL ELSE room[r]]
  /\ member' = [r \in Rooms |-> IF r \in S THEN {} ELSE member[r]]

\* What request s does when the driver at hand is served.
Served(s) ==
  LET t == [s EXCEPT !.driver = NULL, !.drop = {}, !.had = {}, !.delivered = "no"]
  IN IF s.task = "fork"
       THEN IF s.left # {} THEN [t EXCEPT !.at = "fork"]
            ELSE IF s.rows # None THEN [t EXCEPT !.at = "rows"]
            ELSE Idle
     ELSE IF s.left # {} THEN [t EXCEPT !.at = "next", !.task = "create", !.had = s.had]
     ELSE IF s.sync THEN [t EXCEPT !.at = "syncRead"]
     ELSE IF s.made # {} THEN [t EXCEPT !.at = "tell"]
     ELSE Idle

Unlocked(p) == [k \in DOMAIN lock |-> IF lock[k] = p THEN NULL ELSE lock[k]]

-----------------------------------------------------------------------------
(* createLoadChat(), updateLoadChatParticipants()                          *)

CreateBegin(p, l, D, S, sync, says) ==
  /\ D # {} /\ (says => ~sync /\ "tell" \in mix.kinds)
  /\ Enter(p, IF sync THEN "update" ELSE "create",
       [Idle EXCEPT !.at = "offer", !.task = "create", !.load = l, !.all = D,
                    !.left = D, !.staff = S, !.sync = sync, !.says = says])
  /\ UNCHANGED <<chats, lock, rest>>

\* The OFFER chat of the selected driver, if he is in the request.
CreateOffer(p) ==
  LET s == [req[p] EXCEPT !.at = "next"]
      R == {r \in OfferRooms(s.load) : Chosen \in member[r]}
  IN /\ req[p].at = "offer"
     /\ IF Chosen \in s.all /\ R # {}
          THEN \E r \in R : Becomes(p, [s EXCEPT !.room = r, !.had = member[r]], {})
          ELSE Becomes(p, s, {})
     /\ UNCHANGED <<chats, lock, rest>>

\* One driver after the other.
CreateNext(p, d) ==
  LET s == [req[p] EXCEPT !.left = @ \ {d}, !.driver = d]
  IN /\ req[p].at = "next" /\ d \in req[p].left
     /\ Becomes(p, IF WithDriver(s.load, d) # {} THEN Served(s)
                   ELSE IF d = Chosen /\ s.room # NULL
                     THEN [s EXCEPT !.at = "doomed", !.task = "convert"]
                   ELSE [s EXCEPT !.at = "lock"], {})
     /\ UNCHANGED <<chats, lock, rest>>

\* The offer's chats that go: those without a driver of the request.
CreateDoomed(p) ==
  /\ req[p].at = "doomed"
  /\ Becomes(p, [req[p] EXCEPT !.at = "lock", !.drop =
       {r \in OfferRooms(req[p].load) \ {req[p].room} :
          DriversOf(r) \cap req[p].all = {}}], {})
  /\ UNCHANGED <<chats, lock, rest>>

\* acquireLoadChatDriverLock(), then the search for the chat under the lock.
LockFindFree(p) ==
  LET s == req[p]
      R == WithDriver(s.load, s.driver)
      found == IF s.task = "fork" THEN Shown(R) ELSE R
  IN /\ s.at = "lock"
     /\ Becomes(p, IF found # {} THEN Served([s EXCEPT !.room = IF s.task = "convert" THEN NULL ELSE @])
                   ELSE [s EXCEPT !.at = "write"], {})
     /\ UNCHANGED lock
     /\ UNCHANGED <<chats, rest>>

LockFind(p) ==
  LET s == req[p]
      k == <<s.load, s.driver>>
      R == WithDriver(s.load, s.driver)
      found == IF s.task = "fork" THEN Shown(R) ELSE R
  IN /\ s.at = "lock" /\ lock[k] = NULL
     /\ IF found # {}
          THEN /\ Becomes(p, Served([s EXCEPT !.room = IF s.task = "convert" THEN NULL ELSE @]), {})
               /\ UNCHANGED lock
          ELSE /\ Becomes(p, [s EXCEPT !.at = "write"], {})
               /\ lock' = [lock EXCEPT ![k] = p]
     /\ UNCHANGED <<chats, rest>>

\* The OFFER chat becomes the LOAD chat; a participant who is no longer, or
\* already, there when the transaction wants to change him aborts it.
ConvertWrite(p) ==
  LET s == req[p]
      r == s.room
      wanted == s.staff \cup {s.driver}
  IN /\ s.at = "write" /\ s.task = "convert" /\ Live(r)
     /\ s.had \subseteq member[r] /\ (wanted \ s.had) \cap member[r] = {}
     /\ room' = [x \in Rooms |->
          IF x = r THEN [room[r] EXCEPT !.type = "LOAD", !.load = s.load]
          ELSE IF x \in s.drop THEN NULL ELSE room[x]]
     /\ member' = [x \in Rooms |->
          IF x = r THEN (member[r] \ s.had) \cup wanted
          ELSE IF x \in s.drop THEN {} ELSE member[x]]
     /\ Becomes(p, Served([s EXCEPT !.room = NULL,
                                    !.made = IF s.says THEN @ \cup {r} ELSE @]),
                Whole(r) \cup ({r} \X wanted) \cup UNION {Whole(x) : x \in s.drop})
     /\ lock' = Unlocked(p)
     /\ UNCHANGED <<created, rest>>

\* A new chat; an OFFER chat that the driver still has goes.
CreateWrite(p) ==
  LET s == req[p]
      n == created + 1
      leftover == {r \in OfferRooms(s.load) : s.driver \in member[r]}
  IN /\ s.at = "write" /\ s.task = "create" /\ created < mix.rooms
     /\ \E S \in SUBSET leftover :
          /\ Cardinality(S) = (IF leftover = {} THEN 0 ELSE 1)
          /\ room' = [r \in Rooms |-> IF r \in S THEN NULL
                        ELSE IF r = n THEN NewLoadRoom(s.load, "no") ELSE room[r]]
          /\ member' = [r \in Rooms |-> IF r \in S THEN {}
                          ELSE IF r = n THEN s.staff \cup {s.driver} ELSE member[r]]
          /\ Becomes(p, Served([s EXCEPT !.made = IF s.says THEN @ \cup {n} ELSE @]),
                     UNION {Whole(r) : r \in S})
     /\ created' = n
     /\ lock' = Unlocked(p)
     /\ UNCHANGED rest

\* createLoadDispatchSystemMessage()
Tell(p, r) ==
  /\ req[p].at = "tell" /\ r \in req[p].made /\ Live(r)
  /\ room' = [room EXCEPT ![r].messages = TRUE]
  /\ Becomes(p, IF req[p].made = {r} THEN Idle ELSE [req[p] EXCEPT !.made = @ \ {r}],
             {<<r, NULL>>})
  /\ UNCHANGED <<member, created, lock, rest>>

\* syncNonDriverParticipantsForLoad()
SyncRead(p) ==
  LET R == LoadRooms(req[p].load)
  IN /\ req[p].at = "syncRead"
     /\ Becomes(p, IF R = {} THEN Idle
                   ELSE [req[p] EXCEPT !.at = "sync", !.rooms = R, !.seen =
                           [r \in Rooms |-> IF r \in R THEN StaffOf(r) ELSE {}]], {})
     /\ UNCHANGED <<chats, lock, rest>>

\* A chat whose staff is as wanted is left alone.
SyncRoom(p, r) ==
  LET s == req[p]
      old == s.seen[r]
  IN /\ s.at = "sync" /\ r \in s.rooms
     /\ \/ old = s.staff
        \/ /\ Live(r) /\ old \subseteq member[r]
           /\ (s.staff \ old) \cap member[r] = {}
     /\ member' = [member EXCEPT ![r] =
          IF old = s.staff THEN @ ELSE (@ \ (old \ s.staff)) \cup s.staff]
     /\ Becomes(p, IF s.rooms = {r} THEN Idle ELSE [s EXCEPT !.rooms = @ \ {r}],
                {r} \X ((old \ s.staff) \cup (s.staff \ old)))
     /\ UNCHANGED <<room, created, lock, rest>>

-----------------------------------------------------------------------------
(* addParticipants() of a LOAD chat, forkLoadChatWithDriver()              *)

AddBegin(p, u, r, S) ==
  /\ Live(r) /\ room[r].type = "LOAD" /\ u \in member[r]
  /\ S \cap Drivers # {}
  /\ Enter(p, IF DriversOf(r) = {} THEN "attach" ELSE "fork",
       [Idle EXCEPT !.at = IF DriversOf(r) = {} THEN "attach" ELSE "fork",
                    !.task = "fork", !.by = u, !.load = room[r].load, !.room = r,
                    !.left = S \cap Drivers, !.rows = [None EXCEPT ![r] = S \cap Staff]])
  /\ UNCHANGED <<chats, lock, rest>>

\* A chat without a driver takes the first one in, unless he has a chat.
AttachFind(p, d) ==
  LET s == [req[p] EXCEPT !.left = @ \ {d}]
  IN /\ req[p].at = "attach" /\ d \in req[p].left
     /\ Becomes(p, Served(IF Shown(WithDriver(s.load, d)) \ {s.room} # {} THEN s
                          ELSE [s EXCEPT !.rows[s.room] = @ \cup {d}]), {})
     /\ UNCHANGED <<chats, lock, rest>>

ForkRead(p, d) ==
  LET r == req[p].room
      s == [req[p] EXCEPT !.left = @ \ {d}]
  IN /\ req[p].at = "fork" /\ d \in req[p].left
     /\ Live(r) /\ req[p].by \in member[r]
     /\ Becomes(p, IF Shown(WithDriver(s.load, d)) # {} THEN Served(s)
                   ELSE [s EXCEPT !.at = "lock", !.driver = d, !.had = StaffOf(r),
                                  !.delivered = room[r].delivered], {})
     /\ UNCHANGED <<chats, lock, rest>>

\* With the staff and the delivery of the source as they were read.
ForkWrite(p) ==
  LET s == req[p]
      n == created + 1
  IN /\ s.at = "write" /\ s.task = "fork" /\ created < mix.rooms
     /\ room' = [room EXCEPT ![n] = NewLoadRoom(s.load, s.delivered)]
     /\ member' = [member EXCEPT ![n] = s.had \cup {s.driver}]
     /\ created' = n
     /\ raced' = IF \/ s.delivered = "no"
                     \/ \E r \in LoadRooms(s.load) \ raced : room[r].delivered = s.delivered
                   THEN raced ELSE raced \cup {n}
     /\ Becomes(p, Served(s), {})
     /\ lock' = Unlocked(p)
     /\ UNCHANGED <<offers, tracking, mix>>

\* addParticipantsToRoom(): each row on its own; one that exists, or whose room
\* is gone, fails and the others stay.
AddRow(p, u) ==
  LET s == req[p]
      r == s.room
      t == [s EXCEPT !.rows[r] = @ \ {u}]
  IN /\ s.at = "rows" /\ u \in s.rows[r]
     /\ member' = IF Live(r) THEN [member EXCEPT ![r] = @ \cup {u}] ELSE member
     /\ Becomes(p, IF t.rows = None THEN Idle ELSE t, {<<r, u>>} \ {<<r, v>> : v \in member[r]})
     /\ UNCHANGED <<room, created, lock, rest>>

\* removeParticipant()
Leave(r, u) ==
  /\ "leave" \in mix.kinds /\ Live(r) /\ u \in member[r]
  /\ member' = [member EXCEPT ![r] = @ \ {u}]
  /\ Others({<<r, u>>})
  /\ UNCHANGED <<room, created, lock, rest>>

\* deleteChatRoom() by an administrator, archiveChatRoom()
Delete(r) ==
  /\ "delete" \in mix.kinds /\ Live(r) /\ room[r].type = "LOAD"
  /\ DeleteRooms({r})
  /\ Others(Whole(r))
  /\ UNCHANGED <<created, lock, rest>>

Archive(r, b) ==
  /\ "archive" \in mix.kinds /\ Live(r) /\ room[r].isArchived # b
  /\ room' = [room EXCEPT ![r].isArchived = b]
  /\ UNCHANGED <<member, created, lock, req, rest>>

\* sendMessage()
Say(r) ==
  /\ "say" \in mix.kinds /\ Live(r) /\ ~room[r].messages
  /\ room' = [room EXCEPT ![r].messages = TRUE]
  /\ Others({<<r, NULL>>})
  /\ UNCHANGED <<member, created, lock, rest>>

-----------------------------------------------------------------------------
(* transfer(): the role Tracking of the chats of user u, except loads X,   *)
(* becomes the users S.                                                    *)

TransferBegin(p, u, S, X) ==
  LET R == {r \in UNION {LoadRooms(l) : l \in Loads \ X} :
              ~room[r].isLoadArchived /\ u \in member[r]}
  IN /\ R # {}
     /\ Enter(p, "transfer", [Idle EXCEPT !.at = "roles", !.by = u, !.staff = S,
                                          !.rooms = R])
     /\ UNCHANGED <<chats, lock, rest>>

TransferRoles(p) ==
  /\ req[p].at = "roles"
  /\ Becomes(p, [req[p] EXCEPT !.at = "present", !.seen =
       [r \in Rooms |-> IF r \in req[p].rooms
                          THEN (member[r] \cap Tracking) \ req[p].staff ELSE {}]], {})
  /\ UNCHANGED <<chats, lock, rest>>

TransferPresentAnywhere(p) ==
  /\ req[p].at = "present"
  /\ Becomes(p, [req[p] EXCEPT !.at = "replace", !.rows =
       [r \in Rooms |-> IF r \in req[p].rooms
          THEN req[p].staff \ UNION {member[x] : x \in req[p].rooms} ELSE {}]], {})
  /\ UNCHANGED <<chats, lock, rest>>

TransferPresent(p) ==
  /\ req[p].at = "present"
  /\ Becomes(p, [req[p] EXCEPT !.at = "replace", !.rows =
       [r \in Rooms |-> IF r \in req[p].rooms THEN req[p].staff \ member[r] ELSE {}]], {})
  /\ UNCHANGED <<chats, lock, rest>>

\* Rows are deleted by their ids; a row that has come meanwhile is skipped.
TransferWrite(p) ==
  LET s == req[p]
  IN /\ s.at = "replace"
     /\ \A r \in s.rooms : Live(r) \/ s.rows[r] = {}
     /\ member' = [r \in Rooms |-> (member[r] \ s.seen[r]) \cup s.rows[r]]
     /\ Becomes(p, Idle, UNION {{r} \X (s.seen[r] \cup (s.rows[r] \ member[r])) : r \in s.rooms})
     /\ UNCHANGED <<room, created, lock, rest>>

-----------------------------------------------------------------------------
(* receiveLoadStatusChanged(), reactivateLoadChats()                       *)

InRoute(l) == {q \in Reqs : req[q].at \in {"reactivateRead", "reactivate", "track"}
                            /\ req[q].load = l}

\* delivered, tonu or cancelled
Terminal(l, d) ==
  /\ "status" \in mix.kinds
  /\ room' = [r \in Rooms |-> IF r \in LoadRooms(l)
                THEN [room[r] EXCEPT !.delivered = "now"] ELSE room[r]]
  /\ tracking' = [tracking EXCEPT ![d] = NULL]
  /\ raced' = IF InRoute(l) = {} THEN raced ELSE raced \cup LoadRooms(l)
  /\ Others(LoadRooms(l) \X {NULL})
  /\ UNCHANGED <<member, created, offers, lock, mix>>

\* The load is active again.
StatusBegin(p, l, d, enroute) ==
  /\ Enter(p, "status", [Idle EXCEPT !.at = "reactivateRead", !.load = l,
                                     !.driver = d, !.enroute = enroute])
  /\ UNCHANGED <<chats, lock, rest>>

Reactivated(s) == IF s.enroute THEN [s EXCEPT !.at = "track"] ELSE Idle

ReactivateRead(p) ==
  /\ req[p].at = "reactivateRead"
  /\ Becomes(p, IF \E r \in LoadRooms(req[p].load) :
                     room[r].delivered # "no" \/ room[r].isLoadArchived
                  THEN [req[p] EXCEPT !.at = "reactivate"] ELSE Reactivated(req[p]), {})
  /\ UNCHANGED <<chats, lock, rest>>

Reactivate(p) ==
  LET R == LoadRooms(req[p].load)
  IN /\ req[p].at = "reactivate"
     /\ room' = [r \in Rooms |-> IF r \in R
                   THEN [room[r] EXCEPT !.delivered = "no", !.isLoadArchived = FALSE]
                   ELSE room[r]]
     /\ raced' = raced \ R
     /\ Becomes(p, Reactivated(req[p]), R \X {NULL})
     /\ UNCHANGED <<member, created, offers, tracking, lock, mix>>

StartTracking(p) ==
  /\ req[p].at = "track"
  /\ tracking' = [tracking EXCEPT ![req[p].driver] = req[p].load]
  /\ Becomes(p, [req[p] EXCEPT !.at = "offers"], {})
  /\ UNCHANGED <<chats, offers, lock, raced, mix>>

CleanOffers(p) ==
  /\ req[p].at = "offers"
  /\ offers' = offers \ {req[p].load}
  /\ Becomes(p, Idle, {})
  /\ UNCHANGED <<chats, tracking, lock, raced, mix>>

-----------------------------------------------------------------------------
(* markStaleDeliveredLoadChatsArchived()                                   *)

\* The configured hours pass.
Age ==
  /\ "sweep" \in mix.kinds
  /\ \E r \in Rooms : Live(r) /\ room[r].delivered = "now"
  /\ room' = [r \in Rooms |-> IF Live(r) /\ room[r].delivered = "now"
                THEN [room[r] EXCEPT !.delivered = "past"] ELSE room[r]]
  /\ UNCHANGED <<member, created, lock, req, rest>>

DueAtOnce == {r \in Rooms : /\ Live(r) /\ room[r].type = "LOAD"
                            /\ room[r].delivered # "no" /\ ~room[r].isLoadArchived}

Due == {r \in Rooms : /\ Live(r) /\ room[r].type = "LOAD"
                      /\ room[r].delivered = "past" /\ ~room[r].isLoadArchived}

SweepRead(p) ==
  /\ Due # {}
  /\ Enter(p, "sweep", [Idle EXCEPT !.at = "sweep", !.rooms = Due,
                          !.drop = {r \in Due : ~room[r].messages}])
  /\ UNCHANGED <<chats, lock, rest>>

\* A chat without messages is deleted; one that is gone is passed over.
SweepRoom(p, r) ==
  LET s == req[p]
      t == IF s.rooms = {r} THEN Idle ELSE [s EXCEPT !.rooms = @ \ {r}]
  IN /\ s.at = "sweep" /\ r \in s.rooms
     /\ IF r \in s.drop
          THEN DeleteRooms({r}) /\ Becomes(p, t, Whole(r))
          ELSE /\ room' = IF Live(r) THEN [room EXCEPT ![r].isLoadArchived = TRUE] ELSE room
               /\ Becomes(p, t, {<<r, NULL>>})
               /\ UNCHANGED member
     /\ raced' = IF <<r, NULL>> \in s.moved THEN raced \cup {r} ELSE raced
     /\ UNCHANGED <<created, offers, tracking, lock, mix>>

-----------------------------------------------------------------------------
\* A request ends where it stands: its row or room is gone, the database
\* fails, or the process stops.  Its transaction is undone.
Fail(p) ==
  /\ req[p].at # "idle"
  /\ Becomes(p, Idle, {})
  /\ lock' = Unlocked(p)
  /\ UNCHANGED <<chats, rest>>

Offered(r) == r <= Len(mix.offered)

Init ==
  /\ mix \in Mixes
  /\ room = [r \in Rooms |-> IF ~Offered(r) THEN NULL
               ELSE [NewLoadRoom(mix.offerLoad, "no") EXCEPT !.type = "OFFER"]]
  /\ member = [r \in Rooms |-> IF Offered(r) THEN {mix.offered[r], mix.sells} ELSE {}]
  /\ created = Len(mix.offered)
  /\ offers = IF mix.offered = <<>> THEN {} ELSE {mix.offerLoad}
  /\ tracking = [d \in Drivers |-> NULL]
  /\ lock = [k \in Loads \X Drivers |-> NULL]
  /\ req = [p \in Reqs |-> Idle]
  /\ raced = {}

\* A request comes in.
Begin(p) ==
  \/ \E l \in mix.loads, D \in SUBSET mix.drivers, S \in mix.teams, b, c \in BOOLEAN :
       CreateBegin(p, l, D, S, b, c)
  \/ \E u \in mix.staff, r \in Rooms, D \in SUBSET mix.drivers, S \in mix.adds :
       AddBegin(p, u, r, D \cup S)
  \/ \E S \in mix.teams, X \in SUBSET mix.loads : TransferBegin(p, mix.sells, S, X)
  \/ \E l \in mix.loads, d \in mix.drivers, b \in BOOLEAN : StatusBegin(p, l, d, b)
  \/ SweepRead(p)

\* A request goes on, or ends.
Proceed(p) ==
  \/ CreateOffer(p) \/ CreateDoomed(p) \/ LockFind(p)
  \/ ConvertWrite(p) \/ CreateWrite(p) \/ ForkWrite(p)
  \/ SyncRead(p)
  \/ \E d \in Drivers : CreateNext(p, d) \/ AttachFind(p, d) \/ ForkRead(p, d)
  \/ \E r \in Rooms : Tell(p, r) \/ SyncRoom(p, r) \/ SweepRoom(p, r)
  \/ \E u \in Users : AddRow(p, u)
  \/ TransferRoles(p) \/ TransferPresent(p) \/ TransferWrite(p)
  \/ ReactivateRead(p) \/ Reactivate(p) \/ StartTracking(p) \/ CleanOffers(p)
  \/ Fail(p)

\* What is done in one step.
Once ==
  \/ \E r \in Rooms : \/ Delete(r) \/ Say(r)
                      \/ \E b \in BOOLEAN : Archive(r, b)
                      \/ \E u \in mix.drivers \cup mix.staff : Leave(r, u)
  \/ \E l \in mix.loads, d \in mix.drivers : Terminal(l, d)
  \/ Age

Next == Once \/ \E p \in Reqs : Begin(p) \/ Proceed(p)

Spec == Init /\ [][Next]_vars

-----------------------------------------------------------------------------
(* Properties.                                                             *)

\* The rooms, the locks and the requests keep their shape.
TypeOK ==
  /\ room \in [Rooms -> RoomRecord \cup {NULL}]
  /\ member \in [Rooms -> SUBSET Users]
  /\ created \in 0..MaxRooms
  /\ offers \subseteq Loads
  /\ tracking \in [Drivers -> Loads \cup {NULL}]
  /\ lock \in [Loads \X Drivers -> Reqs \cup {NULL}]
  /\ req \in [Reqs -> ReqRecord]
  /\ raced \subseteq Rooms
  /\ mix \in Mixes

\* A driver has one LOAD chat per load, however requests that create, convert
\* and fork chats meet.  Only a driver who is taken into a chat without one, or
\* a chat that is archived, gets around the lock.
OneChatPerDriver ==
  mix.kinds \cap {"attach", "archive"} = {} =>
    \A l \in Loads, d \in Drivers : Cardinality(WithDriver(l, d)) <= 1

\* A LOAD chat is archived only while its load is delivered, unless the clean-up
\* had read it before the load became active again.
ArchivedIsDelivered ==
  \A r \in Rooms \ raced : Live(r) /\ room[r].isLoadArchived =>
    room[r].delivered # "no"

\* Where a driver drives alone, the chats of the load he is tracked for are
\* active, unless webhooks of the load were worked on together.
TrackedLoadActive ==
  Cardinality(mix.drivers) = 1 =>
    \A d \in Drivers : tracking[d] # NULL =>
      \A r \in LoadRooms(tracking[d]) \ raced : room[r].delivered = "no"

\* Whatever happens between reading the chats and changing one, a chat that an
\* update changes has all of the request's staff after it, and no others but
\* those added since it was read.
SyncAgrees(p) ==
  \A r \in Rooms : SyncRoom(p, r) =>
    LET staff == member'[r] \cap Staff
    IN /\ staff \ req[p].staff \subseteq {u \in Staff : <<r, u>> \in req[p].moved}
       /\ req[p].staff \subseteq staff \/ req[p].seen[r] = req[p].staff

\* After a transfer every chat has just the new users of the role, but for those
\* that others have added or removed meanwhile.
TransferReplaces(p) ==
  TransferWrite(p) =>
    \A r \in req[p].rooms :
      LET others == {u \in Staff : <<r, u>> \in req[p].moved}
      IN /\ (member'[r] \cap Tracking) \ req[p].staff \subseteq others
         /\ req[p].staff \ member'[r] \subseteq others

\* The clean-up archives or deletes a chat whose load was delivered long ago,
\* and deletes none with messages, unless others have changed it since it looked.
SweepJustified(p) ==
  \A r \in Rooms : SweepRoom(p, r) =>
    \/ <<r, NULL>> \in req[p].moved
    \/ /\ room[r].delivered = "past"
       /\ room[r].messages => room'[r] # NULL

\* The selected driver's OFFER chat becomes his LOAD chat: no request to create
\* chats, with him or without, deletes it.
SelectedKept ==
  \A r \in Rooms : Live(r) /\ room[r].type = "OFFER" /\ Chosen \in member[r] => room'[r] # NULL

\* The rows keep their shape, a driver has one chat for a load, and archive and tracking stay
\* together with delivery.
LoadChatsAgree == TypeOK /\ OneChatPerDriver /\ ArchivedIsDelivered /\ TrackedLoadActive

\* The staff of a load's chats is what the last change read and wanted.
StaffAgrees == [][\A p \in Reqs : SyncAgrees(p) /\ TransferReplaces(p)]_vars

\* Chats of a load go only when it was delivered long ago, and never the selected driver's.
DeletesJustified == [][SelectedKept /\ \A p \in Reqs : SweepJustified(p)]_vars

=============================================================================
