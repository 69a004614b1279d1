--------------------------- MODULE LoadChatsProofs ---------------------------
(***************************************************************************)
(* Proofs about LoadChats.  The inductive invariant has five parts, each   *)
(* resting on those before it:                                             *)
(*   TypeInv      the types, and what a request is about;                  *)
(*   RoomsInv     how chats move, and what a request knows of the chats it *)
(*                has at hand;                                             *)
(*   LocksInv     the lock of a load and a driver: one chat per driver;    *)
(*   ReadsInv     what the clean-up, a synchronisation and a transfer have *)
(*                read is true but for what others have changed since;     *)
(*   DeliveryInv  delivery, archive and tracking.                          *)
(* The theorems at the end follow from it.                                 *)
(***************************************************************************)
EXTENDS LoadChats, FiniteSetTheorems, TLAPS

-----------------------------------------------------------------------------
(* The inductive invariant.                                                *)

\* A request knows what it is about at each of its stages.
Known(s) ==
  /\ s.at \in {"offer", "next", "doomed", "lock", "write", "syncRead", "fork", "attach",
              "reactivateRead", "reactivate", "track", "offers"} => s.load \in Loads
  /\ s.at \in {"lock", "write"} => s.driver \in Drivers /\ s.task \in {"create", "convert", "fork"}
  /\ s.at \in {"reactivateRead", "reactivate", "track"} => s.driver \in mix.drivers
  /\ s.at \in {"offer", "next"} => s.task = "create"
  /\ s.at \in {"offer", "next", "doomed", "lock", "write"} /\ s.task # "fork" => s.left \subseteq s.all
  /\ s.at = "doomed" => s.task = "convert" /\ s.driver \in Drivers /\ s.room \in Rooms
  /\ s.at \in {"fork", "attach", "rows"} => s.task = "fork"
  /\ s.at \in {"lock", "write", "fork", "attach", "rows"} /\ s.task # "create" => s.room \in Rooms
  /\ s.at \in {"lock", "write"} /\ s.task = "fork" => s.had \subseteq Staff
  /\ s.at \in {"present", "replace"} =>
       /\ \A r \in Rooms \ s.rooms : s.seen[r] = {}
       /\ \A r \in Rooms : s.seen[r] \subseteq Tracking \ s.staff
  /\ s.at = "replace" =>
       /\ \A r \in Rooms \ s.rooms : s.rows[r] = {}
       /\ \A r \in Rooms : s.rows[r] \subseteq s.staff
  /\ s.at = "attach" => "attach" \in mix.kinds
  /\ "attach" \notin mix.kinds => \A r \in Rooms : s.rows[r] \subseteq Staff

\* The rows and the requests have their types, and requests know what they are about.
TypeInv == TypeOK /\ \A p \in Reqs : Known(req[p])

\* A request that is at work for createLoadChat() or updateLoadChatParticipants().
Creating(s) == s.at \in {"next", "doomed", "lock", "write"} /\ s.task \in {"create", "convert"}

\* A request that has an OFFER chat found the selected driver in it, who is served with it.
Chose(s) ==
  /\ s.at = "offer" => s.room = NULL
  /\ Creating(s) /\ s.room # NULL => Chosen \in s.had
  /\ Creating(s) /\ s.task = "convert" =>
       s.driver = Chosen /\ Chosen \in s.all /\ Chosen \notin s.left /\ s.room # NULL
  /\ Creating(s) /\ s.task = "create" /\ s.at \in {"lock", "write"} /\ s.driver = Chosen =>
       s.room = NULL

\* The chats at hand were created before, and are those of the load.
Finds(s) ==
  /\ s.room # NULL => s.room <= created
  /\ \A r \in s.rooms : r <= created
  /\ Creating(s) /\ s.room # NULL /\ Live(s.room) => room[s.room].load = s.load
  /\ s.task = "fork" /\ s.room # NULL /\ Live(s.room) => room[s.room].type = "LOAD"
  /\ \A r \in s.rooms : Live(r) => room[r].type = "LOAD"

\* Who has yet to serve the selected driver, without a chat of his, finds none to delete; nor
\* has who means to convert his chat put another one of his on the list of those that go.
Selects(s) ==
  /\ Creating(s) /\ s.task = "create" /\ s.room = NULL
     /\ (Chosen \in s.left \/ (s.at \in {"lock", "write"} /\ s.driver = Chosen)) =>
       \A r \in OfferRooms(s.load) : Chosen \notin member[r]
  /\ Creating(s) /\ s.task = "convert" /\ s.at # "doomed" =>
       \A r \in s.drop : Live(r) /\ room[r].type = "OFFER" => Chosen \notin member[r]

\* What a request knows of the chats holds.
Aware(s) == Chose(s) /\ Finds(s) /\ Selects(s)

\* Chats are numbered as they come; an OFFER chat is neither delivered nor archived and has at most
\* the driver of its bid; and unless drivers are taken into chats without one, a chat has one at most.
RoomKept(r) ==
  /\ created < r => room[r] = NULL
  /\ room[r] = NULL => member[r] = {}
  /\ Live(r) /\ room[r].type = "OFFER" =>
       /\ room[r].delivered = "no" /\ ~room[r].isLoadArchived
       /\ Offered(r) /\ DriversOf(r) \subseteq {mix.offered[r]}
  /\ "archive" \notin mix.kinds /\ Live(r) => ~room[r].isArchived
  /\ "attach" \notin mix.kinds => \A d, e \in DriversOf(r) : d = e

\* The rows of the chats, and what the requests know of them.
RoomsInv == (\A r \in Rooms : RoomKept(r)) /\ \A p \in Reqs : Aware(req[p])

\* Who is about to write holds the lock of the load and the driver.
Locks(p) == req[p].at = "write" => lock[<<req[p].load, req[p].driver>>] = p
\* Under the lock the driver has no chat for the load.
LockClears(p) ==
  mix.kinds \cap {"attach", "archive"} = {} /\ req[p].at = "write" => WithDriver(req[p].load, req[p].driver) = {}

\* What the clean-up has read of a chat is true of it, but for what others have changed.
Sweeps(p) ==
  req[p].at = "sweep" => \A r \in req[p].rooms :
     \/ <<r, NULL>> \in req[p].moved
     \/ Live(r) /\ room[r].delivered = "past" /\ (r \in req[p].drop => ~room[r].messages)

\* Who is about to start the tracking has found or made the load's chats active.
Tracks(p) ==
  req[p].at = "track" => \A r \in LoadRooms(req[p].load) \ raced : room[r].delivered = "no"
\* Only drivers that webhooks name are tracked.
Tracked == \A d \in Drivers : tracking[d] # NULL => d \in mix.drivers

\* The staff that a synchronisation has read is that of the chat, but for what others have changed.
Syncs(p) ==
  req[p].at = "sync" => \A r \in req[p].rooms, u \in Staff :
    <<r, u>> \notin req[p].moved => (u \in member[r] <=> u \in req[p].seen[r])

\* So are the users of the role, and the new users still to be added, that a transfer has read.
Transfers(p) ==
  /\ req[p].at \in {"present", "replace"} =>
       \A r \in req[p].rooms, u \in Tracking \ req[p].staff :
         <<r, u>> \notin req[p].moved => (u \in member[r] <=> u \in req[p].seen[r])
  /\ req[p].at = "replace" =>
       \A r \in req[p].rooms, u \in req[p].staff :
         <<r, u>> \notin req[p].moved => (u \in member[r] <=> u \notin req[p].rows[r])

-----------------------------------------------------------------------------
\* What can be changed: a chat, and a participant of it.
Pairs == Rooms \X (Users \cup {NULL})

\* A request that goes on with what it has read.
Same(t, s) ==
  /\ t.at = s.at /\ t.task = s.task /\ t.by = s.by /\ t.load = s.load /\ t.all = s.all
  /\ t.left = s.left /\ t.driver = s.driver /\ t.staff = s.staff /\ t.room = s.room
  /\ t.had = s.had /\ t.delivered = s.delivered /\ t.drop = s.drop /\ t.rooms = s.rooms
  /\ t.made = s.made /\ t.sync = s.sync /\ t.says = s.says /\ t.enroute = s.enroute
  /\ t.rows = s.rows /\ \A r \in Rooms : t.seen[r] \subseteq s.seen[r]

\* A request in which a field is overwritten is a request.
LEMMA FieldTypes ==
  ASSUME NEW s \in ReqRecord
  PROVE  /\ \A v \in Stages : [s EXCEPT !.at = v] \in ReqRecord
         /\ \A v \in {"create", "convert", "fork", "other"} : [s EXCEPT !.task = v] \in ReqRecord
         /\ \A v \in Users \cup {NULL} : [s EXCEPT !.by = v] \in ReqRecord
         /\ \A v \in Loads \cup {NULL} : [s EXCEPT !.load = v] \in ReqRecord
         /\ \A v \in SUBSET Drivers : [s EXCEPT !.all = v] \in ReqRecord
         /\ \A v \in SUBSET Drivers : [s EXCEPT !.left = v] \in ReqRecord
         /\ \A v \in Drivers \cup {NULL} : [s EXCEPT !.driver = v] \in ReqRecord
         /\ \A v \in SUBSET Staff : [s EXCEPT !.staff = v] \in ReqRecord
         /\ \A v \in Rooms \cup {NULL} : [s EXCEPT !.room = v] \in ReqRecord
         /\ \A v \in SUBSET Users : [s EXCEPT !.had = v] \in ReqRecord
         /\ \A v \in Delivered : [s EXCEPT !.delivered = v] \in ReqRecord
         /\ \A v \in SUBSET Rooms : [s EXCEPT !.drop = v] \in ReqRecord
         /\ \A v \in SUBSET Rooms : [s EXCEPT !.rooms = v] \in ReqRecord
         /\ \A v \in SUBSET Rooms : [s EXCEPT !.made = v] \in ReqRecord
         /\ \A v \in BOOLEAN : [s EXCEPT !.sync = v] \in ReqRecord
         /\ \A v \in BOOLEAN : [s EXCEPT !.says = v] \in ReqRecord
         /\ \A v \in BOOLEAN : [s EXCEPT !.enroute = v] \in ReqRecord
         /\ \A v \in [Rooms -> SUBSET Users] : [s EXCEPT !.seen = v] \in ReqRecord
         /\ \A v \in [Rooms -> SUBSET Users] : [s EXCEPT !.rows = v] \in ReqRecord
<1>1. \A v \in Stages : [s EXCEPT !.at = v] \in ReqRecord  BY DEF ReqRecord
<1>2. \A v \in {"create", "convert", "fork", "other"} : [s EXCEPT !.task = v] \in ReqRecord  BY DEF ReqRecord
<1>3. \A v \in Users \cup {NULL} : [s EXCEPT !.by = v] \in ReqRecord  BY DEF ReqRecord
<1>4. \A v \in Loads \cup {NULL} : [s EXCEPT !.load = v] \in ReqRecord  BY DEF ReqRecord
<1>5. \A v \in SUBSET Drivers : [s EXCEPT !.all = v] \in ReqRecord  BY DEF ReqRecord
<1>6. \A v \in SUBSET Drivers : [s EXCEPT !.left = v] \in ReqRecord  BY DEF ReqRecord
<1>7. \A v \in Drivers \cup {NULL} : [s EXCEPT !.driver = v] \in ReqRecord  BY DEF ReqRecord
<1>8. \A v \in SUBSET Staff : [s EXCEPT !.staff = v] \in ReqRecord  BY DEF ReqRecord
<1>9. \A v \in Rooms \cup {NULL} : [s EXCEPT !.room = v] \in ReqRecord  BY DEF ReqRecord
<1>10. \A v \in SUBSET Users : [s EXCEPT !.had = v] \in ReqRecord  BY DEF ReqRecord
<1>11. \A v \in Delivered : [s EXCEPT !.delivered = v] \in ReqRecord  BY DEF ReqRecord
<1>12. \A v \in SUBSET Rooms : [s EXCEPT !.drop = v] \in ReqRecord  BY DEF ReqRecord
<1>13. \A v \in SUBSET Rooms : [s EXCEPT !.rooms = v] \in ReqRecord  BY DEF ReqRecord
<1>14. \A v \in SUBSET Rooms : [s EXCEPT !.made = v] \in ReqRecord  BY DEF ReqRecord
<1>15. \A v \in BOOLEAN : [s EXCEPT !.sync = v] \in ReqRecord  BY DEF ReqRecord
<1>16. \A v \in BOOLEAN : [s EXCEPT !.says = v] \in ReqRecord  BY DEF ReqRecord
<1>17. \A v \in BOOLEAN : [s EXCEPT !.enroute = v] \in ReqRecord  BY DEF ReqRecord
<1>18. \A v \in [Rooms -> SUBSET Users] : [s EXCEPT !.seen = v] \in ReqRecord  BY DEF ReqRecord
<1>19. \A v \in [Rooms -> SUBSET Users] : [s EXCEPT !.rows = v] \in ReqRecord  BY DEF ReqRecord
<1> QED  BY <1>1, <1>2, <1>3, <1>4, <1>5, <1>6, <1>7, <1>8, <1>9, <1>10, <1>11, <1>12, <1>13, <1>14, <1>15, <1>16, <1>17, <1>18, <1>19

\* A request of which others have changed something keeps all fields but seen and moved.
LEMMA TouchedRecord ==
  ASSUME NEW s \in ReqRecord, NEW C
  PROVE  /\ C \in SUBSET Pairs => Touched(s, C) \in ReqRecord
         /\ Same(Touched(s, C), s)
         /\ s.at \in {"present", "replace", "sync", "sweep"} =>
              Touched(s, C).moved = s.moved \cup C
         /\ s.at \in {"present", "replace"} =>
              \A r \in Rooms : Touched(s, C).seen[r] = {u \in s.seen[r] : <<r, u>> \notin C}
         /\ s.at \notin {"present", "replace"} => Touched(s, C).seen = s.seen
<1> DEFINE F == [r \in Rooms |-> {u \in s.seen[r] : <<r, u>> \notin C}]
<1>1. F \in [Rooms -> SUBSET Users] /\ (C \in SUBSET Pairs => s.moved \cup C \in SUBSET Pairs)
  BY DEF ReqRecord, Pairs
<1>2. CASE s.at \in {"present", "replace"}
  <2> HIDE DEF F
  <2>1. C \in SUBSET Pairs => [s EXCEPT !.moved = @ \cup C, !.seen = F] \in ReqRecord
    BY <1>1 DEF ReqRecord, Pairs
  <2>2. s.seen \in [Rooms -> SUBSET Users]  BY DEF ReqRecord
  <2>3. Touched(s, C) = [s EXCEPT !.moved = @ \cup C, !.seen = F]
    BY <1>2 DEF Touched, F
  <2>4. Touched(s, C).moved = s.moved \cup C /\ Touched(s, C).seen = F
    BY <2>3 DEF ReqRecord
  <2>6. \A r \in Rooms : F[r] \subseteq s.seen[r]  BY DEF F
  <2>7. Same(Touched(s, C), s)  BY <2>3, <2>4, <2>6 DEF ReqRecord, Same
  <2>5. \A r \in Rooms : F[r] = {u \in s.seen[r] : <<r, u>> \notin C}
    BY DEF F
  <2> QED  BY <1>2, <2>1, <2>3, <2>4, <2>5, <2>7
<1>3. CASE s.at \in {"sync", "sweep"}
  <2>1. C \in SUBSET Pairs => [s EXCEPT !.moved = @ \cup C] \in ReqRecord
    BY <1>1 DEF ReqRecord, Pairs
  <2>2. Touched(s, C) = [s EXCEPT !.moved = @ \cup C]
    BY <1>3 DEF Touched
  <2> QED  BY <1>3, <2>1, <2>2 DEF ReqRecord, Same
<1>4. CASE s.at \notin {"present", "replace", "sync", "sweep"}
  <2>1. Touched(s, C) = s
    BY <1>4 DEF Touched
  <2> QED  BY <1>4, <2>1 DEF Same
<1> QED  BY <1>2, <1>3, <1>4

\* A request is as it was when nothing it has read is changed.
LEMMA TouchedNothing ==
  ASSUME NEW s \in ReqRecord
  PROVE  Touched(s, {}) = s
<1>1. s.seen = [r \in Rooms |-> {u \in s.seen[r] : <<r, u>> \notin {}}]
  BY DEF ReqRecord
<1>2. s.moved \cup {} = s.moved  OBVIOUS
<1>3. [s EXCEPT !.moved = @ \cup {}] = s
  BY <1>2 DEF ReqRecord
<1>4. [s EXCEPT !.moved = @ \cup {}, !.seen = [r \in Rooms |-> {u \in @[r] : <<r, u>> \notin {}}]] = s
  BY <1>1, <1>2 DEF ReqRecord
<1> QED  BY <1>3, <1>4 DEF Touched

\* A slot takes the request on, and the others are touched.
LEMMA BecomesSlot ==
  ASSUME req \in [Reqs -> ReqRecord], NEW p \in Reqs, NEW s, NEW C, Becomes(p, s, C)
  PROVE  /\ req'[p] = s
         /\ \A q \in Reqs : q # p => req'[q] = Touched(req[q], C)
         /\ s \in ReqRecord /\ C \in SUBSET Pairs => req' \in [Reqs -> ReqRecord]
<1> DEFINE f == [q \in Reqs |-> Touched(req[q], C)]
<1>1. req' = [f EXCEPT ![p] = s]  BY DEF Becomes
<1>2. C \in SUBSET Pairs => f \in [Reqs -> ReqRecord]  BY TouchedRecord
<1>3. \A q \in Reqs : f[q] = Touched(req[q], C)  OBVIOUS
<1>4. DOMAIN f = Reqs  OBVIOUS
<1> HIDE DEF f
<1> QED  BY <1>1, <1>2, <1>3, <1>4

\* What becomes of a request whose driver is served.
LEMMA ServedRecord ==
  ASSUME NEW s \in ReqRecord
  PROVE  LET t == Served(s)
         IN /\ t \in ReqRecord
            /\ t.at \in {"idle", "fork", "rows", "next", "syncRead", "tell"}
            /\ t.at \in {"fork", "rows"} => t.task = "fork" /\ s.task = "fork" /\ t.room = s.room /\ t.rows = s.rows /\ t.load = s.load
            /\ t.at = "next" => /\ s.task # "fork" /\ t.task = "create" /\ t.had = s.had /\ t.room = s.room
                                /\ t.left = s.left /\ t.all = s.all /\ t.load = s.load /\ t.rows = s.rows
            /\ t.at = "syncRead" => t.load = s.load /\ t.rows = s.rows
            /\ t.at = "tell" => t.rows = s.rows
            /\ t.rooms \in {s.rooms, {}} /\ t.made \in {s.made, {}} /\ t.rows \in {s.rows, None}
            /\ t.task = "fork" => s.task = "fork" /\ t.load = s.load
            /\ t.room \in {NULL, s.room}
<1> DEFINE u == [s EXCEPT !.driver = NULL, !.drop = {}, !.had = {}, !.delivered = "no"]
<1>1. u \in ReqRecord
  BY DEF ReqRecord, Delivered
<1>3. /\ u.task = s.task /\ u.room = s.room /\ u.rows = s.rows /\ u.load = s.load /\ u.left = s.left
      /\ u.all = s.all /\ u.rooms = s.rooms /\ u.made = s.made
  BY DEF ReqRecord
<1> HIDE DEF u
<1>4. Idle \in ReqRecord /\ Idle.at = "idle" /\ Idle.rooms = {} /\ Idle.made = {} /\ Idle.rows = None /\ Idle.room = NULL /\ Idle.task = "other"
  BY DEF Idle, ReqRecord, Stages, None, Delivered
<1>5. \/ Served(s) = Idle
      \/ s.task = "fork" /\ Served(s) \in {[u EXCEPT !.at = "fork"], [u EXCEPT !.at = "rows"]}
      \/ s.task # "fork" /\ Served(s) = [u EXCEPT !.at = "next", !.task = "create", !.had = s.had]
      \/ s.task # "fork" /\ Served(s) \in {[u EXCEPT !.at = "syncRead"], [u EXCEPT !.at = "tell"]}
  BY DEF Served, u
<1>6. CASE Served(s) = Idle
  BY <1>4, <1>6
<1>7. CASE s.task = "fork" /\ Served(s) \in {[u EXCEPT !.at = "fork"], [u EXCEPT !.at = "rows"]}
  BY <1>1, <1>3, <1>7 DEF ReqRecord, Stages
<1>8. CASE s.task # "fork" /\ Served(s) = [u EXCEPT !.at = "next", !.task = "create", !.had = s.had]
  <2> DEFINE t == [u EXCEPT !.at = "next", !.task = "create", !.had = s.had]
  <2>1. s.had \in SUBSET Users  BY DEF ReqRecord
  <2>2. t \in ReqRecord
    BY <1>1, <2>1, FieldTypes DEF Stages
  <2>3. /\ t.at = "next" /\ t.task = "create" /\ t.had = s.had /\ t.room = u.room /\ t.rows = u.rows
        /\ t.load = u.load /\ t.rooms = u.rooms /\ t.made = u.made /\ t.left = u.left /\ t.all = u.all
    BY <1>1 DEF ReqRecord
  <2> HIDE DEF t
  <2>4. Served(s) = t  BY <1>8 DEF t
  <2> QED  BY <1>3, <1>8, <2>2, <2>3, <2>4
<1>9. CASE s.task # "fork" /\ Served(s) \in {[u EXCEPT !.at = "syncRead"], [u EXCEPT !.at = "tell"]}
  <2>1. PICK a \in {"syncRead", "tell"} : Served(s) = [u EXCEPT !.at = a]
    BY <1>9
  <2>2. [u EXCEPT !.at = a] \in ReqRecord
    BY <1>1 DEF ReqRecord, Stages
  <2>3. LET t == [u EXCEPT !.at = a]
        IN /\ t.at = a /\ t.task = u.task /\ t.room = u.room /\ t.rows = u.rows
           /\ t.load = u.load /\ t.rooms = u.rooms /\ t.made = u.made
    BY <1>1 DEF ReqRecord
  <2> QED  BY <1>3, <1>9, <2>1, <2>2, <2>3
<1> QED  BY <1>5, <1>6, <1>7, <1>8, <1>9

\* A slot without a request.
LEMMA IdleRecord ==
  /\ Idle \in ReqRecord /\ Idle.at = "idle" /\ Idle.task = "other" /\ Idle.room = NULL
  /\ Idle.rooms = {} /\ Idle.made = {} /\ Idle.rows = None
  /\ Known(Idle)
<1>1. /\ Idle \in ReqRecord /\ Idle.at = "idle" /\ Idle.task = "other" /\ Idle.room = NULL
      /\ Idle.rooms = {} /\ Idle.made = {} /\ Idle.rows = None
  BY DEF Idle, ReqRecord, Stages, None, Delivered
<1>2. \A r \in Rooms : None[r] = {}  BY DEF None
<1>3. Known(Idle)  BY <1>1, <1>2 DEF Known
<1> QED  BY <1>1, <1>3

\* What a mix is about.
LEMMA MixTypes ==
  ASSUME mix \in Mixes
  PROVE  /\ mix.drivers \subseteq Drivers /\ mix.staff \subseteq Staff /\ mix.loads \subseteq Loads
         /\ \A S \in mix.teams \cup mix.adds : S \subseteq Staff
         /\ mix.rooms \in 0..MaxRooms /\ mix.offered \in Seq(Drivers) /\ Len(mix.offered) <= mix.rooms
         /\ mix.sells \in Staff /\ mix.offerLoad \in Loads
         /\ Chosen \in Drivers \cup {NULL}
         /\ Chosen \in Drivers => mix.offered # <<>> /\ Chosen = mix.offered[1]
<1>1. /\ mix.drivers \subseteq Drivers /\ mix.staff \subseteq Staff /\ mix.loads \subseteq Loads
      /\ mix.teams \subseteq SUBSET mix.staff /\ mix.adds \subseteq SUBSET mix.staff
      /\ mix.rooms \in 0..MaxRooms /\ mix.offered \in Seq(Drivers) /\ Len(mix.offered) <= mix.rooms
      /\ mix.sells \in Staff /\ mix.offerLoad \in Loads
  BY MixesAssumption
<1>2. mix.offered # <<>> => mix.offered[1] \in Drivers  BY <1>1
<1>3. NULL \notin Drivers  BY UsersAssumption
<1> QED  BY <1>1, <1>2, <1>3 DEF Chosen

\* A request that goes on with what it has read knows what it knew.
LEMMA KnownSame ==
  ASSUME NEW s, NEW t, Known(s), Same(t, s)
  PROVE  Known(t)
<1>a. \A r \in Rooms : t.seen[r] \subseteq s.seen[r]  BY DEF Same
<1>1. ASSUME s.at \in {"present", "replace"}, NEW r \in Rooms \ s.rooms  PROVE t.seen[r] = {}
  <2>1. s.seen[r] = {}  BY <1>1 DEF Known
  <2> QED  BY <1>a, <2>1
<1>2. ASSUME s.at \in {"present", "replace"}, NEW r \in Rooms  PROVE t.seen[r] \subseteq Tracking \ s.staff
  <2>1. s.seen[r] \subseteq Tracking \ s.staff  BY <1>2 DEF Known
  <2> QED  BY <1>a, <2>1
<1> QED  BY <1>1, <1>2 DEF Known, Same

\* A step in which one request becomes s, and the rest of the state keeps its shape.
LEMMA TypeSlot ==
  ASSUME TypeInv, NEW p \in Reqs, NEW s \in ReqRecord, NEW C \in SUBSET Pairs,
         Becomes(p, s, C), Known(s), mix' = mix,
         room' \in [Rooms -> RoomRecord \cup {NULL}], member' \in [Rooms -> SUBSET Users],
         created' \in 0..MaxRooms, offers' \subseteq Loads,
         tracking' \in [Drivers -> Loads \cup {NULL}],
         lock' \in [Loads \X Drivers -> Reqs \cup {NULL}], raced' \subseteq Rooms
  PROVE  TypeInv'
<1>1. req \in [Reqs -> ReqRecord] /\ mix \in Mixes  BY DEF TypeInv, TypeOK
<1>2. /\ req'[p] = s /\ req' \in [Reqs -> ReqRecord]
      /\ \A q \in Reqs : q # p => req'[q] = Touched(req[q], C)
  BY <1>1, BecomesSlot
<1>3. TypeOK'  BY <1>1, <1>2 DEF TypeOK
<1>4. ASSUME NEW q \in Reqs  PROVE Known(req[q])'
  <2>1. CASE q = p  BY <1>2, <2>1 DEF Known
  <2>2. CASE q # p
    <3>1. req'[q] = Touched(req[q], C)  BY <1>2, <2>2
    <3>2. Same(req'[q], req[q])  BY <1>1, <3>1, TouchedRecord
    <3>3. Known(req[q])  BY DEF TypeInv
    <3>4. Known(req'[q])  BY <3>2, <3>3, KnownSame
    <3> QED  BY <3>4 DEF Known
  <2> QED  BY <2>1, <2>2
<1> QED  BY <1>3, <1>4 DEF TypeInv

\* Steps that read, or write users and offers only.
LEMMA QuietTypes ==
  ASSUME TypeInv, NEW p \in Reqs, NEW s \in ReqRecord,
         Becomes(p, s, {}), Known(s), UNCHANGED <<chats, mix>>, offers' \subseteq offers,
         tracking' \in [Drivers -> Loads \cup {NULL}],
         lock' \in [Loads \X Drivers -> Reqs \cup {NULL}], raced' = raced
  PROVE  TypeInv'
BY TypeSlot DEF TypeInv, TypeOK, chats

\* A step beside the requests.
LEMMA TypeBeside ==
  ASSUME TypeInv, NEW C \in SUBSET Pairs, Others(C) \/ req' = req, mix' = mix,
         room' \in [Rooms -> RoomRecord \cup {NULL}], member' \in [Rooms -> SUBSET Users],
         created' = created, offers' = offers, lock' = lock,
         tracking' \in [Drivers -> Loads \cup {NULL}], raced' \subseteq Rooms
  PROVE  TypeInv'
<1>1. req \in [Reqs -> ReqRecord] /\ mix \in Mixes  BY DEF TypeInv, TypeOK
<1>2. \A q \in Reqs : req'[q] \in {Touched(req[q], C), req[q]}  BY <1>1 DEF Others
<1>3. \A q \in Reqs : req'[q] \in ReqRecord /\ Same(req'[q], req[q])
  BY <1>1, <1>2, TouchedRecord DEF Same
<1>4. req' \in [Reqs -> ReqRecord]  BY <1>1, <1>3 DEF Others
<1>5. TypeOK'  BY <1>1, <1>4 DEF TypeInv, TypeOK
<1>6. ASSUME NEW q \in Reqs  PROVE Known(req[q])'
  <2>1. Same(req'[q], req[q]) /\ Known(req[q])  BY <1>3 DEF TypeInv
  <2>2. Known(req'[q])  BY <2>1, KnownSame
  <2> QED  BY <2>2 DEF Known
<1> QED  BY <1>5, <1>6 DEF TypeInv

\* The fields of a request.
LEMMA RequestTypes ==
  ASSUME TypeInv, NEW p \in Reqs
  PROVE  /\ req[p] \in ReqRecord /\ Known(req[p])
         /\ req[p].at \in Stages /\ req[p].load \in Loads \cup {NULL} /\ req[p].all \in SUBSET Drivers
         /\ req[p].left \in SUBSET Drivers /\ req[p].driver \in Drivers \cup {NULL}
         /\ req[p].staff \in SUBSET Staff /\ req[p].room \in Rooms \cup {NULL} /\ req[p].had \in SUBSET Users
         /\ req[p].delivered \in Delivered /\ req[p].drop \in SUBSET Rooms /\ req[p].rooms \in SUBSET Rooms
         /\ req[p].made \in SUBSET Rooms /\ req[p].seen \in [Rooms -> SUBSET Users]
         /\ req[p].rows \in [Rooms -> SUBSET Users] /\ req[p].moved \in SUBSET Pairs
BY DEF TypeInv, TypeOK, ReqRecord, Pairs

\* The types of the state, by themselves.
LEMMA StateTypes ==
  ASSUME TypeInv
  PROVE  /\ room \in [Rooms -> RoomRecord \cup {NULL}] /\ member \in [Rooms -> SUBSET Users]
         /\ created \in 0..MaxRooms /\ offers \subseteq Loads
         /\ tracking \in [Drivers -> Loads \cup {NULL}]
         /\ lock \in [Loads \X Drivers -> Reqs \cup {NULL}]
         /\ req \in [Reqs -> ReqRecord] /\ raced \subseteq Rooms /\ mix \in Mixes
         /\ \A p \in Reqs : Unlocked(p) \in [Loads \X Drivers -> Reqs \cup {NULL}]
BY DEF TypeInv, TypeOK, Unlocked

\* A request that comes in has its type.
LEMMA BeginTypes ==
  ASSUME TypeInv, NEW p \in Reqs, Begin(p)
  PROVE  TypeInv'
<1>0. mix \in Mixes  BY DEF TypeInv, TypeOK
<1> USE <1>0
<1>1. ASSUME NEW l \in mix.loads, NEW D \in SUBSET mix.drivers, NEW S \in mix.teams,
             NEW b \in BOOLEAN, NEW c \in BOOLEAN, CreateBegin(p, l, D, S, b, c)
      PROVE  TypeInv'
  <2> DEFINE s == [Idle EXCEPT !.at = "offer", !.task = "create", !.load = l, !.all = D,
                    !.left = D, !.staff = S, !.sync = b, !.says = c]
  <2>1. s \in ReqRecord  BY MixTypes, IdleRecord, FieldTypes DEF Stages
  <2>2. Known(s)  BY MixTypes DEF Known, Idle, None
  <2>3. Becomes(p, s, {})  BY <1>1 DEF CreateBegin, Enter
  <2> HIDE DEF s
  <2>9. UNCHANGED <<chats, offers, tracking, lock, raced, mix>>  BY <1>1 DEF CreateBegin, rest
  <2> QED  BY <2>1, <2>2, <2>3, <2>9, QuietTypes, StateTypes
<1>2. ASSUME NEW u \in mix.staff, NEW r \in Rooms, NEW D \in SUBSET mix.drivers, NEW S \in mix.adds,
             AddBegin(p, u, r, D \cup S)
      PROVE  TypeInv'
  <2> DEFINE a == IF DriversOf(r) = {} THEN "attach" ELSE "fork"
             s == [Idle EXCEPT !.at = a, !.task = "fork", !.by = u, !.load = room[r].load, !.room = r,
                    !.left = (D \cup S) \cap Drivers, !.rows = [None EXCEPT ![r] = (D \cup S) \cap Staff]]
  <2>1. room[r].load \in Loads  BY <1>2, StateTypes DEF AddBegin, Live, RoomRecord
  <2>2. [None EXCEPT ![r] = (D \cup S) \cap Staff] \in [Rooms -> SUBSET Staff]  BY DEF None
  <2>3. u \in Users /\ SUBSET Staff \subseteq SUBSET Users  BY MixTypes DEF Users
  <2>4. [None EXCEPT ![r] = (D \cup S) \cap Staff] \in [Rooms -> SUBSET Users]  BY <2>2, <2>3
  <2>5. s \in ReqRecord  BY <2>1, <2>3, <2>4, MixTypes, IdleRecord, FieldTypes DEF Stages
  <2>6. a \in mix.kinds  BY <1>2 DEF AddBegin, Enter
  <2>7. Known(s)  BY <2>1, <2>2, <2>6 DEF Known, Idle
  <2>8. Becomes(p, s, {})  BY <1>2 DEF AddBegin, Enter
  <2> HIDE DEF s
  <2>9. UNCHANGED <<chats, offers, tracking, lock, raced, mix>>  BY <1>2 DEF AddBegin, rest
  <2> QED  BY <2>5, <2>7, <2>8, <2>9, QuietTypes, StateTypes
<1>3. ASSUME NEW S \in mix.teams, NEW X \in SUBSET mix.loads, TransferBegin(p, mix.sells, S, X)
      PROVE  TypeInv'
  <2> DEFINE R == {r \in UNION {LoadRooms(l) : l \in Loads \ X} :
                     ~room[r].isLoadArchived /\ mix.sells \in member[r]}
             s == [Idle EXCEPT !.at = "roles", !.by = mix.sells, !.staff = S, !.rooms = R]
  <2>1. R \in SUBSET Rooms /\ mix.sells \in Users  BY MixTypes DEF LoadRooms, Users
  <2> HIDE DEF R
  <2>2. s \in ReqRecord  BY <2>1, MixTypes, IdleRecord, FieldTypes DEF Stages
  <2>3. Known(s)  BY MixTypes DEF Known, Idle, None
  <2>4. Becomes(p, s, {})  BY <1>3 DEF TransferBegin, Enter, R
  <2> HIDE DEF s
  <2>9. UNCHANGED <<chats, offers, tracking, lock, raced, mix>>  BY <1>3 DEF TransferBegin, rest
  <2> QED  BY <2>2, <2>3, <2>4, <2>9, QuietTypes, StateTypes
<1>4. ASSUME NEW l \in mix.loads, NEW d \in mix.drivers, NEW b \in BOOLEAN, StatusBegin(p, l, d, b)
      PROVE  TypeInv'
  <2> DEFINE s == [Idle EXCEPT !.at = "reactivateRead", !.load = l, !.driver = d, !.enroute = b]
  <2>1. s \in ReqRecord  BY MixTypes, IdleRecord, FieldTypes DEF Stages
  <2>2. Known(s)  BY MixTypes DEF Known, Idle, None
  <2>3. Becomes(p, s, {})  BY <1>4 DEF StatusBegin, Enter
  <2> HIDE DEF s
  <2>9. UNCHANGED <<chats, offers, tracking, lock, raced, mix>>  BY <1>4 DEF StatusBegin, rest
  <2> QED  BY <2>1, <2>2, <2>3, <2>9, QuietTypes, StateTypes
<1>5. ASSUME SweepRead(p)  PROVE TypeInv'
  <2> DEFINE s == [Idle EXCEPT !.at = "sweep", !.rooms = Due, !.drop = {r \in Due : ~room[r].messages}]
  <2>0. Due \in SUBSET Rooms  BY DEF Due
  <2>1. s \in ReqRecord  BY <2>0, MixTypes, IdleRecord, FieldTypes DEF Stages
  <2>2. Known(s)  BY MixTypes DEF Known, Idle, None
  <2>3. Becomes(p, s, {})  BY <1>5 DEF SweepRead, Enter
  <2> HIDE DEF s
  <2>9. UNCHANGED <<chats, offers, tracking, lock, raced, mix>>  BY <1>5 DEF SweepRead, rest
  <2> QED  BY <2>1, <2>2, <2>3, <2>9, QuietTypes, StateTypes
<1> QED  BY <1>1, <1>2, <1>3, <1>4, <1>5 DEF Begin

\* A request is served by what it knows.
LEMMA ServedKnown ==
  ASSUME NEW s \in ReqRecord, s.load \in Loads, s.task # "fork" => s.left \subseteq s.all,
         s.task = "fork" => s.room \in Rooms,
         "attach" \notin mix.kinds => \A r \in Rooms : s.rows[r] \subseteq Staff
  PROVE  Served(s) \in ReqRecord /\ Known(Served(s))
<1> DEFINE t == Served(s)
<1>1. t \in ReqRecord /\ t.at \in {"idle", "fork", "rows", "next", "syncRead", "tell"}
  BY ServedRecord
<1>2. t.at \in {"fork", "rows"} => t.task = "fork" /\ t.room \in Rooms /\ t.load \in Loads
  BY ServedRecord
<1>3. t.at = "next" => t.task = "create" /\ t.left \subseteq t.all /\ t.load \in Loads
  BY ServedRecord
<1>4. t.at = "syncRead" => t.load \in Loads
  BY ServedRecord
<1>5. "attach" \notin mix.kinds => \A r \in Rooms : t.rows[r] \subseteq Staff
  BY ServedRecord DEF None
<1> HIDE DEF t
<1>6. Known(t)  BY <1>1, <1>2, <1>3, <1>4, <1>5 DEF Known
<1> QED  BY <1>1, <1>6 DEF t

\* Requests that go on by reading.
LEMMA ReadTypes ==
  ASSUME TypeInv, NEW p \in Reqs,
         \/ CreateOffer(p) \/ CreateDoomed(p) \/ LockFind(p) \/ SyncRead(p)
         \/ \E d \in Drivers : CreateNext(p, d) \/ AttachFind(p, d) \/ ForkRead(p, d)
         \/ TransferRoles(p) \/ TransferPresent(p) \/ ReactivateRead(p)
         \/ StartTracking(p) \/ CleanOffers(p) \/ Fail(p)
  PROVE  TypeInv'
<1>a. /\ req[p] \in ReqRecord /\ Known(req[p]) /\ req[p].load \in Loads \cup {NULL}
      /\ req[p].left \in SUBSET Drivers /\ req[p].all \in SUBSET Drivers
      /\ req[p].room \in Rooms \cup {NULL} /\ req[p].rooms \in SUBSET Rooms
      /\ req[p].staff \in SUBSET Staff /\ req[p].rows \in [Rooms -> SUBSET Users]
  BY RequestTypes
<1>b. /\ room \in [Rooms -> RoomRecord \cup {NULL}] /\ member \in [Rooms -> SUBSET Users]
      /\ tracking \in [Drivers -> Loads \cup {NULL}]
      /\ lock \in [Loads \X Drivers -> Reqs \cup {NULL}] /\ mix \in Mixes
      /\ Unlocked(p) \in [Loads \X Drivers -> Reqs \cup {NULL}]
  BY StateTypes
<1>1. ASSUME CreateOffer(p)  PROVE TypeInv'
  <2> DEFINE t == [req[p] EXCEPT !.at = "next"]
  <2>1. t \in ReqRecord  BY <1>a, FieldTypes DEF Stages
  <2>2. Known(t)  BY <1>1, <1>a DEF Known, CreateOffer, ReqRecord
  <2>3. ASSUME NEW r \in Rooms
        PROVE  [t EXCEPT !.room = r, !.had = member[r]] \in ReqRecord /\ Known([t EXCEPT !.room = r, !.had = member[r]])
    <3>1. [t EXCEPT !.room = r, !.had = member[r]] \in ReqRecord  BY <1>b, <2>1, FieldTypes
    <3>2. t.at = "next" /\ [t EXCEPT !.room = r, !.had = member[r]].at = "next"  BY <2>1, <1>a DEF ReqRecord
    <3> HIDE DEF t
    <3> QED  BY <2>1, <2>2, <3>1, <3>2 DEF Known, ReqRecord
  <2> HIDE DEF t
  <2>4. \E s \in ReqRecord : Known(s) /\ Becomes(p, s, {})
    BY <1>1, <2>1, <2>2, <2>3 DEF CreateOffer, OfferRooms, t
  <2>5. UNCHANGED <<chats, offers, tracking, lock, raced, mix>>  BY <1>1 DEF CreateOffer, rest
  <2> QED  BY <1>b, <2>4, <2>5, QuietTypes
<1>2. ASSUME CreateDoomed(p)  PROVE TypeInv'
  <2> DEFINE R == {r \in OfferRooms(req[p].load) \ {req[p].room} : DriversOf(r) \cap req[p].all = {}}
             s == [req[p] EXCEPT !.at = "lock", !.drop = R]
  <2>1. R \in SUBSET Rooms  BY DEF OfferRooms
  <2> HIDE DEF R
  <2>2. s \in ReqRecord  BY <1>a, <2>1, FieldTypes DEF Stages
  <2>3. Known(s)  BY <1>2, <1>a DEF Known, CreateDoomed, ReqRecord
  <2>4. Becomes(p, s, {})  BY <1>2 DEF CreateDoomed, R
  <2>5. UNCHANGED <<chats, offers, tracking, lock, raced, mix>>  BY <1>2 DEF CreateDoomed, rest
  <2> HIDE DEF s
  <2> QED  BY <1>b, <2>2, <2>3, <2>4, <2>5, QuietTypes
<1>3. ASSUME LockFind(p)  PROVE TypeInv'
  <2> DEFINE u == [req[p] EXCEPT !.room = IF req[p].task = "convert" THEN NULL ELSE @]
             w == [req[p] EXCEPT !.at = "write"]
  <2>1. req[p].at = "lock" /\ req[p].load \in Loads /\ req[p].driver \in Drivers
    BY <1>3, <1>a DEF LockFind, Known
  <2>2. w \in ReqRecord /\ Known(w)
    <3>1. w \in ReqRecord  BY <1>a, FieldTypes DEF Stages
    <3>2. Known(w)  BY <2>1, <1>a DEF Known, ReqRecord
    <3> QED  BY <3>1, <3>2
  <2>3. Served(u) \in ReqRecord /\ Known(Served(u))
    <3>1. u \in ReqRecord  BY <1>a, FieldTypes
    <3>2. /\ u.load \in Loads
          /\ u.task # "fork" => u.left \subseteq u.all
          /\ u.task = "fork" => u.room \in Rooms
          /\ "attach" \notin mix.kinds => \A r \in Rooms : u.rows[r] \subseteq Staff
      BY <1>a, <2>1 DEF Known, ReqRecord
    <3> HIDE DEF u
    <3> QED  BY <3>1, <3>2, ServedKnown
  <2>4. lock' \in [Loads \X Drivers -> Reqs \cup {NULL}]
    BY <1>3, <1>b, <2>1 DEF LockFind
  <2>5. Becomes(p, Served(u), {}) \/ Becomes(p, w, {})  BY <1>3 DEF LockFind
  <2>6. UNCHANGED <<chats, offers, tracking, raced, mix>>  BY <1>3 DEF LockFind, rest
  <2> HIDE DEF u, w
  <2> QED  BY <1>b, <2>2, <2>3, <2>4, <2>5, <2>6, QuietTypes
<1>4. ASSUME SyncRead(p)  PROVE TypeInv'
  <2> DEFINE R == LoadRooms(req[p].load)
             f == [r \in Rooms |-> IF r \in R THEN StaffOf(r) ELSE {}]
             s == [req[p] EXCEPT !.at = "sync", !.rooms = R, !.seen = f]
  <2>1. R \in SUBSET Rooms  BY DEF LoadRooms
  <2>2. f \in [Rooms -> SUBSET Users]  BY <1>b DEF StaffOf
  <2> HIDE DEF R, f
  <2>3. s \in ReqRecord  BY <1>a, <2>1, <2>2, FieldTypes DEF Stages
  <2>4. Known(s)  BY <1>4, <1>a DEF Known, SyncRead, ReqRecord
  <2>5. Becomes(p, s, {}) \/ Becomes(p, Idle, {})  BY <1>4 DEF SyncRead, R, f
  <2>6. UNCHANGED <<chats, offers, tracking, lock, raced, mix>>  BY <1>4 DEF SyncRead, rest
  <2> HIDE DEF s
  <2> QED  BY <1>b, <2>3, <2>4, <2>5, <2>6, QuietTypes, IdleRecord
<1>5. ASSUME NEW d \in Drivers, CreateNext(p, d)  PROVE TypeInv'
  <2> DEFINE s == [req[p] EXCEPT !.left = @ \ {d}, !.driver = d]
             v == [s EXCEPT !.at = "doomed", !.task = "convert"]
             w == [s EXCEPT !.at = "lock"]
  <2>1. req[p].at = "next" /\ req[p].load \in Loads /\ req[p].task = "create" /\ req[p].left \subseteq req[p].all
    BY <1>5, <1>a DEF CreateNext, Known
  <2>2. s \in ReqRecord  BY <1>a, FieldTypes
  <2>3. /\ s.load \in Loads /\ s.left \subseteq s.all /\ s.task = "create" /\ s.driver = d /\ s.room = req[p].room
        /\ "attach" \notin mix.kinds => \A r \in Rooms : s.rows[r] \subseteq Staff
    BY <1>a, <2>1 DEF Known, ReqRecord
  <2> HIDE DEF s
  <2>4. Served(s) \in ReqRecord /\ Known(Served(s))  BY <2>2, <2>3, ServedKnown
  <2>5. w \in ReqRecord /\ Known(w)
    <3>1. w \in ReqRecord  BY <2>2, FieldTypes DEF Stages
    <3>2. Known(w)  BY <2>2, <2>3 DEF Known, ReqRecord
    <3> QED  BY <3>1, <3>2
  <2>6. req[p].room # NULL => v \in ReqRecord /\ Known(v)
    <3>1. v \in ReqRecord  BY <2>2, FieldTypes DEF Stages
    <3>2. s.room \in Rooms => Known(v)  BY <2>2, <2>3 DEF Known, ReqRecord
    <3> QED  BY <1>a, <2>3, <3>1, <3>2
  <2>7. Becomes(p, Served(s), {}) \/ Becomes(p, w, {}) \/ (req[p].room # NULL /\ Becomes(p, v, {}))
    BY <1>5, <2>3 DEF CreateNext, s
  <2>8. UNCHANGED <<chats, offers, tracking, lock, raced, mix>>  BY <1>5 DEF CreateNext, rest
  <2> HIDE DEF v, w
  <2> QED  BY <1>b, <2>4, <2>5, <2>6, <2>7, <2>8, QuietTypes
<1>6. ASSUME NEW d \in Drivers, AttachFind(p, d)  PROVE TypeInv'
  <2> DEFINE s == [req[p] EXCEPT !.left = @ \ {d}]
             v == [s EXCEPT !.rows[s.room] = @ \cup {d}]
  <2>1. /\ req[p].load \in Loads /\ req[p].task = "fork" /\ req[p].room \in Rooms
        /\ "attach" \in mix.kinds
    BY <1>6, <1>a DEF AttachFind, Known
  <2>2. s \in ReqRecord  BY <1>a, FieldTypes
  <2>3. s.load = req[p].load /\ s.task = "fork" /\ s.room = req[p].room /\ s.rows = req[p].rows
    BY <1>a, <2>1 DEF ReqRecord
  <2> HIDE DEF s
  <2>4. v \in ReqRecord
    <3>1. d \in Users  BY DEF Users
    <3>2. [s.rows EXCEPT ![s.room] = @ \cup {d}] \in [Rooms -> SUBSET Users]
      BY <1>a, <2>1, <2>3, <3>1
    <3> QED  BY <2>2, <3>2, FieldTypes
  <2>5. v.load = s.load /\ v.task = s.task /\ v.room = s.room
    BY <2>2 DEF ReqRecord
  <2> HIDE DEF v
  <2>6. Served(s) \in ReqRecord /\ Known(Served(s))  BY <2>1, <2>2, <2>3, ServedKnown
  <2>7. Served(v) \in ReqRecord /\ Known(Served(v))  BY <2>1, <2>3, <2>4, <2>5, ServedKnown
  <2>8. Becomes(p, Served(s), {}) \/ Becomes(p, Served(v), {})
    BY <1>6 DEF AttachFind, s, v
  <2>9. UNCHANGED <<chats, offers, tracking, lock, raced, mix>>  BY <1>6 DEF AttachFind, rest
  <2> QED  BY <1>b, <2>6, <2>7, <2>8, <2>9, QuietTypes
<1>7. ASSUME NEW d \in Drivers, ForkRead(p, d)  PROVE TypeInv'
  <2> DEFINE r == req[p].room
             s == [req[p] EXCEPT !.left = @ \ {d}]
             w == [s EXCEPT !.at = "lock", !.driver = d, !.had = StaffOf(r), !.delivered = room[r].delivered]
  <2>1. req[p].load \in Loads /\ req[p].task = "fork" /\ r \in Rooms /\ Live(r)
    BY <1>7, <1>a DEF ForkRead, Known
  <2>2. s \in ReqRecord  BY <1>a, FieldTypes
  <2>3. /\ s.load = req[p].load /\ s.task = "fork" /\ s.room = r /\ s.rows = req[p].rows
        /\ "attach" \notin mix.kinds => \A x \in Rooms : s.rows[x] \subseteq Staff
    BY <1>a, <2>1 DEF ReqRecord, Known
  <2> HIDE DEF s
  <2>4. Served(s) \in ReqRecord /\ Known(Served(s))  BY <2>1, <2>2, <2>3, ServedKnown
  <2>5. w \in ReqRecord /\ Known(w)
    <3>1. room[r].delivered \in Delivered /\ StaffOf(r) \in SUBSET Users
      BY <1>b, <2>1 DEF Live, RoomRecord, StaffOf
    <3>2. w \in ReqRecord  BY <2>2, <3>1, FieldTypes DEF Stages
    <3>3. w.at = "lock" /\ w.task = "fork" /\ w.had \subseteq Staff /\ w.driver = d
      BY <2>2, <2>3 DEF ReqRecord, StaffOf
    <3>4. w.load = s.load /\ w.room = s.room /\ w.rows = s.rows  BY <2>2 DEF ReqRecord
    <3> HIDE DEF w
    <3>5. Known(w)  BY <2>1, <2>3, <3>3, <3>4 DEF Known
    <3> QED  BY <3>2, <3>5
  <2>6. Becomes(p, Served(s), {}) \/ Becomes(p, w, {})  BY <1>7, <2>3 DEF ForkRead, s
  <2>7. UNCHANGED <<chats, offers, tracking, lock, raced, mix>>  BY <1>7 DEF ForkRead, rest
  <2> HIDE DEF w
  <2> QED  BY <1>b, <2>4, <2>5, <2>6, <2>7, QuietTypes
<1>8. ASSUME TransferRoles(p) \/ TransferPresent(p)  PROVE TypeInv'
  <2> DEFINE f == [r \in Rooms |-> IF r \in req[p].rooms THEN (member[r] \cap Tracking) \ req[p].staff ELSE {}]
             g == [r \in Rooms |-> IF r \in req[p].rooms THEN req[p].staff \ member[r] ELSE {}]
             v == [req[p] EXCEPT !.at = "present", !.seen = f]
             w == [req[p] EXCEPT !.at = "replace", !.rows = g]
  <2>1. f \in [Rooms -> SUBSET Users]  BY <1>b
  <2>2. g \in [Rooms -> SUBSET Staff] /\ g \in [Rooms -> SUBSET Users]  BY <1>a DEF Users
  <2>7. \A r \in Rooms : /\ f[r] \subseteq Tracking \ req[p].staff /\ g[r] \subseteq req[p].staff
                         /\ r \notin req[p].rooms => f[r] = {} /\ g[r] = {}
    OBVIOUS
  <2> HIDE DEF f, g
  <2>3. v \in ReqRecord /\ w \in ReqRecord  BY <1>a, <2>1, <2>2, FieldTypes DEF Stages
  <2>4. Known(v)
    <3>1. v.at = "present" /\ v.seen = f /\ v.staff = req[p].staff /\ v.rooms = req[p].rooms /\ v.rows = req[p].rows
      BY <1>a DEF ReqRecord
    <3>2. "attach" \notin mix.kinds => \A r \in Rooms : req[p].rows[r] \subseteq Staff  BY <1>a DEF Known
    <3> HIDE DEF v
    <3>3. \A r \in Rooms \ v.rooms : v.seen[r] = {}  BY <2>7, <3>1
    <3>4. \A r \in Rooms : v.seen[r] \subseteq Tracking \ v.staff  BY <2>7, <3>1
    <3>5. "attach" \notin mix.kinds => \A r \in Rooms : v.rows[r] \subseteq Staff  BY <3>1, <3>2
    <3> QED  BY <3>1, <3>3, <3>4, <3>5 DEF Known
  <2>8. req[p].at = "present" => Known(w)
    <3>1. w.at = "replace" /\ w.seen = req[p].seen /\ w.staff = req[p].staff /\ w.rooms = req[p].rooms /\ w.rows = g
      BY <1>a DEF ReqRecord
    <3>2. \A r \in Rooms : g[r] \subseteq Staff  BY <2>2
    <3>3. ASSUME req[p].at = "present"
          PROVE  /\ \A r \in Rooms \ req[p].rooms : req[p].seen[r] = {}
                 /\ \A r \in Rooms : req[p].seen[r] \subseteq Tracking \ req[p].staff
      BY <1>a, <3>3 DEF Known
    <3> HIDE DEF w
    <3>4. \A r \in Rooms \ w.rooms : w.rows[r] = {}  BY <2>7, <3>1
    <3>5. \A r \in Rooms : w.rows[r] \subseteq w.staff  BY <2>7, <3>1
    <3>6. "attach" \notin mix.kinds => \A r \in Rooms : w.rows[r] \subseteq Staff  BY <3>1, <3>2
    <3>7. req[p].at = "present" => /\ \A r \in Rooms \ w.rooms : w.seen[r] = {}
                                  /\ \A r \in Rooms : w.seen[r] \subseteq Tracking \ w.staff
      BY <3>1, <3>3
    <3> QED  BY <3>1, <3>4, <3>5, <3>6, <3>7 DEF Known
  <2>5. Becomes(p, v, {}) \/ (req[p].at = "present" /\ Becomes(p, w, {}))  BY <1>8 DEF TransferRoles, TransferPresent, f, g
  <2>6. UNCHANGED <<chats, offers, tracking, lock, raced, mix>>
    BY <1>8 DEF TransferRoles, TransferPresent, rest
  <2> HIDE DEF v, w
  <2> QED  BY <1>b, <2>3, <2>4, <2>5, <2>6, <2>8, QuietTypes
<1>9. ASSUME ReactivateRead(p)  PROVE TypeInv'
  <2> DEFINE v == [req[p] EXCEPT !.at = "reactivate"]
             w == [req[p] EXCEPT !.at = "track"]
  <2>1. v \in ReqRecord /\ w \in ReqRecord  BY <1>a, FieldTypes DEF Stages
  <2>2. Known(v) /\ Known(w)  BY <1>9, <1>a DEF Known, ReqRecord, ReactivateRead
  <2>3. Becomes(p, v, {}) \/ Becomes(p, w, {}) \/ Becomes(p, Idle, {})
    BY <1>9 DEF ReactivateRead, Reactivated
  <2>4. UNCHANGED <<chats, offers, tracking, lock, raced, mix>>  BY <1>9 DEF ReactivateRead, rest
  <2> HIDE DEF v, w
  <2> QED  BY <1>b, <2>1, <2>2, <2>3, <2>4, QuietTypes, IdleRecord
<1>10. ASSUME StartTracking(p)  PROVE TypeInv'
  <2> DEFINE v == [req[p] EXCEPT !.at = "offers"]
  <2>1. v \in ReqRecord  BY <1>a, FieldTypes DEF Stages
  <2>2. Known(v)  BY <1>10, <1>a DEF Known, ReqRecord, StartTracking
  <2>3. Becomes(p, v, {})  BY <1>10 DEF StartTracking
  <2>4. UNCHANGED <<chats, offers, lock, raced, mix>>  BY <1>10 DEF StartTracking, rest
  <2>5. tracking' \in [Drivers -> Loads \cup {NULL}]
    BY <1>10, <1>a, <1>b DEF StartTracking, Known
  <2> HIDE DEF v
  <2> QED  BY <1>b, <2>1, <2>2, <2>3, <2>4, <2>5, QuietTypes
<1>11. ASSUME CleanOffers(p)  PROVE TypeInv'
  <2>1. UNCHANGED <<chats, tracking, lock, raced, mix>> /\ offers' \subseteq offers /\ Becomes(p, Idle, {})
    BY <1>11 DEF CleanOffers
  <2> QED  BY <1>b, <2>1, QuietTypes, IdleRecord
<1>12. ASSUME Fail(p)  PROVE TypeInv'
  <2>1. /\ UNCHANGED <<chats, offers, tracking, raced, mix>> /\ lock' = Unlocked(p)
        /\ Becomes(p, Idle, {})
    BY <1>12 DEF Fail, rest
  <2> QED  BY <1>b, <2>1, QuietTypes, IdleRecord
<1> QED  BY <1>1, <1>2, <1>3, <1>4, <1>5, <1>6, <1>7, <1>8, <1>9, <1>10, <1>11, <1>12

\* A chat of which one field is overwritten is a chat.
LEMMA RoomTypes ==
  ASSUME TypeInv, NEW r \in Rooms, Live(r)
  PROVE  /\ room[r] \in RoomRecord
         /\ \A l \in Loads : [room[r] EXCEPT !.type = "LOAD", !.load = l] \in RoomRecord
         /\ \A d \in Delivered : [room[r] EXCEPT !.delivered = d] \in RoomRecord
         /\ \A b \in BOOLEAN : /\ [room[r] EXCEPT !.messages = b] \in RoomRecord
                              /\ [room[r] EXCEPT !.isArchived = b] \in RoomRecord
                              /\ [room[r] EXCEPT !.isLoadArchived = b] \in RoomRecord
                              /\ [room[r] EXCEPT !.delivered = "no", !.isLoadArchived = b] \in RoomRecord
<1>1. room[r] \in RoomRecord  BY StateTypes DEF Live
<1> QED  BY <1>1 DEF RoomRecord, Delivered

\* A new chat is a chat.
LEMMA NewRoomType ==
  ASSUME NEW l \in Loads, NEW d \in Delivered
  PROVE  NewLoadRoom(l, d) \in RoomRecord
BY DEF NewLoadRoom, RoomRecord

\* A chat with its participants is a set of pairs.
LEMMA PairTypes ==
  ASSUME TypeInv
  PROVE  /\ \A r \in Rooms : Whole(r) \in SUBSET Pairs
         /\ \A R \in SUBSET Rooms, U \in SUBSET (Users \cup {NULL}) : R \X U \in SUBSET Pairs
         /\ \A S \in SUBSET Rooms : UNION {Whole(r) : r \in S} \in SUBSET Pairs
<1>1. \A r \in Rooms : Whole(r) \in SUBSET Pairs
  BY StateTypes DEF Whole, Pairs
<1>2. \A R \in SUBSET Rooms, U \in SUBSET (Users \cup {NULL}) : R \X U \in SUBSET Pairs
  BY DEF Pairs
<1> QED  BY <1>1, <1>2

\* Requests that create, convert, fork, add to, synchronise, hand over or sweep chats.
LEMMA WriteTypes ==
  ASSUME TypeInv, NEW p \in Reqs,
         \/ ConvertWrite(p) \/ CreateWrite(p) \/ ForkWrite(p) \/ TransferWrite(p) \/ Reactivate(p)
         \/ \E r \in Rooms : Tell(p, r) \/ SyncRoom(p, r) \/ SweepRoom(p, r)
         \/ \E u \in Users : AddRow(p, u)
  PROVE  TypeInv'
<1>a. /\ req[p] \in ReqRecord /\ Known(req[p]) /\ req[p].load \in Loads \cup {NULL}
      /\ req[p].left \in SUBSET Drivers /\ req[p].all \in SUBSET Drivers
      /\ req[p].room \in Rooms \cup {NULL} /\ req[p].rooms \in SUBSET Rooms
      /\ req[p].made \in SUBSET Rooms /\ req[p].drop \in SUBSET Rooms /\ req[p].had \in SUBSET Users
      /\ req[p].delivered \in Delivered /\ req[p].seen \in [Rooms -> SUBSET Users]
      /\ req[p].staff \in SUBSET Staff /\ req[p].rows \in [Rooms -> SUBSET Users]
  BY RequestTypes
<1>b. /\ room \in [Rooms -> RoomRecord \cup {NULL}] /\ member \in [Rooms -> SUBSET Users]
      /\ created \in 0..MaxRooms /\ offers \subseteq Loads
      /\ tracking \in [Drivers -> Loads \cup {NULL}] /\ raced \subseteq Rooms
      /\ lock \in [Loads \X Drivers -> Reqs \cup {NULL}] /\ mix \in Mixes
      /\ Unlocked(p) \in [Loads \X Drivers -> Reqs \cup {NULL}]
  BY StateTypes
<1>c. /\ \A r \in Rooms : Whole(r) \in SUBSET Pairs
      /\ \A R \in SUBSET Rooms, U \in SUBSET (Users \cup {NULL}) : R \X U \in SUBSET Pairs
      /\ \A S \in SUBSET Rooms : UNION {Whole(r) : r \in S} \in SUBSET Pairs
  BY PairTypes
<1>d. created < mix.rooms => created + 1 \in Rooms /\ created + 1 \in 0..MaxRooms
  BY <1>b, MixTypes, RoomsAssumption DEF Rooms
<1>e. /\ req[p].at = "write" => req[p].load \in Loads /\ req[p].driver \in Drivers
      /\ req[p].at = "write" /\ req[p].task # "create" => req[p].room \in Rooms
      /\ req[p].at = "write" /\ req[p].task # "fork" => req[p].left \subseteq req[p].all
      /\ Staff \subseteq Users /\ Drivers \subseteq Users
      /\ "attach" \notin mix.kinds => \A x \in Rooms : req[p].rows[x] \subseteq Staff
  BY <1>a DEF Known, Users
<1>1. ASSUME ConvertWrite(p)  PROVE TypeInv'
  <2> DEFINE r == req[p].room
             wanted == req[p].staff \cup {req[p].driver}
             s == [req[p] EXCEPT !.room = NULL, !.made = IF req[p].says THEN @ \cup {r} ELSE @]
             C == Whole(r) \cup ({r} \X wanted) \cup UNION {Whole(x) : x \in req[p].drop}
  <2>1. r \in Rooms /\ wanted \in SUBSET Users /\ req[p].load \in Loads /\ req[p].task = "convert" /\ Live(r)
    BY <1>1, <1>a, <1>e DEF ConvertWrite
  <2>2. s \in ReqRecord  BY <1>a, <2>1, FieldTypes
  <2>3. /\ s.load \in Loads /\ s.task = "convert" /\ s.left \subseteq s.all
        /\ "attach" \notin mix.kinds => \A x \in Rooms : s.rows[x] \subseteq Staff
    BY <1>1, <1>a, <1>e, <2>1 DEF ReqRecord, ConvertWrite
  <2> HIDE DEF s
  <2>4. Served(s) \in ReqRecord /\ Known(Served(s))  BY <2>2, <2>3, ServedKnown
  <2>5. C \in SUBSET Pairs  BY <1>a, <1>c, <2>1
  <2>6. Becomes(p, Served(s), C)  BY <1>1 DEF ConvertWrite, s
  <2>7. room' \in [Rooms -> RoomRecord \cup {NULL}]
    BY <1>1, <1>b, <2>1, RoomTypes DEF ConvertWrite
  <2>8. member' \in [Rooms -> SUBSET Users]
    BY <1>1, <1>a, <1>b, <2>1 DEF ConvertWrite
  <2>9. UNCHANGED <<created, offers, tracking, raced, mix>> /\ lock' = Unlocked(p)
    BY <1>1 DEF ConvertWrite, rest
  <2> HIDE DEF C
  <2> QED  BY <1>b, <2>4, <2>5, <2>6, <2>7, <2>8, <2>9, TypeSlot
<1>2. ASSUME CreateWrite(p)  PROVE TypeInv'
  <2> DEFINE n == created + 1
             s == [req[p] EXCEPT !.made = IF req[p].says THEN @ \cup {n} ELSE @]
             leftover == {r \in OfferRooms(req[p].load) : req[p].driver \in member[r]}
  <2>1. n \in Rooms /\ n \in 0..MaxRooms /\ req[p].load \in Loads /\ req[p].driver \in Drivers /\ req[p].task = "create"
    BY <1>2, <1>d, <1>e DEF CreateWrite
  <2>2. s \in ReqRecord
    <3> HIDE DEF n
    <3>1. (IF req[p].says THEN req[p].made \cup {n} ELSE req[p].made) \in SUBSET Rooms  BY <1>a, <2>1
    <3> QED  BY <1>a, <3>1, FieldTypes
  <2>3. /\ s.load \in Loads /\ s.task = "create" /\ s.left \subseteq s.all
        /\ "attach" \notin mix.kinds => \A x \in Rooms : s.rows[x] \subseteq Staff
    BY <1>2, <1>a, <1>e, <2>1 DEF ReqRecord, CreateWrite
  <2>4. PICK S \in SUBSET leftover :
          /\ room' = [r \in Rooms |-> IF r \in S THEN NULL
                        ELSE IF r = n THEN NewLoadRoom(req[p].load, "no") ELSE room[r]]
          /\ member' = [r \in Rooms |-> IF r \in S THEN {}
                          ELSE IF r = n THEN req[p].staff \cup {req[p].driver} ELSE member[r]]
          /\ Becomes(p, Served(s), UNION {Whole(r) : r \in S})
    BY <1>2 DEF CreateWrite
  <2> HIDE DEF s
  <2>5. Served(s) \in ReqRecord /\ Known(Served(s))  BY <2>2, <2>3, ServedKnown
  <2>6. S \in SUBSET Rooms  BY DEF OfferRooms
  <2>7. UNION {Whole(r) : r \in S} \in SUBSET Pairs  BY <1>c, <2>6
  <2>8. room' \in [Rooms -> RoomRecord \cup {NULL}]
    BY <1>b, <2>1, <2>4, NewRoomType DEF Delivered
  <2>9. member' \in [Rooms -> SUBSET Users]
    BY <1>a, <1>b, <1>e, <2>1, <2>4
  <2>10. UNCHANGED <<offers, tracking, raced, mix>> /\ lock' = Unlocked(p) /\ created' = n
    BY <1>2 DEF CreateWrite, rest
  <2> QED  BY <1>b, <2>1, <2>4, <2>5, <2>7, <2>8, <2>9, <2>10, TypeSlot
<1>3. ASSUME ForkWrite(p)  PROVE TypeInv'
  <2> DEFINE n == created + 1
  <2>1. n \in Rooms /\ n \in 0..MaxRooms /\ req[p].load \in Loads /\ req[p].driver \in Drivers
        /\ req[p].task = "fork" /\ req[p].room \in Rooms
    BY <1>3, <1>d, <1>e DEF ForkWrite
  <2>2. Served(req[p]) \in ReqRecord /\ Known(Served(req[p]))
    BY <1>a, <1>e, <2>1, ServedKnown
  <2>3. Becomes(p, Served(req[p]), {})  BY <1>3 DEF ForkWrite
  <2>4. room' \in [Rooms -> RoomRecord \cup {NULL}]
    BY <1>3, <1>a, <1>b, <2>1, NewRoomType DEF ForkWrite
  <2>5. member' \in [Rooms -> SUBSET Users]
    BY <1>3, <1>a, <1>b, <1>e, <2>1 DEF ForkWrite
  <2>6. UNCHANGED <<offers, tracking, mix>> /\ lock' = Unlocked(p) /\ created' = n /\ raced' \subseteq Rooms
    BY <1>3, <1>b, <2>1 DEF ForkWrite
  <2> QED  BY <1>b, <2>1, <2>2, <2>3, <2>4, <2>5, <2>6, TypeSlot
<1>4. ASSUME TransferWrite(p)  PROVE TypeInv'
  <2> DEFINE C == UNION {{r} \X (req[p].seen[r] \cup (req[p].rows[r] \ member[r])) : r \in req[p].rooms}
  <2>1. C \in SUBSET Pairs
    <3>1. ASSUME NEW r \in req[p].rooms
          PROVE  {r} \X (req[p].seen[r] \cup (req[p].rows[r] \ member[r])) \in SUBSET Pairs
      <4>1. r \in Rooms /\ req[p].seen[r] \in SUBSET Users /\ req[p].rows[r] \in SUBSET Users
        BY <1>a
      <4> QED  BY <4>1 DEF Pairs
    <3> QED  BY <3>1
  <2>2. Becomes(p, Idle, C)  BY <1>4 DEF TransferWrite
  <2>3. member' \in [Rooms -> SUBSET Users]  BY <1>4, <1>a, <1>b DEF TransferWrite
  <2>4. UNCHANGED <<room, created, offers, tracking, lock, raced, mix>>  BY <1>4 DEF TransferWrite, rest
  <2> HIDE DEF C
  <2> QED  BY <1>b, <2>1, <2>2, <2>3, <2>4, TypeSlot, IdleRecord
<1>5. ASSUME Reactivate(p)  PROVE TypeInv'
  <2> DEFINE R == LoadRooms(req[p].load)
             w == [req[p] EXCEPT !.at = "track"]
  <2>1. w \in ReqRecord  BY <1>a, FieldTypes DEF Stages
  <2>2. Known(w)  BY <1>5, <1>a DEF Known, ReqRecord, Reactivate
  <2>3. R \X {NULL} \in SUBSET Pairs  BY <1>c DEF LoadRooms
  <2>4. Becomes(p, w, R \X {NULL}) \/ Becomes(p, Idle, R \X {NULL})
    BY <1>5 DEF Reactivate, Reactivated
  <2>5. room' \in [Rooms -> RoomRecord \cup {NULL}]
    <3>1. \A r \in R : r \in Rooms /\ Live(r)  BY DEF LoadRooms
    <3> QED  BY <1>5, <1>b, <3>1, RoomTypes DEF Reactivate
  <2>6. UNCHANGED <<member, created, offers, tracking, lock, mix>> /\ raced' \subseteq Rooms
    BY <1>5, <1>b DEF Reactivate
  <2> HIDE DEF w, R
  <2> QED  BY <1>b, <2>1, <2>2, <2>3, <2>4, <2>5, <2>6, TypeSlot, IdleRecord
<1>6. ASSUME NEW r \in Rooms, Tell(p, r)  PROVE TypeInv'
  <2> DEFINE s == [req[p] EXCEPT !.made = @ \ {r}]
  <2>1. s \in ReqRecord  BY <1>a, FieldTypes
  <2>2. Known(s)  BY <1>6, <1>a DEF Known, ReqRecord, Tell
  <2>3. {<<r, NULL>>} \in SUBSET Pairs  BY DEF Pairs
  <2>4. Becomes(p, s, {<<r, NULL>>}) \/ Becomes(p, Idle, {<<r, NULL>>})  BY <1>6 DEF Tell
  <2>5. room' \in [Rooms -> RoomRecord \cup {NULL}]  BY <1>6, <1>b, RoomTypes DEF Tell
  <2>6. UNCHANGED <<member, created, offers, tracking, lock, raced, mix>>  BY <1>6 DEF Tell, rest
  <2> HIDE DEF s
  <2> QED  BY <1>b, <2>1, <2>2, <2>3, <2>4, <2>5, <2>6, TypeSlot, IdleRecord
<1>7. ASSUME NEW r \in Rooms, SyncRoom(p, r)  PROVE TypeInv'
  <2> DEFINE s == [req[p] EXCEPT !.rooms = @ \ {r}]
             old == req[p].seen[r]
             C == {r} \X ((old \ req[p].staff) \cup (req[p].staff \ old))
  <2>1. s \in ReqRecord  BY <1>a, FieldTypes
  <2>2. Known(s)  BY <1>7, <1>a DEF Known, ReqRecord, SyncRoom
  <2>3. C \in SUBSET Pairs  BY <1>a, <1>e DEF Pairs
  <2>4. Becomes(p, s, C) \/ Becomes(p, Idle, C)  BY <1>7 DEF SyncRoom
  <2>5. member' \in [Rooms -> SUBSET Users]  BY <1>7, <1>a, <1>b, <1>e DEF SyncRoom
  <2>6. UNCHANGED <<room, created, offers, tracking, lock, raced, mix>>  BY <1>7 DEF SyncRoom, rest
  <2> HIDE DEF s, C
  <2> QED  BY <1>b, <2>1, <2>2, <2>3, <2>4, <2>5, <2>6, TypeSlot, IdleRecord
<1>8. ASSUME NEW r \in Rooms, SweepRoom(p, r)  PROVE TypeInv'
  <2> DEFINE s == [req[p] EXCEPT !.rooms = @ \ {r}]
  <2>1. s \in ReqRecord  BY <1>a, FieldTypes
  <2>2. Known(s)  BY <1>8, <1>a DEF Known, ReqRecord, SweepRoom
  <2>3. {<<r, NULL>>} \in SUBSET Pairs /\ Whole(r) \in SUBSET Pairs  BY <1>c DEF Pairs
  <2>4. \E C \in SUBSET Pairs : Becomes(p, s, C) \/ Becomes(p, Idle, C)
    BY <1>8, <2>3 DEF SweepRoom
  <2>5. room' \in [Rooms -> RoomRecord \cup {NULL}]
    BY <1>8, <1>b, RoomTypes DEF SweepRoom, DeleteRooms
  <2>6. member' \in [Rooms -> SUBSET Users]  BY <1>8, <1>b DEF SweepRoom, DeleteRooms
  <2>7. UNCHANGED <<created, offers, tracking, lock, mix>> /\ raced' \subseteq Rooms
    BY <1>8, <1>b DEF SweepRoom
  <2> HIDE DEF s
  <2> QED  BY <1>b, <2>1, <2>2, <2>4, <2>5, <2>6, <2>7, TypeSlot, IdleRecord
<1>9. ASSUME NEW u \in Users, AddRow(p, u)  PROVE TypeInv'
  <2> DEFINE r == req[p].room
             t == [req[p] EXCEPT !.rows[r] = @ \ {u}]
             C == {<<r, u>>} \ {<<r, v>> : v \in member[r]}
  <2>1. r \in Rooms /\ req[p].at = "rows"  BY <1>9, <1>a DEF AddRow, Known
  <2>2. [req[p].rows EXCEPT ![r] = @ \ {u}] \in [Rooms -> SUBSET Users]  BY <1>a, <2>1
  <2>3. t \in ReqRecord  BY <1>a, <2>2, FieldTypes
  <2>4. Known(t)
    <3>1. t.at = "rows" /\ t.task = req[p].task /\ t.room = r  BY <1>a, <2>1 DEF ReqRecord
    <3>2. t.rows = [req[p].rows EXCEPT ![r] = @ \ {u}]  BY <1>a DEF ReqRecord
    <3>3. "attach" \notin mix.kinds => \A x \in Rooms : t.rows[x] \subseteq Staff
      BY <1>a, <1>e, <3>2
    <3> HIDE DEF t
    <3> QED  BY <1>a, <2>1, <3>1, <3>3 DEF Known
  <2>5. C \in SUBSET Pairs  BY <2>1 DEF Pairs
  <2>6. Becomes(p, t, C) \/ Becomes(p, Idle, C)  BY <1>9 DEF AddRow
  <2>7. member' \in [Rooms -> SUBSET Users]  BY <1>9, <1>b, <2>1 DEF AddRow
  <2>8. UNCHANGED <<room, created, offers, tracking, lock, raced, mix>>  BY <1>9 DEF AddRow, rest
  <2> HIDE DEF t, C
  <2> QED  BY <1>b, <2>3, <2>4, <2>5, <2>6, <2>7, <2>8, TypeSlot, IdleRecord
<1> QED  BY <1>1, <1>2, <1>3, <1>4, <1>5, <1>6, <1>7, <1>8, <1>9

\* What is done to chats in one step.
LEMMA OnceTypes == TypeInv /\ Once => TypeInv'
<1> SUFFICES ASSUME TypeInv, Once PROVE TypeInv'
  OBVIOUS
<1>b. /\ room \in [Rooms -> RoomRecord \cup {NULL}] /\ member \in [Rooms -> SUBSET Users]
      /\ tracking \in [Drivers -> Loads \cup {NULL}] /\ raced \subseteq Rooms /\ mix \in Mixes
  BY StateTypes
<1>1. ASSUME NEW r \in Rooms, Delete(r)  PROVE TypeInv'
  <2>1. room' \in [Rooms -> RoomRecord \cup {NULL}] /\ member' \in [Rooms -> SUBSET Users]
    BY <1>1, <1>b DEF Delete, DeleteRooms
  <2>2. Whole(r) \in SUBSET Pairs  BY PairTypes
  <2>3. UNCHANGED <<created, offers, tracking, lock, raced, mix>> /\ Others(Whole(r))
    BY <1>1 DEF Delete, rest
  <2> QED  BY <1>b, <2>1, <2>2, <2>3, TypeBeside
<1>2. ASSUME NEW r \in Rooms, Say(r)  PROVE TypeInv'
  <2>1. room' \in [Rooms -> RoomRecord \cup {NULL}]  BY <1>2, <1>b, RoomTypes DEF Say
  <2>2. {<<r, NULL>>} \in SUBSET Pairs  BY DEF Pairs
  <2>3. UNCHANGED <<member, created, offers, tracking, lock, raced, mix>> /\ Others({<<r, NULL>>})
    BY <1>2 DEF Say, rest
  <2> QED  BY <1>b, <2>1, <2>2, <2>3, TypeBeside
<1>3. ASSUME NEW r \in Rooms, NEW b \in BOOLEAN, Archive(r, b)  PROVE TypeInv'
  <2>1. room' \in [Rooms -> RoomRecord \cup {NULL}]  BY <1>3, <1>b, RoomTypes DEF Archive
  <2>2. UNCHANGED <<member, created, offers, tracking, lock, req, raced, mix>>
    BY <1>3 DEF Archive, rest
  <2> QED  BY <1>b, <2>1, <2>2, TypeBeside
<1>4. ASSUME NEW r \in Rooms, NEW u \in mix.drivers \cup mix.staff, Leave(r, u)  PROVE TypeInv'
  <2>1. member' \in [Rooms -> SUBSET Users]  BY <1>4, <1>b DEF Leave
  <2>2. {<<r, u>>} \in SUBSET Pairs  BY <1>b, MixTypes DEF Pairs, Users
  <2>3. UNCHANGED <<room, created, offers, tracking, lock, raced, mix>> /\ Others({<<r, u>>})
    BY <1>4 DEF Leave, rest
  <2> QED  BY <1>b, <2>1, <2>2, <2>3, TypeBeside
<1>5. ASSUME NEW l \in mix.loads, NEW d \in mix.drivers, Terminal(l, d)  PROVE TypeInv'
  <2>1. \A r \in LoadRooms(l) : r \in Rooms /\ Live(r)  BY DEF LoadRooms
  <2>2. room' \in [Rooms -> RoomRecord \cup {NULL}]
    BY <1>5, <1>b, <2>1, RoomTypes DEF Terminal, Delivered
  <2>3. tracking' \in [Drivers -> Loads \cup {NULL}]  BY <1>5, <1>b DEF Terminal
  <2>4. raced' \subseteq Rooms  BY <1>5, <1>b, <2>1 DEF Terminal
  <2>5. LoadRooms(l) \X {NULL} \in SUBSET Pairs  BY <2>1, PairTypes
  <2>6. UNCHANGED <<member, created, offers, lock, mix>> /\ Others(LoadRooms(l) \X {NULL})
    BY <1>5 DEF Terminal
  <2> QED  BY <1>b, <2>2, <2>3, <2>4, <2>5, <2>6, TypeBeside
<1>6. ASSUME Age  PROVE TypeInv'
  <2>1. room' \in [Rooms -> RoomRecord \cup {NULL}]  BY <1>6, <1>b, RoomTypes DEF Age, Delivered
  <2>2. UNCHANGED <<member, created, offers, tracking, lock, req, raced, mix>>  BY <1>6 DEF Age, rest
  <2> QED  BY <1>b, <2>1, <2>2, TypeBeside
<1> QED  BY <1>1, <1>2, <1>3, <1>4, <1>5, <1>6 DEF Once

\* Nothing changes.
LEMMA StutterTypes == TypeInv /\ UNCHANGED vars => TypeInv'
BY DEF TypeInv, TypeOK, vars, Known

\* No step breaks the types.
LEMMA TypeStep == TypeInv /\ [Next]_vars => TypeInv'
<1> SUFFICES ASSUME TypeInv, [Next]_vars PROVE TypeInv'
  OBVIOUS
<1>1. ASSUME NEW p \in Reqs, Proceed(p)  PROVE TypeInv'
  BY <1>1, ReadTypes, WriteTypes DEF Proceed
<1> QED  BY <1>1, BeginTypes, OnceTypes, StutterTypes DEF Next

\* The types hold when the program starts.
LEMMA TypeInitially == Init => TypeInv
<1> SUFFICES ASSUME Init PROVE TypeInv
  OBVIOUS
<1>1. mix \in Mixes  BY DEF Init
<1>2. /\ mix.offered \in Seq(Drivers) /\ Len(mix.offered) \in 0..MaxRooms
      /\ mix.sells \in Users /\ mix.offerLoad \in Loads
      /\ \A r \in Rooms : Offered(r) => mix.offered[r] \in Users
  BY <1>1, MixTypes, RoomsAssumption DEF Users, Offered, Rooms
<1>3. [NewLoadRoom(mix.offerLoad, "no") EXCEPT !.type = "OFFER"] \in RoomRecord
  BY <1>2 DEF NewLoadRoom, RoomRecord, Delivered
<1>4. TypeOK  BY <1>1, <1>2, <1>3, IdleRecord DEF Init, TypeOK
<1>5. \A p \in Reqs : Known(req[p])  BY IdleRecord DEF Init
<1> QED  BY <1>4, <1>5 DEF TypeInv

\* The rows of the chats, the locks and the requests in flight keep their shape, whichever requests come
\* in and in whatever order they go on.
THEOREM TypeCorrect == Spec => []TypeOK
<1>1. TypeInv => TypeOK  BY DEF TypeInv
<1> QED  BY <1>1, TypeInitially, TypeStep, PTL DEF Spec

-----------------------------------------------------------------------------
(* How chats change.                                                       *)

\* Chats are not taken up again once gone, keep their load, and stay LOAD chats; an OFFER chat
\* takes no driver in.
Onward ==
  /\ created <= created' /\ offers' \subseteq offers
  /\ \A r \in Rooms : r <= created /\ Live(r)' =>
       /\ Live(r) /\ room'[r].load = room[r].load
       /\ room[r].type = "LOAD" => room'[r].type = "LOAD"
  /\ \A r \in Rooms : Live(r)' /\ room'[r].type = "OFFER" =>
       r <= created /\ DriversOf(r)' \subseteq DriversOf(r)

\* What a step makes of a chat.
RowStays(r) == room'[r] = room[r] /\ member'[r] = member[r]
\* The chat is deleted.
RowGoes(r) == room'[r] = NULL /\ member'[r] = {}
\* The chat is created, for the driver whom the request serves.
RowComes(r) ==
  /\ r = created + 1 /\ created' = r
  /\ Live(r)' /\ room'[r].type = "LOAD" /\ ~room'[r].isArchived
  /\ \E p \in Reqs : /\ CreateWrite(p) \/ ForkWrite(p)
                     /\ room'[r].load = req[p].load /\ DriversOf(r)' = {req[p].driver}
\* The OFFER chat becomes the LOAD chat.
RowConverts(r) ==
  /\ Live(r) /\ Live(r)' /\ room'[r].load = room[r].load /\ room'[r].type = "LOAD"
  /\ room'[r].isArchived = room[r].isArchived
  /\ "attach" \notin mix.kinds => DriversOf(r)' \subseteq DriversOf(r)
  /\ \E p \in Reqs : ConvertWrite(p) /\ r = req[p].room
\* The chat stays, and takes in no driver but where it had none.
RowChanges(r) ==
  /\ Live(r) /\ Live(r)' /\ room'[r].load = room[r].load /\ room'[r].type = room[r].type
  /\ room'[r].type = "OFFER" =>
       /\ room'[r].delivered = room[r].delivered /\ room'[r].isLoadArchived = room[r].isLoadArchived
       /\ DriversOf(r)' \subseteq DriversOf(r)
  /\ "archive" \notin mix.kinds => room'[r].isArchived = room[r].isArchived
  /\ "attach" \notin mix.kinds => DriversOf(r)' \subseteq DriversOf(r)

\* What a step makes of the chats.
Rows ==
  \A r \in Rooms : RowStays(r) \/ RowGoes(r) \/ RowComes(r) \/ RowConverts(r) \/ RowChanges(r)

\* Chats that move in these ways keep RoomKept, and go onward only.
LEMMA RowsMove ==
  ASSUME TypeInv, TypeInv', RoomsInv, mix' = mix, created' \in {created, created + 1}, offers' \subseteq offers,
         \A r \in Rooms :
           RowStays(r) \/ RowGoes(r) \/ RowComes(r) \/ RowConverts(r) \/ RowChanges(r)
  PROVE  Rows /\ Onward /\ \A r \in Rooms : RoomKept(r)'
<1>a. created \in Nat /\ created' \in Nat /\ Rooms \subseteq Nat /\ created <= created'
      /\ NULL \notin Nat
  BY StateTypes, RoomsAssumption DEF Rooms
<1>1. ASSUME NEW r \in Rooms
      PROVE  /\ RoomKept(r)'
             /\ r <= created /\ Live(r)' =>
                  /\ Live(r) /\ room'[r].load = room[r].load
                  /\ room[r].type = "LOAD" => room'[r].type = "LOAD"
             /\ Live(r)' /\ room'[r].type = "OFFER" =>
                  r <= created /\ DriversOf(r)' \subseteq DriversOf(r)
  <2>a. RoomKept(r) /\ r \in Nat  BY <1>a DEF RoomsInv
  <2>b. room[r] = NULL \/ r <= created  BY <1>a, <2>a DEF RoomKept
  <2>1. CASE RowStays(r)
    BY <1>a, <2>a, <2>b, <2>1 DEF RowStays, RoomKept, Live, DriversOf, Offered
  <2>2. CASE RowGoes(r)
    BY <1>a, <2>a, <2>2 DEF RowGoes, RoomKept, Live, DriversOf, Offered
  <2>3. CASE RowComes(r)
    BY <1>a, <2>a, <2>3 DEF RowComes, RoomKept, Live, DriversOf, Offered
  <2>4. CASE RowChanges(r)
    <3>1. room[r].type \in {"OFFER", "LOAD"} /\ room'[r].type \in {"OFFER", "LOAD"}
      BY <2>4 DEF RowChanges, Live, TypeInv, TypeOK, RoomRecord
    <3> QED  BY <1>a, <2>a, <2>b, <2>4, <3>1 DEF RowChanges, RoomKept, Live, DriversOf, Offered
  <2>5. CASE RowConverts(r)
    BY <1>a, <2>a, <2>b, <2>5 DEF RowConverts, RoomKept, Live, DriversOf, Offered
  <2> QED  BY <2>1, <2>2, <2>3, <2>4, <2>5
<1>2. Rows  BY DEF Rows
<1> QED  BY <1>1, <1>2, <1>a DEF Onward

\* A step that leaves the chats alone.
LEMMA RoomsUnchanged ==
  ASSUME TypeInv, TypeInv', RoomsInv, UNCHANGED <<chats, mix>>, offers' \subseteq offers
  PROVE  Rows /\ Onward /\ \A r \in Rooms : RoomKept(r)'
BY RowsMove DEF RowStays, chats

\* OFFER chats of the selected driver are such before the step.
LEMMA OffersShrink ==
  ASSUME TypeInv, TypeInv', Onward, mix' = mix
  PROVE  /\ Chosen' = Chosen
         /\ \A r \in Rooms : Live(r)' /\ room'[r].type = "OFFER" =>
              /\ Live(r) /\ room[r].type = "OFFER" /\ room'[r].load = room[r].load
              /\ Chosen \in member'[r] => Chosen \in member[r]
         /\ \A l \in Loads : \A r \in OfferRooms(l)' :
              r \in OfferRooms(l) /\ (Chosen \in member'[r] => Chosen \in member[r])
<1>1. Chosen' = Chosen /\ Chosen \in Drivers \cup {NULL}
  BY StateTypes, MixTypes DEF Chosen
<1>2. ASSUME NEW r \in Rooms, Live(r)', room'[r].type = "OFFER"
      PROVE  /\ Live(r) /\ room[r].type = "OFFER" /\ room'[r].load = room[r].load
             /\ Chosen \in member'[r] => Chosen \in member[r]
  <2>1. r <= created /\ DriversOf(r)' \subseteq DriversOf(r)  BY <1>2 DEF Onward
  <2>2. /\ Live(r) /\ room'[r].load = room[r].load
        /\ room[r].type = "LOAD" => room'[r].type = "LOAD"
    BY <1>2, <2>1 DEF Onward
  <2>3. room[r].type \in {"OFFER", "LOAD"}  BY <2>2, StateTypes DEF Live, RoomRecord
  <2>4. member'[r] \subseteq Users /\ NULL \notin Users
    BY UsersAssumption DEF TypeInv, TypeOK, Users
  <2>5. Chosen \in member'[r] => Chosen \in DriversOf(r)'  BY <1>1, <2>4 DEF DriversOf
  <2> QED  BY <1>2, <2>1, <2>2, <2>3, <2>5 DEF DriversOf
<1>3. ASSUME NEW l \in Loads, NEW r \in OfferRooms(l)'
      PROVE  r \in OfferRooms(l) /\ (Chosen \in member'[r] => Chosen \in member[r])
  <2>1. r \in Rooms /\ Live(r)' /\ room'[r].type = "OFFER" /\ room'[r].load = l /\ l \in offers'
    BY DEF OfferRooms
  <2> QED  BY <1>2, <2>1 DEF OfferRooms, Onward
<1> QED  BY <1>1, <1>2, <1>3

\* What a request knows of chats stays true while they move onward.
LEMMA AwareKept ==
  ASSUME TypeInv, TypeInv', Onward, mix' = mix, NEW t \in ReqRecord, Known(t), Aware(t),
         NEW q \in Reqs, Same(req'[q], t)
  PROVE  Aware(req[q])'
<1>a. /\ created \in Nat /\ created' \in Nat /\ created <= created' /\ Rooms \subseteq Nat
      /\ t.room \in Rooms \cup {NULL} /\ t.rooms \in SUBSET Rooms /\ t.drop \in SUBSET Rooms
  BY StateTypes, RoomsAssumption DEF Onward, Rooms, TypeInv, TypeOK, ReqRecord
<1>1. Chose(req[q])'
  BY OffersShrink DEF Aware, Chose, Creating, Same
<1>2. Finds(req[q])'
  <2>1. \A r \in Rooms : r <= created /\ Live(r)' =>
          /\ Live(r) /\ room'[r].load = room[r].load
          /\ room[r].type = "LOAD" => room'[r].type = "LOAD"
    BY DEF Onward
  <2>2. \A n \in Rooms : n <= created => n <= created'  BY <1>a
  <2>3. NULL \notin Rooms  BY RoomsAssumption DEF Rooms
  <2>4. Finds(t)  BY DEF Aware
  <2> QED  BY <1>a, <2>1, <2>2, <2>3, <2>4 DEF Finds, Creating, Same
<1>3. Selects(req[q])'
  <2>1. Selects(t)  BY DEF Aware
  <2>2. Creating(t) => t.load \in Loads  BY DEF Known, Creating
  <2>3. \A l \in Loads : \A r \in OfferRooms(l)' :
              r \in OfferRooms(l) /\ (Chosen \in member'[r] => Chosen \in member[r])
    BY OffersShrink
  <2>4. Chosen' = Chosen  BY OffersShrink
  <2>5. \A r \in t.drop : Live(r)' /\ room'[r].type = "OFFER" =>
          Live(r) /\ room[r].type = "OFFER" /\ (Chosen \in member'[r] => Chosen \in member[r])
    BY <1>a, OffersShrink
  <2>6. (Creating(t) /\ t.task = "create" /\ t.room = NULL
           /\ (Chosen \in t.left \/ (t.at \in {"lock", "write"} /\ t.driver = Chosen))) =>
          \A r \in OfferRooms(t.load)' : Chosen \notin member'[r]
    BY <2>1, <2>2, <2>3 DEF Selects
  <2>7. (Creating(t) /\ t.task = "convert" /\ t.at # "doomed") =>
          \A r \in t.drop : Live(r)' /\ room'[r].type = "OFFER" => Chosen \notin member'[r]
    BY <2>1, <2>5 DEF Selects
  <2> QED  BY <2>4, <2>6, <2>7 DEF Selects, Creating, Same
<1> QED  BY <1>1, <1>2, <1>3 DEF Aware

\* A request goes on in its slot, while chats move onward.
LEMMA AwareSlot ==
  ASSUME TypeInv, TypeInv', RoomsInv, Onward, mix' = mix, NEW p \in Reqs, NEW s \in ReqRecord, Known(s), Aware(s),
         NEW C, Becomes(p, s, C)
  PROVE  \A q \in Reqs : Aware(req[q])'
<1>1. req \in [Reqs -> ReqRecord] /\ \A q \in Reqs : Known(req[q]) /\ Aware(req[q])
  BY DEF TypeInv, TypeOK, RoomsInv
<1>2. req'[p] = s /\ \A q \in Reqs : q # p => req'[q] = Touched(req[q], C)
  BY <1>1, BecomesSlot
<1>3. \A q \in Reqs : q # p => Same(req'[q], req[q])  BY <1>1, <1>2, TouchedRecord
<1>4. Same(req'[p], s)  BY <1>2 DEF Same
<1> QED  BY <1>1, <1>3, <1>4, AwareKept

\* Nothing goes on, while chats move onward.
LEMMA AwareBeside ==
  ASSUME TypeInv, TypeInv', RoomsInv, Onward, mix' = mix,
         NEW C, Others(C) \/ req' = req
  PROVE  \A q \in Reqs : Aware(req[q])'
<1>1. req \in [Reqs -> ReqRecord] /\ \A q \in Reqs : Known(req[q]) /\ Aware(req[q])
  BY DEF TypeInv, TypeOK, RoomsInv
<1>2. \A q \in Reqs : req'[q] \in {Touched(req[q], C), req[q]}  BY <1>1 DEF Others
<1>3. \A q \in Reqs : Same(req'[q], req[q])  BY <1>1, <1>2, TouchedRecord DEF Same
<1> QED  BY <1>1, <1>3, AwareKept

\* Steps of requests that write chats move them onward.
LEMMA ChatsWritten ==
  ASSUME TypeInv, TypeInv', RoomsInv, NEW p \in Reqs,
         \/ ConvertWrite(p) \/ CreateWrite(p) \/ ForkWrite(p) \/ TransferWrite(p) \/ Reactivate(p)
         \/ \E r \in Rooms : Tell(p, r) \/ SyncRoom(p, r) \/ SweepRoom(p, r)
         \/ \E u \in Users : AddRow(p, u)
  PROVE  Rows /\ Onward /\ \A r \in Rooms : RoomKept(r)'
<1>a. /\ req[p] \in ReqRecord /\ Known(req[p]) /\ Aware(req[p])
      /\ req[p].room \in Rooms \cup {NULL} /\ req[p].rooms \in SUBSET Rooms /\ req[p].drop \in SUBSET Rooms
      /\ req[p].staff \in SUBSET Staff /\ req[p].rows \in [Rooms -> SUBSET Users]
      /\ req[p].seen \in [Rooms -> SUBSET Users] /\ req[p].had \in SUBSET Users
      /\ req[p].driver \in Drivers \cup {NULL}
  BY RequestTypes DEF RoomsInv
<1>b. /\ room \in [Rooms -> RoomRecord \cup {NULL}] /\ member \in [Rooms -> SUBSET Users]
      /\ created \in 0..MaxRooms /\ created \in Nat /\ Rooms \subseteq Nat /\ NULL \notin Rooms
      /\ \A r \in Rooms : RoomKept(r)
      /\ \A l \in Loads, d \in Delivered :
           NewLoadRoom(l, d).type = "LOAD" /\ ~NewLoadRoom(l, d).isArchived /\ NewLoadRoom(l, d) # NULL
  BY StateTypes, RoomsAssumption, RecordsAssumption, NewRoomType DEF Rooms, RoomsInv, NewLoadRoom
<1>c. Drivers \cap Staff = {} /\ NULL \notin Users  BY UsersAssumption DEF Users
<1>d. \A r \in Rooms : Live(r) => room[r] \in RoomRecord  BY <1>b DEF Live
<1>1. ASSUME ConvertWrite(p)  PROVE Rows /\ Onward /\ \A r \in Rooms : RoomKept(r)'
  <2>0. PICK x \in Rooms : x = req[p].room
    BY <1>1, <1>a, <1>b DEF ConvertWrite, Live
  <2>1. /\ x \in Rooms /\ Live(x) /\ req[p].driver \in Drivers /\ req[p].load \in Loads
        /\ req[p].driver = Chosen /\ Chosen \in req[p].had /\ room[x].load = req[p].load
    BY <1>1, <1>a, <1>b, <2>0 DEF ConvertWrite, Known, Aware, Chose, Finds, Creating
  <2>2. room' = [r \in Rooms |->
          IF r = x THEN [room[r] EXCEPT !.type = "LOAD", !.load = req[p].load]
          ELSE IF r \in req[p].drop THEN NULL ELSE room[r]]
    BY <1>1, <2>0 DEF ConvertWrite
  <2>3. /\ member' = [r \in Rooms |->
             IF r = x THEN (member[r] \ req[p].had) \cup (req[p].staff \cup {req[p].driver})
             ELSE IF r \in req[p].drop THEN {} ELSE member[r]]
        /\ req[p].had \subseteq member[x]
    BY <1>1, <2>0 DEF ConvertWrite
  <2>4. RowConverts(x)
    <3>0. room'[x] = [room[x] EXCEPT !.type = "LOAD", !.load = req[p].load] /\ room[x] \in RoomRecord
      BY <1>d, <2>1, <2>2
    <3>1. room'[x].type = "LOAD" /\ room'[x].load = room[x].load /\ room'[x].isArchived = room[x].isArchived
      BY <2>1, <3>0 DEF RoomRecord
    <3>3. Live(x)'
      <4>1. room'[x] \in RoomRecord  BY <2>1, <3>0 DEF RoomRecord
      <4> QED  BY <2>1, <4>1, RecordsAssumption DEF Live
    <3>2. "attach" \notin mix.kinds => DriversOf(x)' \subseteq DriversOf(x)
      BY <1>a, <1>b, <1>c, <2>1, <2>3 DEF DriversOf, RoomKept
    <3> QED  BY <1>1, <2>0, <2>1, <3>1, <3>2, <3>3 DEF RowConverts
  <2>5. \A r \in Rooms : r # x => RowStays(r) \/ RowGoes(r)
    BY <2>2, <2>3 DEF RowStays, RowGoes
  <2>6. UNCHANGED <<created, offers, mix>>  BY <1>1 DEF ConvertWrite, rest
  <2> QED  BY <2>4, <2>5, <2>6, RowsMove
<1>2. ASSUME CreateWrite(p)  PROVE Rows /\ Onward /\ \A r \in Rooms : RoomKept(r)'
  <2>0. PICK n : n = created + 1  OBVIOUS
  <2>1. req[p].driver \in Drivers /\ req[p].load \in Loads
    BY <1>2, <1>a DEF CreateWrite, Known
  <2>2. PICK S \in SUBSET OfferRooms(req[p].load) :
          /\ room' = [r \in Rooms |-> IF r \in S THEN NULL
                        ELSE IF r = n THEN NewLoadRoom(req[p].load, "no") ELSE room[r]]
          /\ member' = [r \in Rooms |-> IF r \in S THEN {}
                          ELSE IF r = n THEN req[p].staff \cup {req[p].driver} ELSE member[r]]
    BY <1>2, <2>0 DEF CreateWrite
  <2>3. UNCHANGED <<offers, mix>> /\ created' = n  BY <1>2, <2>0 DEF CreateWrite, rest
  <2>4. n \in Rooms /\ n \notin S => RowComes(n)
    <3> SUFFICES ASSUME n \in Rooms, n \notin S  PROVE RowComes(n)
      OBVIOUS
    <3>1. room'[n] = NewLoadRoom(req[p].load, "no") /\ member'[n] = req[p].staff \cup {req[p].driver}
      BY <2>2
    <3>4. DriversOf(n)' = {req[p].driver}
      BY <1>a, <1>c, <2>1, <3>1 DEF DriversOf
    <3>5. "no" \in Delivered  BY DEF Delivered
    <3>2. Live(n)' /\ room'[n].type = "LOAD" /\ ~room'[n].isArchived
      BY <1>b, <2>1, <3>1, <3>5 DEF Live
    <3>6. room'[n].load = req[p].load  BY <3>1 DEF NewLoadRoom
    <3> QED  BY <1>2, <2>0, <2>3, <3>2, <3>4, <3>6 DEF RowComes
  <2>5. \A r \in Rooms : r # n => RowStays(r) \/ RowGoes(r)
    BY <2>2 DEF RowStays, RowGoes
  <2>6. \A r \in Rooms : r \in S => RowGoes(r)  BY <2>2 DEF RowGoes
  <2>7. created' \in {created, created + 1}  BY <2>0, <2>3
  <2> QED  BY <2>3, <2>4, <2>5, <2>6, <2>7, RowsMove
<1>3. ASSUME ForkWrite(p)  PROVE Rows /\ Onward /\ \A r \in Rooms : RoomKept(r)'
  <2>0. PICK n : n = created + 1  OBVIOUS
  <2>1. /\ req[p].driver \in Drivers /\ req[p].load \in Loads /\ req[p].delivered \in Delivered
        /\ n \in Rooms
    <3>1. /\ req[p].driver \in Drivers /\ req[p].load \in Loads /\ req[p].delivered \in Delivered
          /\ created < mix.rooms
      BY <1>3, <1>a, RequestTypes DEF ForkWrite, Known
    <3>2. mix.rooms \in 0..MaxRooms  BY StateTypes, MixTypes
    <3>3. n \in Rooms  BY <1>b, <2>0, <3>1, <3>2, RoomsAssumption DEF Rooms
    <3> QED  BY <3>1, <3>3
  <2>2. /\ room' = [room EXCEPT ![n] = NewLoadRoom(req[p].load, req[p].delivered)]
        /\ member' = [member EXCEPT ![n] = req[p].had \cup {req[p].driver}]
    BY <1>3, <2>0 DEF ForkWrite
  <2>3. UNCHANGED <<offers, mix>> /\ created' = n  BY <1>3, <2>0 DEF ForkWrite
  <2>4. req[p].had \cap Drivers = {}  BY <1>3, <1>a, <1>c DEF ForkWrite, Known
  <2>5. RowComes(n)
    <3>1. room'[n] = NewLoadRoom(req[p].load, req[p].delivered) /\ member'[n] = req[p].had \cup {req[p].driver}
      BY <1>b, <2>1, <2>2
    <3>4. DriversOf(n)' = {req[p].driver}
      BY <1>c, <2>1, <2>4, <3>1 DEF DriversOf
    <3>2. Live(n)' /\ room'[n].type = "LOAD" /\ ~room'[n].isArchived
      BY <1>b, <2>1, <3>1 DEF Live
    <3>6. room'[n].load = req[p].load  BY <3>1 DEF NewLoadRoom
    <3> QED  BY <1>3, <2>0, <2>3, <3>2, <3>4, <3>6 DEF RowComes
  <2>6. \A r \in Rooms : r # n => RowStays(r)  BY <1>b, <2>2 DEF RowStays
  <2>7. created' \in {created, created + 1}  BY <2>0, <2>3
  <2> QED  BY <2>3, <2>5, <2>6, <2>7, RowsMove
<1>4. ASSUME TransferWrite(p)  PROVE Rows /\ Onward /\ \A r \in Rooms : RoomKept(r)'
  <2>1. UNCHANGED <<room, created, offers, mix>>  BY <1>4 DEF TransferWrite, rest
  <2>2. /\ \A r \in req[p].rooms : Live(r) \/ req[p].rows[r] = {}
        /\ member' = [r \in Rooms |-> (member[r] \ req[p].seen[r]) \cup req[p].rows[r]]
    BY <1>4 DEF TransferWrite
  <2>3. ASSUME NEW r \in Rooms  PROVE RowStays(r) \/ RowGoes(r) \/ RowChanges(r)
    <3>0. req[p].at = "replace" /\ member'[r] = (member[r] \ req[p].seen[r]) \cup req[p].rows[r]
      BY <1>4, <2>2 DEF TransferWrite
    <3>1. CASE Live(r) /\ r \in req[p].rooms
      <4>1. room[r].type = "LOAD"  BY <1>a, <3>1 DEF Aware, Finds
      <4>2. req[p].rows[r] \subseteq Staff  BY <1>a, <3>0 DEF Known
      <4>3. DriversOf(r)' \subseteq DriversOf(r)  BY <1>c, <3>0, <4>2 DEF DriversOf
      <4> QED  BY <2>1, <3>1, <4>1, <4>3 DEF RowChanges, Live
    <3>2. CASE ~Live(r) /\ r \in req[p].rooms
      <4>1. room[r] = NULL /\ member[r] = {} /\ req[p].rows[r] = {}
        BY <1>b, <2>2, <3>2 DEF Live, RoomKept
      <4> QED  BY <2>1, <3>0, <4>1 DEF RowGoes
    <3>3. CASE r \notin req[p].rooms
      <4>1. req[p].seen[r] = {} /\ req[p].rows[r] = {}  BY <1>a, <3>0, <3>3 DEF Known
      <4> QED  BY <2>1, <3>0, <4>1 DEF RowStays
    <3> QED  BY <3>1, <3>2, <3>3
  <2> QED  BY <2>1, <2>3, RowsMove
<1>5. ASSUME Reactivate(p)  PROVE Rows /\ Onward /\ \A r \in Rooms : RoomKept(r)'
  <2>1. UNCHANGED <<member, created, offers, mix>>  BY <1>5 DEF Reactivate
  <2>2. ASSUME NEW r \in LoadRooms(req[p].load)  PROVE RowChanges(r)
    <3>1. /\ r \in Rooms /\ Live(r) /\ room[r].type = "LOAD"
          /\ room'[r] = [room[r] EXCEPT !.delivered = "no", !.isLoadArchived = FALSE]
      BY <1>5 DEF Reactivate, LoadRooms
    <3>2. /\ room'[r].type = "LOAD" /\ room'[r].load = room[r].load
          /\ room'[r].isArchived = room[r].isArchived
      BY <1>d, <3>1 DEF RoomRecord
    <3>3. Live(r)'  BY <3>1, RoomTypes, RecordsAssumption DEF Live
    <3> QED  BY <2>1, <3>1, <3>2, <3>3 DEF RowChanges, DriversOf
  <2>3. \A r \in Rooms : r \notin LoadRooms(req[p].load) => RowStays(r)
    BY <1>5 DEF Reactivate, RowStays
  <2> QED  BY <2>1, <2>2, <2>3, RowsMove
<1>6. ASSUME NEW x \in Rooms, Tell(p, x)  PROVE Rows /\ Onward /\ \A r \in Rooms : RoomKept(r)'
  <2>1. UNCHANGED <<member, created, offers, mix>>  BY <1>6 DEF Tell, rest
  <2>2. RowChanges(x)
    <3>1. Live(x) /\ room'[x] = [room[x] EXCEPT !.messages = TRUE]  BY <1>6, <1>b DEF Tell
    <3>2. /\ room'[x].type = room[x].type /\ room'[x].load = room[x].load
          /\ room'[x].isArchived = room[x].isArchived /\ room'[x].delivered = room[x].delivered
          /\ room'[x].isLoadArchived = room[x].isLoadArchived
      BY <1>d, <3>1 DEF RoomRecord
    <3>3. Live(x)'  BY <3>1, RoomTypes, RecordsAssumption DEF Live
    <3> QED  BY <2>1, <3>1, <3>2, <3>3 DEF RowChanges, DriversOf
  <2>3. \A r \in Rooms : r # x => RowStays(r)  BY <1>6, <1>b DEF Tell, RowStays
  <2> QED  BY <2>1, <2>2, <2>3, RowsMove
<1>7. ASSUME NEW x \in Rooms, SyncRoom(p, x)  PROVE Rows /\ Onward /\ \A r \in Rooms : RoomKept(r)'
  <2>1. UNCHANGED <<room, created, offers, mix>>  BY <1>7 DEF SyncRoom, rest
  <2>2. RowChanges(x) \/ RowStays(x)
    <3>1. CASE Live(x)
      <4>1. room[x].type = "LOAD"  BY <1>7, <1>a, <3>1 DEF Aware, Finds, SyncRoom
      <4>2. DriversOf(x)' \subseteq DriversOf(x)
        BY <1>7, <1>a, <1>b, <1>c DEF DriversOf, SyncRoom
      <4> QED  BY <2>1, <3>1, <4>1, <4>2 DEF RowChanges, Live
    <3>2. CASE ~Live(x)
      BY <1>7, <1>b, <2>1, <3>2 DEF RowStays, SyncRoom
    <3> QED  BY <3>1, <3>2
  <2>3. \A r \in Rooms : r # x => RowStays(r)  BY <1>7, <1>b DEF SyncRoom, RowStays, rest
  <2> QED  BY <2>1, <2>2, <2>3, RowsMove
<1>8. ASSUME NEW x \in Rooms, SweepRoom(p, x)  PROVE Rows /\ Onward /\ \A r \in Rooms : RoomKept(r)'
  <2>1. UNCHANGED <<created, offers, mix>>  BY <1>8 DEF SweepRoom
  <2>2. CASE x \in req[p].drop
    <3>1. DeleteRooms({x})  BY <1>8, <2>2 DEF SweepRoom
    <3>2. \A r \in Rooms : RowStays(r) \/ RowGoes(r)  BY <3>1 DEF DeleteRooms, RowStays, RowGoes
    <3> QED  BY <2>1, <3>2, RowsMove
  <2>3. CASE x \notin req[p].drop
    <3>1. /\ room' = IF Live(x) THEN [room EXCEPT ![x].isLoadArchived = TRUE] ELSE room
          /\ member' = member
      BY <1>8, <2>3 DEF SweepRoom
    <3>2. Live(x) => RowChanges(x)
      <4> SUFFICES ASSUME Live(x) PROVE RowChanges(x)
        OBVIOUS
      <4>1. room'[x] = [room[x] EXCEPT !.isLoadArchived = TRUE]  BY <1>b, <3>1
      <4>2. room[x].type = "LOAD"  BY <1>8, <1>a DEF Aware, Finds, SweepRoom
      <4>3. /\ room'[x].type = "LOAD" /\ room'[x].load = room[x].load
            /\ room'[x].isArchived = room[x].isArchived
        BY <1>d, <4>1, <4>2 DEF RoomRecord
      <4>4. Live(x)'  BY <4>1, RoomTypes, RecordsAssumption DEF Live
      <4> QED  BY <3>1, <4>2, <4>3, <4>4 DEF RowChanges, DriversOf
    <3>3. \A r \in Rooms : r # x \/ ~Live(x) => RowStays(r)  BY <1>b, <3>1 DEF RowStays
    <3> QED  BY <2>1, <3>2, <3>3, RowsMove
  <2> QED  BY <2>2, <2>3
<1>9. ASSUME NEW u \in Users, AddRow(p, u)  PROVE Rows /\ Onward /\ \A r \in Rooms : RoomKept(r)'
  <2>0. PICK x \in Rooms : x = req[p].room
    BY <1>9, <1>a DEF AddRow, Known
  <2>1. UNCHANGED <<room, created, offers, mix>>  BY <1>9 DEF AddRow, rest
  <2>2. x \in Rooms /\ req[p].task = "fork" /\ u \in req[p].rows[x]
    BY <1>9, <1>a, <2>0 DEF AddRow, Known
  <2>3. member' = IF Live(x) THEN [member EXCEPT ![x] = @ \cup {u}] ELSE member
    BY <1>9, <2>0 DEF AddRow
  <2>4. Live(x) => RowChanges(x)
    <3> SUFFICES ASSUME Live(x) PROVE RowChanges(x)
      OBVIOUS
    <3>1. room[x].type = "LOAD"  BY <1>a, <1>b, <2>0, <2>2 DEF Aware, Finds
    <3>2. member'[x] = member[x] \cup {u}  BY <1>b, <2>2, <2>3
    <3>3. "attach" \notin mix.kinds => u \in Staff  BY <1>a, <2>2 DEF Known
    <3>4. "attach" \notin mix.kinds => DriversOf(x)' \subseteq DriversOf(x)
      BY <1>c, <3>2, <3>3 DEF DriversOf
    <3> QED  BY <2>1, <3>1, <3>4 DEF RowChanges, Live
  <2>5. \A r \in Rooms : r # x \/ ~Live(x) => RowStays(r)  BY <1>b, <2>1, <2>3 DEF RowStays
  <2> QED  BY <2>1, <2>2, <2>4, <2>5, RowsMove
<1> QED  BY <1>1, <1>2, <1>3, <1>4, <1>5, <1>6, <1>7, <1>8, <1>9

\* Steps beside the requests move chats onward.
LEMMA ChatsBeside ==
  ASSUME TypeInv, TypeInv', RoomsInv, Once
  PROVE  Rows /\ Onward /\ \A r \in Rooms : RoomKept(r)'
<1>b. /\ room \in [Rooms -> RoomRecord \cup {NULL}] /\ member \in [Rooms -> SUBSET Users]
      /\ \A r \in Rooms : RoomKept(r)
  BY StateTypes DEF RoomsInv
<1>d. \A r \in Rooms : Live(r) => room[r] \in RoomRecord  BY <1>b DEF Live
<1>1. ASSUME NEW x \in Rooms, Delete(x)  PROVE Rows /\ Onward /\ \A r \in Rooms : RoomKept(r)'
  <2>1. UNCHANGED <<created, offers, mix>> /\ DeleteRooms({x})  BY <1>1 DEF Delete, rest
  <2>2. \A r \in Rooms : RowStays(r) \/ RowGoes(r)  BY <2>1 DEF DeleteRooms, RowStays, RowGoes
  <2> QED  BY <2>1, <2>2, RowsMove
<1>2. ASSUME NEW x \in Rooms, Say(x)  PROVE Rows /\ Onward /\ \A r \in Rooms : RoomKept(r)'
  <2>1. UNCHANGED <<member, created, offers, mix>>  BY <1>2 DEF Say, rest
  <2>2. Live(x) /\ room'[x] = [room[x] EXCEPT !.messages = TRUE]  BY <1>2, <1>b DEF Say
  <2>3. /\ room'[x].type = room[x].type /\ room'[x].load = room[x].load
        /\ room'[x].isArchived = room[x].isArchived /\ room'[x].delivered = room[x].delivered
        /\ room'[x].isLoadArchived = room[x].isLoadArchived
    BY <1>d, <2>2 DEF RoomRecord
  <2>4. Live(x)'
    <3>1. room'[x] \in RoomRecord  BY <1>d, <2>2 DEF RoomRecord
    <3> QED  BY <3>1, RecordsAssumption DEF Live
  <2>5. RowChanges(x)  BY <2>1, <2>2, <2>3, <2>4 DEF RowChanges, DriversOf
  <2>6. \A r \in Rooms : r # x => RowStays(r)  BY <1>2, <1>b DEF Say, RowStays
  <2> QED  BY <2>1, <2>5, <2>6, RowsMove
<1>3. ASSUME NEW x \in Rooms, NEW b \in BOOLEAN, Archive(x, b)
      PROVE  Rows /\ Onward /\ \A r \in Rooms : RoomKept(r)'
  <2>1. UNCHANGED <<member, created, offers, mix>> /\ "archive" \in mix.kinds  BY <1>3 DEF Archive, rest
  <2>2. Live(x) /\ room'[x] = [room[x] EXCEPT !.isArchived = b]  BY <1>3, <1>b DEF Archive
  <2>3. /\ room'[x].type = room[x].type /\ room'[x].load = room[x].load
        /\ room'[x].delivered = room[x].delivered /\ room'[x].isLoadArchived = room[x].isLoadArchived
    BY <1>d, <2>2 DEF RoomRecord
  <2>4. Live(x)'
    <3>1. room'[x] \in RoomRecord  BY <1>d, <2>2 DEF RoomRecord
    <3> QED  BY <3>1, RecordsAssumption DEF Live
  <2>5. RowChanges(x)  BY <2>1, <2>2, <2>3, <2>4 DEF RowChanges, DriversOf
  <2>6. \A r \in Rooms : r # x => RowStays(r)  BY <1>3, <1>b DEF Archive, RowStays
  <2> QED  BY <2>1, <2>5, <2>6, RowsMove
<1>4. ASSUME NEW x \in Rooms, NEW u, Leave(x, u)  PROVE Rows /\ Onward /\ \A r \in Rooms : RoomKept(r)'
  <2>1. UNCHANGED <<room, created, offers, mix>> /\ Live(x)  BY <1>4 DEF Leave, rest
  <2>2. member'[x] = member[x] \ {u}  BY <1>4, <1>b DEF Leave
  <2>3. RowChanges(x)  BY <2>1, <2>2 DEF RowChanges, DriversOf, Live
  <2>4. \A r \in Rooms : r # x => RowStays(r)  BY <1>4, <1>b, <2>1 DEF Leave, RowStays
  <2> QED  BY <2>1, <2>3, <2>4, RowsMove
<1>5. ASSUME NEW l \in mix.loads, NEW d \in mix.drivers, Terminal(l, d)
      PROVE  Rows /\ Onward /\ \A r \in Rooms : RoomKept(r)'
  <2>1. UNCHANGED <<member, created, offers, mix>>  BY <1>5 DEF Terminal
  <2>2. ASSUME NEW r \in LoadRooms(l)  PROVE RowChanges(r)
    <3>1. /\ r \in Rooms /\ Live(r) /\ room[r].type = "LOAD"
          /\ room'[r] = [room[r] EXCEPT !.delivered = "now"]
      BY <1>5 DEF Terminal, LoadRooms
    <3>2. /\ room'[r].type = "LOAD" /\ room'[r].load = room[r].load
          /\ room'[r].isArchived = room[r].isArchived
      BY <1>d, <3>1 DEF RoomRecord
    <3>3. "now" \in Delivered  BY DEF Delivered
    <3>4. Live(r)'
      <4>1. room'[r] \in RoomRecord  BY <1>d, <3>1, <3>3 DEF RoomRecord
      <4> QED  BY <3>1, <4>1, RecordsAssumption DEF Live
    <3> QED  BY <2>1, <3>1, <3>2, <3>4 DEF RowChanges, DriversOf
  <2>3. \A r \in Rooms : r \notin LoadRooms(l) => RowStays(r)
    BY <1>5 DEF Terminal, RowStays
  <2> QED  BY <2>1, <2>2, <2>3, RowsMove
<1>6. ASSUME Age  PROVE Rows /\ Onward /\ \A r \in Rooms : RoomKept(r)'
  <2>1. UNCHANGED <<member, created, offers, mix>>  BY <1>6 DEF Age, rest
  <2>2. ASSUME NEW r \in Rooms, Live(r), room[r].delivered = "now"  PROVE RowChanges(r)
    <3>1. room[r] \in RoomRecord /\ room'[r] = [room[r] EXCEPT !.delivered = "past"]
      BY <1>6, <1>d, <2>2 DEF Age
    <3>2. room[r].type = "LOAD"  BY <1>b, <2>2, <3>1 DEF RoomKept, RoomRecord
    <3>3. /\ room'[r].type = "LOAD" /\ room'[r].load = room[r].load
          /\ room'[r].isArchived = room[r].isArchived
      BY <3>1, <3>2 DEF RoomRecord
    <3>4. "past" \in Delivered  BY DEF Delivered
    <3>5. Live(r)'
      <4>1. room'[r] \in RoomRecord  BY <3>1, <3>4 DEF RoomRecord
      <4> QED  BY <4>1, RecordsAssumption DEF Live
    <3> QED  BY <2>1, <2>2, <3>2, <3>3, <3>5 DEF RowChanges, DriversOf
  <2>3. \A r \in Rooms : ~(Live(r) /\ room[r].delivered = "now") => RowStays(r)
    BY <1>6 DEF Age, RowStays
  <2> QED  BY <2>1, <2>2, <2>3, RowsMove
<1> QED  BY <1>1, <1>2, <1>3, <1>4, <1>5, <1>6 DEF Once

-----------------------------------------------------------------------------
(* What the requests know of the chats.                                    *)

\* A request that does not create chats knows only which it deals with.
LEMMA AwareQuiet ==
  ASSUME NEW s, NEW t, Finds(s), t.at \notin {"offer", "next", "doomed", "lock", "write"},
         t.room \in {s.room, NULL}, t.rooms \subseteq s.rooms, t.task = s.task
  PROVE  Aware(t)
BY DEF Aware, Chose, Finds, Selects, Creating

\* A slot without a request knows nothing.
LEMMA AwareIdle == Aware(Idle)
<1>1. Idle.at = "idle" /\ Idle.room = NULL /\ Idle.rooms = {}  BY IdleRecord
<1> QED  BY <1>1 DEF Aware, Chose, Finds, Selects, Creating

\* A request whose driver is served knows what it knew.
LEMMA ServedAware ==
  ASSUME NEW s \in ReqRecord, Finds(s),
         s.task # "fork" /\ s.room # NULL =>
            Chosen \in s.had /\ (Live(s.room) => room[s.room].load = s.load),
         s.task # "fork" /\ s.room = NULL /\ Chosen \in s.left =>
            \A r \in OfferRooms(s.load) : Chosen \notin member[r]
  PROVE  Aware(Served(s))
<1> DEFINE t == Served(s)
<1>1. /\ t.at \in {"idle", "fork", "rows", "next", "syncRead", "tell"}
      /\ t.at = "next" => /\ s.task # "fork" /\ t.task = "create" /\ t.had = s.had /\ t.room = s.room
                          /\ t.left = s.left /\ t.load = s.load
      /\ t.rooms \in {s.rooms, {}} /\ t.room \in {NULL, s.room}
      /\ t.task = "fork" => s.task = "fork"
  BY ServedRecord
<1> HIDE DEF t
<1>2. Chose(t)  BY <1>1 DEF Chose, Creating
<1>3. Finds(t)  BY <1>1 DEF Finds, Creating
<1>4. Selects(t)  BY <1>1 DEF Selects, Creating
<1> QED  BY <1>2, <1>3, <1>4 DEF Aware, t

\* A chat that is there was created.
LEMMA LiveCreated ==
  ASSUME TypeInv, RoomsInv, NEW r \in Rooms, Live(r)
  PROVE  r <= created
<1>1. RoomKept(r) /\ created \in Nat /\ r \in Nat
  BY StateTypes, RoomsAssumption DEF RoomsInv, Rooms
<1> QED  BY <1>1 DEF RoomKept, Live

\* Requests that begin are aware of what they are about.
LEMMA BeginAware ==
  ASSUME TypeInv, TypeInv', RoomsInv, NEW p \in Reqs, Begin(p)
  PROVE  RoomsInv'
<1>a. mix \in Mixes /\ Idle \in ReqRecord /\ {} \in SUBSET Pairs /\ NULL \notin Rooms
  BY StateTypes, IdleRecord, RoomsAssumption DEF Rooms
<1>b. UNCHANGED <<chats, offers, mix>>
  BY DEF Begin, CreateBegin, AddBegin, TransferBegin, StatusBegin, SweepRead, rest
<1>c. Onward /\ \A r \in Rooms : RoomKept(r)'  BY <1>b, RoomsUnchanged
<1>d. \A s : Becomes(p, s, {}) => req'[p] = s /\ req'[p] \in ReqRecord /\ Known(req'[p])
  <2> TAKE s
  <2> HAVE Becomes(p, s, {})
  <2>1. req'[p] = s  BY BecomesSlot, StateTypes
  <2>2. req'[p] \in ReqRecord /\ Known(req[p])'  BY DEF TypeInv, TypeOK
  <2>3. Known(req'[p])  BY <1>b, <2>2 DEF Known
  <2> QED  BY <2>1, <2>2, <2>3
<1>e. ASSUME NEW s, Becomes(p, s, {}), Aware(s)  PROVE RoomsInv'
  <2>1. s \in ReqRecord /\ Known(s)  BY <1>d, <1>e
  <2>2. \A q \in Reqs : Aware(req[q])'  BY <1>a, <1>b, <1>c, <1>e, <2>1, AwareSlot
  <2> QED  BY <1>c, <2>2 DEF RoomsInv
<1>1. ASSUME NEW l \in mix.loads, NEW D \in SUBSET mix.drivers, NEW S \in mix.teams,
             NEW b \in BOOLEAN, NEW c \in BOOLEAN, CreateBegin(p, l, D, S, b, c)
      PROVE  RoomsInv'
  <2> DEFINE s == [Idle EXCEPT !.at = "offer", !.task = "create", !.load = l, !.all = D,
                    !.left = D, !.staff = S, !.sync = b, !.says = c]
  <2>1. Becomes(p, s, {})  BY <1>1 DEF CreateBegin, Enter
  <2>2. s.at = "offer" /\ s.room = NULL /\ s.rooms = {}  BY DEF Idle
  <2> HIDE DEF s
  <2>3. Aware(s)  BY <2>2 DEF Aware, Chose, Finds, Selects, Creating
  <2> QED  BY <1>e, <2>1, <2>3
<1>2. ASSUME NEW u \in mix.staff, NEW r \in Rooms, NEW D \in SUBSET mix.drivers, NEW S \in mix.adds,
             AddBegin(p, u, r, D \cup S)
      PROVE  RoomsInv'
  <2> DEFINE a == IF DriversOf(r) = {} THEN "attach" ELSE "fork"
             s == [Idle EXCEPT !.at = a, !.task = "fork", !.by = u, !.load = room[r].load, !.room = r,
                    !.left = (D \cup S) \cap Drivers, !.rows = [None EXCEPT ![r] = (D \cup S) \cap Staff]]
  <2>1. Becomes(p, s, {}) /\ Live(r) /\ room[r].type = "LOAD"  BY <1>2 DEF AddBegin, Enter
  <2>2. s.at \in {"attach", "fork"} /\ s.room = r /\ s.rooms = {} /\ s.task = "fork"  BY DEF Idle
  <2>3. r <= created  BY <2>1, LiveCreated
  <2> HIDE DEF s
  <2>4. Aware(s)  BY <2>1, <2>2, <2>3 DEF Aware, Chose, Finds, Selects, Creating
  <2> QED  BY <1>e, <2>1, <2>4
<1>3. ASSUME NEW S \in mix.teams, NEW X \in SUBSET mix.loads, TransferBegin(p, mix.sells, S, X)
      PROVE  RoomsInv'
  <2> DEFINE R == {r \in UNION {LoadRooms(l) : l \in Loads \ X} :
                     ~room[r].isLoadArchived /\ mix.sells \in member[r]}
             s == [Idle EXCEPT !.at = "roles", !.by = mix.sells, !.staff = S, !.rooms = R]
  <2>1. Becomes(p, s, {})  BY <1>3 DEF TransferBegin, Enter
  <2>2. \A r \in R : r \in Rooms /\ Live(r) /\ room[r].type = "LOAD"  BY DEF LoadRooms
  <2> HIDE DEF R
  <2>3. s.at = "roles" /\ s.room = NULL /\ s.rooms = R /\ s.task = "other"  BY DEF Idle
  <2>4. \A r \in R : r <= created  BY <2>2, LiveCreated
  <2> HIDE DEF s
  <2>5. Aware(s)  BY <2>2, <2>3, <2>4 DEF Aware, Chose, Finds, Selects, Creating
  <2> QED  BY <1>e, <2>1, <2>5
<1>4. ASSUME NEW l \in mix.loads, NEW d \in mix.drivers, NEW b \in BOOLEAN, StatusBegin(p, l, d, b)
      PROVE  RoomsInv'
  <2> DEFINE s == [Idle EXCEPT !.at = "reactivateRead", !.load = l, !.driver = d, !.enroute = b]
  <2>1. Becomes(p, s, {})  BY <1>4 DEF StatusBegin, Enter
  <2>2. s.at = "reactivateRead" /\ s.room = NULL /\ s.rooms = {}  BY DEF Idle
  <2> HIDE DEF s
  <2>3. Aware(s)  BY <2>2 DEF Aware, Chose, Finds, Selects, Creating
  <2> QED  BY <1>e, <2>1, <2>3
<1>5. ASSUME SweepRead(p)  PROVE RoomsInv'
  <2> DEFINE s == [Idle EXCEPT !.at = "sweep", !.rooms = Due, !.drop = {r \in Due : ~room[r].messages}]
  <2>1. Becomes(p, s, {})  BY <1>5 DEF SweepRead, Enter
  <2>2. s.at = "sweep" /\ s.room = NULL /\ s.rooms = Due /\ s.task = "other"  BY DEF Idle
  <2>3. \A r \in Due : r \in Rooms /\ Live(r) /\ room[r].type = "LOAD"  BY DEF Due
  <2>4. \A r \in Due : r <= created  BY <2>3, LiveCreated
  <2> HIDE DEF s
  <2>5. Aware(s)  BY <2>2, <2>3, <2>4 DEF Aware, Chose, Finds, Selects, Creating
  <2> QED  BY <1>e, <2>1, <2>5
<1> QED  BY <1>1, <1>2, <1>3, <1>4, <1>5 DEF Begin

\* What the selected driver's chats of a load are.
LEMMA ChosenUser ==
  ASSUME TypeInv
  PROVE  /\ Chosen \in Drivers \cup {NULL} /\ NULL \notin Drivers
         /\ \A r \in Rooms : NULL \notin member[r] /\ (Chosen \in member[r] => Chosen \in DriversOf(r))
BY StateTypes, MixTypes, UsersAssumption DEF DriversOf, Users

\* Requests that go on by reading are aware of what they read.
LEMMA ReadAware ==
  ASSUME TypeInv, TypeInv', RoomsInv, NEW p \in Reqs,
         \/ CreateOffer(p) \/ CreateDoomed(p) \/ LockFind(p) \/ SyncRead(p)
         \/ \E d \in Drivers : CreateNext(p, d) \/ AttachFind(p, d) \/ ForkRead(p, d)
         \/ TransferRoles(p) \/ TransferPresent(p) \/ ReactivateRead(p)
         \/ StartTracking(p) \/ CleanOffers(p) \/ Fail(p)
  PROVE  RoomsInv'
<1>a. /\ mix \in Mixes /\ {} \in SUBSET Pairs /\ NULL \notin Rooms
      /\ req[p] \in ReqRecord /\ Known(req[p]) /\ Aware(req[p])
      /\ req[p].left \in SUBSET Drivers /\ req[p].all \in SUBSET Drivers
      /\ req[p].room \in Rooms \cup {NULL} /\ req[p].rooms \in SUBSET Rooms
  BY StateTypes, RequestTypes, RoomsAssumption DEF Rooms, RoomsInv
<1>b. UNCHANGED <<chats, mix>> /\ offers' \subseteq offers
  BY DEF CreateOffer, CreateDoomed, LockFind, SyncRead, CreateNext, AttachFind, ForkRead,
    TransferRoles, TransferPresent, ReactivateRead, StartTracking, CleanOffers, Fail, rest
<1>c. Onward /\ \A r \in Rooms : RoomKept(r)'  BY <1>b, RoomsUnchanged
<1>d. \A s : Becomes(p, s, {}) => req'[p] = s /\ req'[p] \in ReqRecord /\ Known(req'[p])
  <2> TAKE s
  <2> HAVE Becomes(p, s, {})
  <2>1. req'[p] = s  BY BecomesSlot, StateTypes
  <2>2. req'[p] \in ReqRecord /\ Known(req[p])'  BY DEF TypeInv, TypeOK
  <2>3. Known(req'[p])  BY <1>b, <2>2 DEF Known
  <2> QED  BY <2>1, <2>2, <2>3
<1>e. ASSUME NEW s, Becomes(p, s, {}), Aware(s)  PROVE RoomsInv'
  <2>1. s \in ReqRecord /\ Known(s)  BY <1>d, <1>e
  <2>2. \A q \in Reqs : Aware(req[q])'  BY <1>a, <1>b, <1>c, <1>e, <2>1, AwareSlot
  <2> QED  BY <1>c, <2>2 DEF RoomsInv
<1>f. Finds(req[p]) /\ Chose(req[p]) /\ Selects(req[p])  BY <1>a DEF Aware
<1>g. \A t : /\ t.at \notin {"offer", "next", "doomed", "lock", "write"}
             /\ t.room \in {req[p].room, NULL} /\ t.rooms \subseteq req[p].rooms /\ t.task = req[p].task
             => Aware(t)
  BY <1>f, AwareQuiet
<1>1. ASSUME CreateOffer(p)  PROVE RoomsInv'
  <2> DEFINE t == [req[p] EXCEPT !.at = "next"]
             R == {r \in OfferRooms(req[p].load) : Chosen \in member[r]}
  <2>1. /\ t.at = "next" /\ t.task = "create" /\ t.room = NULL /\ t.rooms = req[p].rooms
        /\ t.load = req[p].load /\ t.all = req[p].all /\ t.left = req[p].left
    BY <1>1, <1>a, <1>f DEF CreateOffer, Known, Chose, ReqRecord
  <2>2. req[p].left \subseteq req[p].all  BY <1>1, <1>a DEF CreateOffer, Known
  <2>3. t \in ReqRecord  BY <1>a, FieldTypes DEF Stages
  <2>4. \/ \E r \in R : Becomes(p, [t EXCEPT !.room = r, !.had = member[r]], {})
        \/ (Chosen \notin req[p].all \/ R = {}) /\ Becomes(p, t, {})
    BY <1>1, <2>1 DEF CreateOffer
  <2> HIDE DEF t
  <2>5. ASSUME NEW r \in R, Becomes(p, [t EXCEPT !.room = r, !.had = member[r]], {})
        PROVE  RoomsInv'
    <3> DEFINE s == [t EXCEPT !.room = r, !.had = member[r]]
    <3>1. r \in Rooms /\ Live(r) /\ room[r].load = req[p].load /\ Chosen \in member[r]
      BY DEF OfferRooms
    <3>2. /\ s.at = "next" /\ s.task = "create" /\ s.room = r /\ s.rooms = req[p].rooms
          /\ s.load = req[p].load /\ s.had = member[r]
      BY <2>1, <2>3 DEF ReqRecord
    <3>3. r <= created  BY <3>1, LiveCreated
    <3> HIDE DEF s
    <3>4. Aware(s)
      BY <1>a, <1>f, <3>1, <3>2, <3>3 DEF Aware, Chose, Finds, Selects, Creating
    <3> QED  BY <1>e, <2>5, <3>4 DEF s
  <2>6. ASSUME Chosen \notin req[p].all \/ R = {}, Becomes(p, t, {})  PROVE RoomsInv'
    <3>1. Chosen \in t.left => \A r \in OfferRooms(t.load) : Chosen \notin member[r]
      BY <2>1, <2>2, <2>6
    <3>2. Aware(t)  BY <1>f, <2>1, <3>1 DEF Aware, Chose, Finds, Selects, Creating
    <3> QED  BY <1>e, <2>6, <3>2
  <2> QED  BY <2>4, <2>5, <2>6
<1>2. ASSUME CreateDoomed(p)  PROVE RoomsInv'
  <2> DEFINE R == {r \in OfferRooms(req[p].load) \ {req[p].room} : DriversOf(r) \cap req[p].all = {}}
             s == [req[p] EXCEPT !.at = "lock", !.drop = R]
  <2>1. Becomes(p, s, {})  BY <1>2 DEF CreateDoomed
  <2>2. req[p].at = "doomed" /\ req[p].task = "convert"  BY <1>2, <1>a DEF CreateDoomed, Known
  <2>3. Chosen \in req[p].all /\ req[p].driver = Chosen /\ Chosen \notin req[p].left /\ req[p].room # NULL
        /\ Chosen \in req[p].had
    BY <1>f, <2>2 DEF Chose, Creating
  <2>4. \A r \in R : Chosen \notin member[r]
    BY <2>3, ChosenUser DEF OfferRooms
  <2> HIDE DEF R
  <2>5. /\ s.at = "lock" /\ s.task = "convert" /\ s.drop = R /\ s.room = req[p].room /\ s.load = req[p].load
        /\ s.rooms = req[p].rooms /\ s.driver = req[p].driver /\ s.all = req[p].all /\ s.left = req[p].left
        /\ s.had = req[p].had
    BY <1>a, <2>2 DEF ReqRecord
  <2> HIDE DEF s
  <2>6. Aware(s)  BY <1>f, <2>2, <2>3, <2>4, <2>5 DEF Aware, Chose, Finds, Selects, Creating
  <2> QED  BY <1>e, <2>1, <2>6
<1>3. ASSUME LockFind(p)  PROVE RoomsInv'
  <2> DEFINE u == [req[p] EXCEPT !.room = IF req[p].task = "convert" THEN NULL ELSE @]
             w == [req[p] EXCEPT !.at = "write"]
  <2>1. req[p].at = "lock" /\ req[p].task \in {"create", "convert", "fork"}
    BY <1>3, <1>a DEF LockFind, Known
  <2>2. Becomes(p, Served(u), {}) \/ Becomes(p, w, {})  BY <1>3 DEF LockFind
  <2>3. Aware(w)
    <3>1. /\ w.at = "write" /\ w.task = req[p].task /\ w.drop = req[p].drop /\ w.room = req[p].room
          /\ w.load = req[p].load /\ w.rooms = req[p].rooms /\ w.driver = req[p].driver
          /\ w.all = req[p].all /\ w.left = req[p].left /\ w.had = req[p].had
      BY <1>a DEF ReqRecord
    <3> HIDE DEF w
    <3>2. Creating(w) <=> Creating(req[p])  BY <2>1, <3>1 DEF Creating
    <3>3. Chose(w)  BY <1>f, <2>1, <3>1, <3>2 DEF Chose
    <3>4. Finds(w)  BY <1>f, <2>1, <3>1, <3>2 DEF Finds
    <3>5. Selects(w)  BY <1>f, <2>1, <3>1, <3>2 DEF Selects
    <3> QED  BY <3>3, <3>4, <3>5 DEF Aware
  <2>4. Aware(Served(u))
    <3>1. /\ u.task = req[p].task /\ u.load = req[p].load /\ u.rooms = req[p].rooms
          /\ u.left = req[p].left /\ u.had = req[p].had
          /\ u.room = (IF req[p].task = "convert" THEN NULL ELSE req[p].room)
      BY <1>a DEF ReqRecord
    <3>2. u \in ReqRecord  BY <1>a, FieldTypes
    <3> HIDE DEF u
    <3>3. Finds(u)  BY <1>f, <2>1, <3>1 DEF Finds, Creating
    <3>4. u.task # "fork" /\ u.room # NULL =>
            Chosen \in u.had /\ (Live(u.room) => room[u.room].load = u.load)
      BY <1>f, <2>1, <3>1 DEF Finds, Chose, Creating
    <3>5. u.task # "fork" /\ u.room = NULL /\ Chosen \in u.left =>
            \A r \in OfferRooms(u.load) : Chosen \notin member[r]
      BY <1>f, <2>1, <3>1 DEF Selects, Chose, Creating
    <3> QED  BY <3>2, <3>3, <3>4, <3>5, ServedAware
  <2> QED  BY <1>e, <2>2, <2>3, <2>4
<1>4. ASSUME SyncRead(p)  PROVE RoomsInv'
  <2> DEFINE R == LoadRooms(req[p].load)
             f == [r \in Rooms |-> IF r \in R THEN StaffOf(r) ELSE {}]
             s == [req[p] EXCEPT !.at = "sync", !.rooms = R, !.seen = f]
  <2>1. Becomes(p, s, {}) \/ Becomes(p, Idle, {})  BY <1>4 DEF SyncRead
  <2>2. \A r \in R : r \in Rooms /\ Live(r) /\ room[r].type = "LOAD"  BY DEF LoadRooms
  <2>3. \A r \in R : r <= created  BY <2>2, LiveCreated
  <2> HIDE DEF R, f
  <2>4. s.at = "sync" /\ s.room = req[p].room /\ s.rooms = R /\ s.task = req[p].task
    BY <1>a DEF ReqRecord
  <2> HIDE DEF s
  <2>5. Aware(s)  BY <1>f, <2>2, <2>3, <2>4 DEF Aware, Chose, Finds, Selects, Creating
  <2> QED  BY <1>e, <2>1, <2>5, AwareIdle
<1>5. ASSUME NEW d \in Drivers, CreateNext(p, d)  PROVE RoomsInv'
  <2> DEFINE s == [req[p] EXCEPT !.left = @ \ {d}, !.driver = d]
             v == [s EXCEPT !.at = "doomed", !.task = "convert"]
             w == [s EXCEPT !.at = "lock"]
  <2>1. req[p].at = "next" /\ req[p].task = "create" /\ d \in req[p].left /\ req[p].left \subseteq req[p].all
    BY <1>5, <1>a DEF CreateNext, Known
  <2>2. s \in ReqRecord  BY <1>a, FieldTypes
  <2>3. /\ s.at = "next" /\ s.task = "create" /\ s.load = req[p].load /\ s.rooms = req[p].rooms
        /\ s.left = req[p].left \ {d} /\ s.driver = d /\ s.room = req[p].room /\ s.had = req[p].had
        /\ s.all = req[p].all
    BY <1>a, <2>1 DEF ReqRecord
  <2>4. \/ Becomes(p, Served(s), {})
        \/ (d = Chosen /\ req[p].room # NULL) /\ Becomes(p, v, {})
        \/ ~(d = Chosen /\ req[p].room # NULL) /\ Becomes(p, w, {})
    BY <1>5, <2>3 DEF CreateNext
  <2>5. /\ req[p].room # NULL => Chosen \in req[p].had /\ (Live(req[p].room) => room[req[p].room].load = req[p].load)
        /\ req[p].room = NULL /\ Chosen \in req[p].left =>
             \A r \in OfferRooms(req[p].load) : Chosen \notin member[r]
    BY <1>f, <2>1 DEF Chose, Finds, Selects, Creating
  <2> HIDE DEF s
  <2>6. Aware(Served(s))
    <3>1. Finds(s)  BY <1>f, <2>1, <2>3 DEF Finds, Creating
    <3> QED  BY <2>1, <2>2, <2>3, <2>5, <3>1, ServedAware
  <2>7. d = Chosen /\ req[p].room # NULL => Aware(v)
    <3>1. /\ v.at = "doomed" /\ v.task = "convert" /\ v.load = s.load /\ v.rooms = s.rooms /\ v.left = s.left
          /\ v.driver = s.driver /\ v.room = s.room /\ v.had = s.had /\ v.all = s.all
      BY <2>2 DEF ReqRecord
    <3> HIDE DEF v
    <3> QED  BY <1>f, <2>1, <2>3, <2>5, <3>1 DEF Aware, Chose, Finds, Selects, Creating
  <2>8. ~(d = Chosen /\ req[p].room # NULL) => Aware(w)
    <3>1. /\ w.at = "lock" /\ w.task = "create" /\ w.load = s.load /\ w.rooms = s.rooms /\ w.left = s.left
          /\ w.driver = s.driver /\ w.room = s.room /\ w.had = s.had /\ w.all = s.all
      BY <2>2, <2>3 DEF ReqRecord
    <3> HIDE DEF w
    <3>2. ~(d = Chosen /\ req[p].room # NULL) => Chose(w)  BY <2>3, <2>5, <3>1 DEF Chose, Creating
    <3>3. Finds(w)  BY <1>f, <2>3, <2>5, <3>1 DEF Finds, Creating
    <3>4. ~(d = Chosen /\ req[p].room # NULL) => Selects(w)
      BY <2>1, <2>3, <2>5, <3>1 DEF Selects, Creating
    <3> QED  BY <3>2, <3>3, <3>4 DEF Aware
  <2> HIDE DEF v, w
  <2> QED  BY <1>e, <2>4, <2>6, <2>7, <2>8
<1>6. ASSUME NEW d \in Drivers, AttachFind(p, d)  PROVE RoomsInv'
  <2> DEFINE s == [req[p] EXCEPT !.left = @ \ {d}]
             v == [s EXCEPT !.rows[s.room] = @ \cup {d}]
  <2>1. req[p].task = "fork"  BY <1>6, <1>a DEF AttachFind, Known
  <2>2. s \in ReqRecord  BY <1>a, FieldTypes
  <2>3. s.task = "fork" /\ s.room = req[p].room /\ s.rooms = req[p].rooms
    BY <1>a, <2>1 DEF ReqRecord
  <2>4. Becomes(p, Served(s), {}) \/ Becomes(p, Served(v), {})  BY <1>6 DEF AttachFind
  <2> HIDE DEF s
  <2>5. v.task = "fork" /\ v.room = s.room /\ v.rooms = s.rooms  BY <2>2, <2>3 DEF ReqRecord
  <2> HIDE DEF v
  <2>6. Finds(s) /\ Finds(v)  BY <1>f, <2>1, <2>3, <2>5 DEF Finds, Creating
  <2>7. Aware(Served(s))  BY <2>2, <2>3, <2>6, ServedAware
  <2>8. v \in ReqRecord
    <3>1. /\ s.rows \in [Rooms -> SUBSET Users] /\ s.room \in Rooms /\ d \in Users
      BY <1>6, <1>a, <2>2, <2>3 DEF AttachFind, Known, ReqRecord, Users
    <3>2. [s.rows EXCEPT ![s.room] = @ \cup {d}] \in [Rooms -> SUBSET Users]  BY <3>1
    <3> QED  BY <2>2, <3>2, FieldTypes DEF v
  <2>9. Aware(Served(v))  BY <2>5, <2>6, <2>8, ServedAware
  <2> QED  BY <1>e, <2>4, <2>7, <2>9
<1>7. ASSUME NEW d \in Drivers, ForkRead(p, d)  PROVE RoomsInv'
  <2> DEFINE r == req[p].room
             s == [req[p] EXCEPT !.left = @ \ {d}]
             w == [s EXCEPT !.at = "lock", !.driver = d, !.had = StaffOf(r), !.delivered = room[r].delivered]
  <2>1. req[p].task = "fork"  BY <1>7, <1>a DEF ForkRead, Known
  <2>2. s \in ReqRecord  BY <1>a, FieldTypes
  <2>3. s.task = "fork" /\ s.room = req[p].room /\ s.rooms = req[p].rooms /\ s.load = req[p].load
    BY <1>a, <2>1 DEF ReqRecord
  <2>4. Becomes(p, Served(s), {}) \/ Becomes(p, w, {})  BY <1>7, <2>3 DEF ForkRead
  <2> HIDE DEF s
  <2>5. Aware(Served(s))
    <3>1. Finds(s)  BY <1>f, <2>1, <2>3 DEF Finds, Creating
    <3> QED  BY <2>2, <2>3, <3>1, ServedAware
  <2>6. Aware(w)
    <3>1. w.at = "lock" /\ w.task = "fork" /\ w.room = s.room /\ w.rooms = s.rooms
      BY <2>2, <2>3 DEF ReqRecord
    <3> HIDE DEF w
    <3> QED  BY <1>f, <2>1, <2>3, <3>1 DEF Aware, Chose, Finds, Selects, Creating
  <2> HIDE DEF w
  <2> QED  BY <1>e, <2>4, <2>5, <2>6
<1>8. ASSUME TransferRoles(p) \/ TransferPresent(p)  PROVE RoomsInv'
  <2>1. PICK t : /\ t.at \in {"present", "replace"} /\ t.room = req[p].room
                 /\ t.rooms = req[p].rooms /\ t.task = req[p].task
                 /\ Becomes(p, t, {})
    <3>1. CASE TransferRoles(p)
      <4> DEFINE f == [r \in Rooms |-> IF r \in req[p].rooms THEN (member[r] \cap Tracking) \ req[p].staff ELSE {}]
                 t == [req[p] EXCEPT !.at = "present", !.seen = f]
      <4>1. Becomes(p, t, {})  BY <3>1 DEF TransferRoles
      <4> HIDE DEF f
      <4>2. t.at = "present" /\ t.room = req[p].room /\ t.rooms = req[p].rooms /\ t.task = req[p].task
        BY <1>a DEF ReqRecord
      <4> HIDE DEF t
      <4> QED  BY <4>1, <4>2
    <3>2. CASE TransferPresent(p)
      <4> DEFINE g == [r \in Rooms |-> IF r \in req[p].rooms THEN req[p].staff \ member[r] ELSE {}]
                 t == [req[p] EXCEPT !.at = "replace", !.rows = g]
      <4>1. Becomes(p, t, {})  BY <3>2 DEF TransferPresent
      <4> HIDE DEF g
      <4>2. t.at = "replace" /\ t.room = req[p].room /\ t.rooms = req[p].rooms /\ t.task = req[p].task
        BY <1>a DEF ReqRecord
      <4> HIDE DEF t
      <4> QED  BY <4>1, <4>2
    <3> QED  BY <1>8, <3>1, <3>2
  <2>2. Aware(t)  BY <1>g, <2>1
  <2> QED  BY <1>e, <2>1, <2>2
<1>9. ASSUME ReactivateRead(p) \/ StartTracking(p)  PROVE RoomsInv'
  <2>1. \/ Becomes(p, Idle, {})
        \/ \E a \in {"reactivate", "track", "offers"} : Becomes(p, [req[p] EXCEPT !.at = a], {})
    BY <1>9 DEF ReactivateRead, Reactivated, StartTracking
  <2>2. ASSUME NEW a \in {"reactivate", "track", "offers"}, Becomes(p, [req[p] EXCEPT !.at = a], {})
        PROVE  RoomsInv'
    <3> DEFINE t == [req[p] EXCEPT !.at = a]
    <3>1. t.at = a /\ t.room = req[p].room /\ t.rooms = req[p].rooms /\ t.task = req[p].task
      BY <1>a DEF ReqRecord
    <3> HIDE DEF t
    <3>2. Aware(t)  BY <1>g, <3>1
    <3> QED  BY <1>e, <2>2, <3>2 DEF t
  <2> QED  BY <1>e, <2>1, <2>2, AwareIdle
<1>10. ASSUME CleanOffers(p) \/ Fail(p)  PROVE RoomsInv'
  <2>1. Becomes(p, Idle, {})  BY <1>10 DEF CleanOffers, Fail
  <2> QED  BY <1>e, <2>1, AwareIdle
<1> QED  BY <1>1, <1>2, <1>3, <1>4, <1>5, <1>6, <1>7, <1>8, <1>9, <1>10

\* Requests that write are aware of what they have left to do.
LEMMA WriteAware ==
  ASSUME TypeInv, TypeInv', RoomsInv, NEW p \in Reqs,
         \/ ConvertWrite(p) \/ CreateWrite(p) \/ ForkWrite(p) \/ TransferWrite(p) \/ Reactivate(p)
         \/ \E r \in Rooms : Tell(p, r) \/ SyncRoom(p, r) \/ SweepRoom(p, r)
         \/ \E u \in Users : AddRow(p, u)
  PROVE  RoomsInv'
<1>a. /\ NULL \notin Rooms
      /\ req[p] \in ReqRecord /\ Known(req[p]) /\ Aware(req[p])
      /\ req[p].room \in Rooms \cup {NULL} /\ req[p].rooms \in SUBSET Rooms
  BY RequestTypes, RoomsAssumption DEF Rooms, RoomsInv
<1>b. mix' = mix
  BY DEF ConvertWrite, CreateWrite, ForkWrite, TransferWrite, Reactivate, Tell, SyncRoom, SweepRoom, AddRow, rest
<1>c. Onward /\ \A r \in Rooms : RoomKept(r)'  BY ChatsWritten
<1>e. ASSUME NEW s, NEW C, Becomes(p, s, C), Aware(s)  PROVE RoomsInv'
  <2>1. req'[p] = s  BY <1>e, BecomesSlot, StateTypes
  <2>2. req'[p] \in ReqRecord /\ Known(req[p])'  BY DEF TypeInv, TypeOK
  <2>3. s \in ReqRecord /\ Known(s)  BY <1>b, <2>1, <2>2 DEF Known
  <2>4. \A q \in Reqs : Aware(req[q])'  BY <1>b, <1>c, <1>e, <2>3, AwareSlot
  <2> QED  BY <1>c, <2>4 DEF RoomsInv
<1>f. Finds(req[p]) /\ Chose(req[p]) /\ Selects(req[p])  BY <1>a DEF Aware
<1>g. \A t : /\ t.at \notin {"offer", "next", "doomed", "lock", "write"}
             /\ t.room \in {req[p].room, NULL} /\ t.rooms \subseteq req[p].rooms /\ t.task = req[p].task
             => Aware(t)
  BY <1>f, AwareQuiet
<1>1. ASSUME ConvertWrite(p)  PROVE RoomsInv'
  <2> DEFINE r == req[p].room
             s == [req[p] EXCEPT !.room = NULL, !.made = IF req[p].says THEN @ \cup {r} ELSE @]
  <2>1. \E C : Becomes(p, Served(s), C)  BY <1>1 DEF ConvertWrite
  <2>2. req[p].at = "write" /\ req[p].task = "convert" /\ r \in Rooms
    BY <1>1, <1>a DEF ConvertWrite, Live
  <2>3. s.task = "convert" /\ s.room = NULL /\ s.rooms = req[p].rooms /\ s.left = req[p].left
    BY <1>a, <2>2 DEF ReqRecord
  <2>4. s \in ReqRecord
    <3>1. (IF req[p].says THEN req[p].made \cup {r} ELSE req[p].made) \in SUBSET Rooms
      BY <2>2, RequestTypes
    <3> QED  BY <1>a, <3>1, FieldTypes
  <2> HIDE DEF s
  <2>5. Finds(s)  BY <1>f, <2>3 DEF Finds
  <2>6. Chosen \notin s.left  BY <1>f, <2>2, <2>3 DEF Chose, Creating
  <2>7. Aware(Served(s))  BY <2>3, <2>4, <2>5, <2>6, ServedAware
  <2> QED  BY <1>e, <2>1, <2>7
<1>2. ASSUME CreateWrite(p)  PROVE RoomsInv'
  <2>0. PICK n \in Rooms : n = created + 1
    <3>1. created < mix.rooms /\ mix.rooms \in 0..MaxRooms /\ created \in 0..MaxRooms
      BY <1>2, StateTypes, MixTypes DEF CreateWrite
    <3> QED  BY <3>1, RoomsAssumption DEF Rooms
  <2> DEFINE s == [req[p] EXCEPT !.made = IF req[p].says THEN @ \cup {n} ELSE @]
  <2>1. \E C : Becomes(p, Served(s), C)  BY <1>2, <2>0 DEF CreateWrite
  <2>2. req[p].at = "write" /\ req[p].task = "create"  BY <1>2 DEF CreateWrite
  <2>3. /\ s.task = "create" /\ s.room = req[p].room /\ s.rooms = req[p].rooms /\ s.left = req[p].left
        /\ s.had = req[p].had /\ s.load = req[p].load
    BY <1>a, <2>2 DEF ReqRecord
  <2>4. s \in ReqRecord
    <3>1. (IF req[p].says THEN req[p].made \cup {n} ELSE req[p].made) \in SUBSET Rooms  BY RequestTypes
    <3> QED  BY <1>a, <3>1, FieldTypes
  <2> HIDE DEF s
  <2>5. Finds(s)  BY <1>f, <2>2, <2>3 DEF Finds, Creating
  <2>6. s.room # NULL => Chosen \in s.had /\ (Live(s.room) => room[s.room].load = s.load)
    BY <1>f, <2>2, <2>3 DEF Finds, Chose, Creating
  <2>7. s.room = NULL /\ Chosen \in s.left => \A r \in OfferRooms(s.load) : Chosen \notin member[r]
    BY <1>f, <2>2, <2>3 DEF Selects, Creating
  <2>8. Aware(Served(s))  BY <2>4, <2>5, <2>6, <2>7, ServedAware
  <2> QED  BY <1>e, <2>1, <2>8
<1>3. ASSUME ForkWrite(p)  PROVE RoomsInv'
  <2>1. Becomes(p, Served(req[p]), {}) /\ req[p].task = "fork"  BY <1>3 DEF ForkWrite
  <2>2. Aware(Served(req[p]))  BY <1>a, <1>f, <2>1, ServedAware
  <2> QED  BY <1>e, <2>1, <2>2
<1>4. ASSUME TransferWrite(p)  PROVE RoomsInv'
  <2>1. \E C : Becomes(p, Idle, C)  BY <1>4 DEF TransferWrite
  <2> QED  BY <1>e, <2>1, AwareIdle
<1>5. ASSUME Reactivate(p)  PROVE RoomsInv'
  <2> DEFINE w == [req[p] EXCEPT !.at = "track"]
  <2>1. \E C : Becomes(p, Idle, C) \/ Becomes(p, w, C)  BY <1>5 DEF Reactivate, Reactivated
  <2>2. w.at = "track" /\ w.room = req[p].room /\ w.rooms = req[p].rooms /\ w.task = req[p].task
    BY <1>a DEF ReqRecord
  <2> HIDE DEF w
  <2>3. Aware(w)  BY <1>g, <2>2
  <2> QED  BY <1>e, <2>1, <2>3, AwareIdle
<1>6. ASSUME NEW r \in Rooms, Tell(p, r)  PROVE RoomsInv'
  <2> DEFINE w == [req[p] EXCEPT !.made = @ \ {r}]
  <2>1. \E C : Becomes(p, Idle, C) \/ Becomes(p, w, C)  BY <1>6 DEF Tell
  <2>2. w.at = "tell" /\ w.room = req[p].room /\ w.rooms = req[p].rooms /\ w.task = req[p].task
    BY <1>6, <1>a DEF ReqRecord, Tell
  <2> HIDE DEF w
  <2>3. Aware(w)  BY <1>g, <2>2
  <2> QED  BY <1>e, <2>1, <2>3, AwareIdle
<1>7. ASSUME NEW r \in Rooms, SyncRoom(p, r) \/ SweepRoom(p, r)  PROVE RoomsInv'
  <2> DEFINE w == [req[p] EXCEPT !.rooms = @ \ {r}]
  <2>1. \E C : Becomes(p, Idle, C) \/ Becomes(p, w, C)  BY <1>7 DEF SyncRoom, SweepRoom
  <2>2. req[p].at \in {"sync", "sweep"}  BY <1>7 DEF SyncRoom, SweepRoom
  <2>3. w.at = req[p].at /\ w.room = req[p].room /\ w.rooms \subseteq req[p].rooms /\ w.task = req[p].task
    BY <1>a DEF ReqRecord
  <2> HIDE DEF w
  <2>4. Aware(w)  BY <1>g, <2>2, <2>3
  <2> QED  BY <1>e, <2>1, <2>4, AwareIdle
<1>9. ASSUME NEW u \in Users, AddRow(p, u)  PROVE RoomsInv'
  <2> DEFINE r == req[p].room
             w == [req[p] EXCEPT !.rows[r] = @ \ {u}]
  <2>1. \E C : Becomes(p, Idle, C) \/ Becomes(p, w, C)  BY <1>9 DEF AddRow
  <2>2. w.at = "rows" /\ w.room = req[p].room /\ w.rooms = req[p].rooms /\ w.task = req[p].task
    BY <1>9, <1>a DEF ReqRecord, AddRow
  <2> HIDE DEF w
  <2>3. Aware(w)  BY <1>g, <2>2
  <2> QED  BY <1>e, <2>1, <2>3, AwareIdle
<1> QED  BY <1>1, <1>2, <1>3, <1>4, <1>5, <1>6, <1>7, <1>9

\* What is done in one step keeps what requests know.
LEMMA OnceAware == TypeInv /\ TypeInv' /\ RoomsInv /\ Once => RoomsInv'
<1> SUFFICES ASSUME TypeInv, TypeInv', RoomsInv, Once  PROVE RoomsInv'
  OBVIOUS
<1>1. Onward /\ \A r \in Rooms : RoomKept(r)'  BY ChatsBeside
<1>2. mix' = mix  BY DEF Once, Delete, Say, Archive, Leave, Terminal, Age, rest
<1>3. \E C : Others(C) \/ req' = req
  BY DEF Once, Delete, Say, Archive, Leave, Terminal, Age
<1>4. \A q \in Reqs : Aware(req[q])'  BY <1>1, <1>2, <1>3, AwareBeside
<1> QED  BY <1>1, <1>4 DEF RoomsInv

\* No step breaks what requests know of the chats.
LEMMA RoomsStep == TypeInv /\ TypeInv' /\ RoomsInv /\ [Next]_vars => RoomsInv'
<1> SUFFICES ASSUME TypeInv, TypeInv', RoomsInv, [Next]_vars  PROVE RoomsInv'
  OBVIOUS
<1>1. ASSUME NEW p \in Reqs, Proceed(p)  PROVE RoomsInv'
  BY <1>1, ReadAware, WriteAware DEF Proceed
<1>2. ASSUME UNCHANGED vars  PROVE RoomsInv'
  <2>1. UNCHANGED <<chats, mix>> /\ offers' \subseteq offers /\ req' = req  BY <1>2 DEF vars, chats
  <2>2. Onward /\ \A r \in Rooms : RoomKept(r)'  BY <2>1, RoomsUnchanged
  <2>3. \A q \in Reqs : Aware(req[q])'  BY <2>1, <2>2, AwareBeside
  <2> QED  BY <2>2, <2>3 DEF RoomsInv
<1> QED  BY <1>1, <1>2, BeginAware, OnceAware DEF Next

\* The OFFER chats are there when the program starts, each with its driver.
LEMMA RoomsInitially == Init => RoomsInv
<1> SUFFICES ASSUME Init PROVE RoomsInv
  OBVIOUS
<1>1. TypeInv /\ mix \in Mixes /\ created = Len(mix.offered)  BY TypeInitially DEF Init
<1>2. \A p \in Reqs : Aware(req[p])  BY AwareIdle DEF Init
<1>3. ASSUME NEW r \in Rooms  PROVE RoomKept(r)
  <2>a. r \in Nat /\ mix.offered \in Seq(Drivers) /\ Len(mix.offered) \in Nat /\ mix.sells \in Staff
        /\ Drivers \cap Staff = {}
    BY <1>1, MixTypes, UsersAssumption DEF Rooms
  <2>1. CASE Offered(r)
    <3>1. /\ room[r] = [NewLoadRoom(mix.offerLoad, "no") EXCEPT !.type = "OFFER"]
          /\ member[r] = {mix.offered[r], mix.sells} /\ r <= created
      BY <1>1, <2>1 DEF Init, Offered
    <3>2. room[r].type = "OFFER" /\ room[r].delivered = "no" /\ ~room[r].isLoadArchived /\ ~room[r].isArchived
      BY <3>1 DEF NewLoadRoom
    <3>3. room[r] # NULL
      <4>1. mix.offerLoad \in Loads  BY <1>1, MixTypes
      <4>2. room[r] \in RoomRecord  BY <3>1, <4>1 DEF NewLoadRoom, RoomRecord, Delivered
      <4> QED  BY <4>2, RecordsAssumption
    <3>4. DriversOf(r) \subseteq {mix.offered[r]}  BY <2>a, <3>1 DEF DriversOf
    <3>5. created \in Nat  BY <1>1, <2>a
    <3> QED  BY <2>1, <2>a, <3>1, <3>2, <3>3, <3>4, <3>5 DEF RoomKept
  <2>2. CASE ~Offered(r)
    <3>1. room[r] = NULL /\ member[r] = {}  BY <2>2 DEF Init
    <3> QED  BY <3>1 DEF RoomKept, Live, DriversOf
  <2> QED  BY <2>1, <2>2
<1> QED  BY <1>2, <1>3 DEF RoomsInv

-----------------------------------------------------------------------------
(* At which stage a request goes on.                                       *)

\* The stages at which the next driver, or what follows the last one, comes up.
Fresh == {"idle", "fork", "rows", "next", "syncRead", "tell"}

\* Where a request goes on when its driver is served.
LEMMA ServedStage ==
  ASSUME NEW s, "at" \in DOMAIN s
  PROVE  Served(s).at \in Fresh
<1> DEFINE t == [s EXCEPT !.driver = NULL, !.drop = {}, !.had = {}, !.delivered = "no"]
<1>1. "at" \in DOMAIN t  OBVIOUS
<1> HIDE DEF t
<1>2. Idle.at = "idle"  BY IdleRecord
<1>3. /\ [t EXCEPT !.at = "fork"].at = "fork" /\ [t EXCEPT !.at = "rows"].at = "rows"
      /\ [t EXCEPT !.at = "syncRead"].at = "syncRead" /\ [t EXCEPT !.at = "tell"].at = "tell"
  BY <1>1
<1>4. [t EXCEPT !.at = "next", !.task = "create", !.had = s.had].at = "next"
  BY <1>1
<1>5. Served(s) \in {Idle, [t EXCEPT !.at = "fork"], [t EXCEPT !.at = "rows"],
                     [t EXCEPT !.at = "next", !.task = "create", !.had = s.had],
                     [t EXCEPT !.at = "syncRead"], [t EXCEPT !.at = "tell"]}
  BY DEF Served, t
<1> QED  BY <1>2, <1>3, <1>4, <1>5 DEF Fresh

\* How each kind of step leaves its request.
LEMMA SlotStages ==
  ASSUME TypeInv, NEW p \in Reqs, Begin(p) \/ Proceed(p)
  PROVE  /\ req'[p].at = "write" => LockFind(p) /\ req'[p] = [req[p] EXCEPT !.at = "write"]
         /\ req'[p].at = "sync" => SyncRead(p) \/ \E r \in Rooms : SyncRoom(p, r)
         /\ req'[p].at = "sweep" => SweepRead(p) \/ \E r \in Rooms : SweepRoom(p, r)
         /\ req'[p].at = "present" => TransferRoles(p)
         /\ req'[p].at = "replace" => TransferPresent(p)
         /\ req'[p].at = "track" => ReactivateRead(p) \/ Reactivate(p)
         /\ \E s, C : Becomes(p, s, C)
<1>a. req[p] \in ReqRecord /\ Known(req[p]) /\ "at" \in DOMAIN req[p]  BY RequestTypes DEF ReqRecord
<1>b. \A s, C : Becomes(p, s, C) => req'[p] = s  BY StateTypes, BecomesSlot
<1>c. Idle.at = "idle" /\ "at" \in DOMAIN Idle  BY DEF Idle
<1>1. ASSUME Begin(p)
      PROVE  /\ req'[p].at \in {"offer", "attach", "fork", "roles", "reactivateRead", "sweep"}
             /\ req'[p].at = "sweep" => SweepRead(p)
             /\ \E s, C : Becomes(p, s, C)
  <2>1. ASSUME NEW l, NEW D, NEW S, NEW b, NEW c, CreateBegin(p, l, D, S, b, c)
        PROVE  req'[p].at = "offer" /\ \E s, C : Becomes(p, s, C)
    <3> DEFINE s == [Idle EXCEPT !.at = "offer", !.task = "create", !.load = l, !.all = D,
                      !.left = D, !.staff = S, !.sync = b, !.says = c]
    <3>1. Becomes(p, s, {})  BY <2>1 DEF CreateBegin, Enter
    <3>2. s.at = "offer"  BY <1>c
    <3> HIDE DEF s
    <3> QED  BY <1>b, <3>1, <3>2
  <2>2. ASSUME NEW u, NEW r, NEW S, AddBegin(p, u, r, S)
        PROVE  req'[p].at \in {"attach", "fork"} /\ \E s, C : Becomes(p, s, C)
    <3> DEFINE a == IF DriversOf(r) = {} THEN "attach" ELSE "fork"
               s == [Idle EXCEPT !.at = a, !.task = "fork", !.by = u, !.load = room[r].load, !.room = r,
                      !.left = S \cap Drivers, !.rows = [None EXCEPT ![r] = S \cap Staff]]
    <3>1. Becomes(p, s, {})  BY <2>2 DEF AddBegin, Enter
    <3>2. s.at \in {"attach", "fork"}  BY <1>c
    <3> HIDE DEF s
    <3> QED  BY <1>b, <3>1, <3>2
  <2>3. ASSUME NEW u, NEW S, NEW X, TransferBegin(p, u, S, X)
        PROVE  req'[p].at = "roles" /\ \E s, C : Becomes(p, s, C)
    <3>1. PICK R : Becomes(p, [Idle EXCEPT !.at = "roles", !.by = u, !.staff = S, !.rooms = R], {})
      BY <2>3 DEF TransferBegin, Enter
    <3> QED  BY <1>b, <1>c, <3>1
  <2>4. ASSUME NEW l, NEW d, NEW b, StatusBegin(p, l, d, b)
        PROVE  req'[p].at = "reactivateRead" /\ \E s, C : Becomes(p, s, C)
    <3>1. Becomes(p, [Idle EXCEPT !.at = "reactivateRead", !.load = l, !.driver = d, !.enroute = b], {})
      BY <2>4 DEF StatusBegin, Enter
    <3> QED  BY <1>b, <1>c, <3>1
  <2>5. ASSUME SweepRead(p)  PROVE req'[p].at = "sweep" /\ \E s, C : Becomes(p, s, C)
    <3>1. PICK X : Becomes(p, [Idle EXCEPT !.at = "sweep", !.rooms = Due, !.drop = X], {})
      BY <2>5 DEF SweepRead, Enter
    <3> QED  BY <1>b, <1>c, <3>1
  <2> QED  BY <1>1, <2>1, <2>2, <2>3, <2>4, <2>5 DEF Begin
<1>2. ASSUME CreateOffer(p)  PROVE req'[p].at = "next" /\ \E s, C : Becomes(p, s, C)
  <2> DEFINE t == [req[p] EXCEPT !.at = "next"]
  <2>1. t.at = "next" /\ "at" \in DOMAIN t  BY <1>a
  <2>2. Becomes(p, t, {}) \/ \E r \in Rooms : Becomes(p, [t EXCEPT !.room = r, !.had = member[r]], {})
    BY <1>2 DEF CreateOffer, OfferRooms
  <2> HIDE DEF t
  <2>3. \A r \in Rooms : [t EXCEPT !.room = r, !.had = member[r]].at = "next"  BY <2>1
  <2> QED  BY <1>b, <2>1, <2>2, <2>3
<1>3. ASSUME CreateDoomed(p)  PROVE req'[p].at = "lock" /\ \E s, C : Becomes(p, s, C)
  <2>1. PICK R : Becomes(p, [req[p] EXCEPT !.at = "lock", !.drop = R], {})  BY <1>3 DEF CreateDoomed
  <2> QED  BY <1>a, <1>b, <2>1
<1>4. ASSUME LockFind(p)
      PROVE  /\ req'[p].at \in Fresh \/ req'[p] = [req[p] EXCEPT !.at = "write"]
             /\ \E s, C : Becomes(p, s, C)
  <2> DEFINE u == [req[p] EXCEPT !.room = IF req[p].task = "convert" THEN NULL ELSE @]
  <2>1. "at" \in DOMAIN u  BY <1>a
  <2>2. Becomes(p, Served(u), {}) \/ Becomes(p, [req[p] EXCEPT !.at = "write"], {})  BY <1>4 DEF LockFind
  <2> HIDE DEF u
  <2>3. Served(u).at \in Fresh  BY <2>1, ServedStage
  <2> QED  BY <1>b, <2>2, <2>3
<1>5. ASSUME ConvertWrite(p) \/ CreateWrite(p) \/ ForkWrite(p)
      PROVE  req'[p].at \in Fresh /\ \E s, C : Becomes(p, s, C)
  <2>1. PICK s, C : "at" \in DOMAIN s /\ Becomes(p, Served(s), C)
    <3>1. CASE ConvertWrite(p)
      <4>1. \E x, y, C : Becomes(p, Served([req[p] EXCEPT !.room = x, !.made = y]), C)
        BY <3>1 DEF ConvertWrite
      <4> QED  BY <1>a, <4>1
    <3>2. CASE CreateWrite(p)
      <4>1. \E y, C : Becomes(p, Served([req[p] EXCEPT !.made = y]), C)
        BY <3>2 DEF CreateWrite
      <4> QED  BY <1>a, <4>1
    <3>3. CASE ForkWrite(p)
      BY <1>a, <3>3 DEF ForkWrite
    <3> QED  BY <1>5, <3>1, <3>2, <3>3
  <2>2. Served(s).at \in Fresh  BY <2>1, ServedStage
  <2> QED  BY <1>b, <2>1, <2>2
<1>6. ASSUME NEW d, CreateNext(p, d)
      PROVE  req'[p].at \in Fresh \cup {"doomed", "lock"} /\ \E s, C : Becomes(p, s, C)
  <2> DEFINE s == [req[p] EXCEPT !.left = @ \ {d}, !.driver = d]
  <2>1. "at" \in DOMAIN s  BY <1>a
  <2>2. \/ Becomes(p, Served(s), {}) \/ Becomes(p, [s EXCEPT !.at = "doomed", !.task = "convert"], {})
        \/ Becomes(p, [s EXCEPT !.at = "lock"], {})
    BY <1>6 DEF CreateNext
  <2> HIDE DEF s
  <2>3. /\ Served(s).at \in Fresh /\ [s EXCEPT !.at = "lock"].at = "lock"
        /\ [s EXCEPT !.at = "doomed", !.task = "convert"].at = "doomed"
    BY <2>1, ServedStage
  <2> QED  BY <1>b, <2>2, <2>3
<1>7. ASSUME NEW d, AttachFind(p, d)  PROVE req'[p].at \in Fresh /\ \E s, C : Becomes(p, s, C)
  <2> DEFINE s == [req[p] EXCEPT !.left = @ \ {d}]
             v == [s EXCEPT !.rows[s.room] = @ \cup {d}]
  <2>1. "at" \in DOMAIN s /\ "at" \in DOMAIN v  BY <1>a
  <2>2. Becomes(p, Served(s), {}) \/ Becomes(p, Served(v), {})  BY <1>7 DEF AttachFind
  <2> HIDE DEF s, v
  <2>3. Served(s).at \in Fresh /\ Served(v).at \in Fresh  BY <2>1, ServedStage
  <2> QED  BY <1>b, <2>2, <2>3
<1>8. ASSUME NEW d, ForkRead(p, d)  PROVE req'[p].at \in Fresh \cup {"lock"} /\ \E s, C : Becomes(p, s, C)
  <2> DEFINE s == [req[p] EXCEPT !.left = @ \ {d}]
             x == StaffOf(req[p].room)
             y == room[req[p].room].delivered
             t == [s EXCEPT !.at = "lock", !.driver = d, !.had = x, !.delivered = y]
  <2>1. "at" \in DOMAIN s  BY <1>a
  <2>2. Becomes(p, Served(s), {}) \/ Becomes(p, t, {})  BY <1>8 DEF ForkRead
  <2> HIDE DEF s, x, y
  <2>3. Served(s).at \in Fresh /\ t.at = "lock"  BY <2>1, ServedStage
  <2> HIDE DEF t
  <2> QED  BY <1>b, <2>2, <2>3
<1>9. ASSUME NEW r, Tell(p, r)  PROVE req'[p].at \in {"idle", "tell"} /\ \E s, C : Becomes(p, s, C)
  <2>1. \E C : Becomes(p, Idle, C) \/ Becomes(p, [req[p] EXCEPT !.made = @ \ {r}], C)  BY <1>9 DEF Tell
  <2>2. [req[p] EXCEPT !.made = @ \ {r}].at = "tell"  BY <1>9, <1>a DEF Tell
  <2> QED  BY <1>b, <1>c, <2>1, <2>2
<1>10. ASSUME SyncRead(p)  PROVE req'[p].at \in {"idle", "sync"} /\ \E s, C : Becomes(p, s, C)
  <2>1. Becomes(p, Idle, {}) \/ \E R, f : Becomes(p, [req[p] EXCEPT !.at = "sync", !.rooms = R, !.seen = f], {})
    BY <1>10 DEF SyncRead
  <2> QED  BY <1>a, <1>b, <1>c, <2>1
<1>11. ASSUME NEW r, SyncRoom(p, r) \/ SweepRoom(p, r)
       PROVE  req'[p].at \in {"idle", req[p].at} /\ \E s, C : Becomes(p, s, C)
  <2>1. \E C : Becomes(p, Idle, C) \/ Becomes(p, [req[p] EXCEPT !.rooms = @ \ {r}], C)
    BY <1>11 DEF SyncRoom, SweepRoom
  <2> QED  BY <1>a, <1>b, <1>c, <2>1
<1>12. ASSUME NEW u, AddRow(p, u)  PROVE req'[p].at \in {"idle", "rows"} /\ \E s, C : Becomes(p, s, C)
  <2> DEFINE r == req[p].room
             C == {<<r, u>>} \ {<<r, v>> : v \in member[r]}
             f == [req[p].rows EXCEPT ![r] = @ \ {u}]
             t == [req[p] EXCEPT !.rows[r] = @ \ {u}]
  <2>3. Becomes(p, Idle, C) \/ Becomes(p, t, C)  BY <1>12 DEF AddRow
  <2>4. t = [req[p] EXCEPT !.rows = f]  BY <1>a
  <2> HIDE DEF C, f, t
  <2>1. \E X, g : Becomes(p, Idle, X) \/ Becomes(p, [req[p] EXCEPT !.rows = g], X)  BY <2>3, <2>4
  <2>2. req[p].at = "rows"  BY <1>12 DEF AddRow
  <2> QED  BY <1>a, <1>b, <1>c, <2>1, <2>2
<1>13. ASSUME TransferRoles(p)  PROVE req'[p].at = "present" /\ \E s, C : Becomes(p, s, C)
  <2>1. \E f : Becomes(p, [req[p] EXCEPT !.at = "present", !.seen = f], {})  BY <1>13 DEF TransferRoles
  <2> QED  BY <1>a, <1>b, <2>1
<1>14. ASSUME TransferPresent(p)  PROVE req'[p].at = "replace" /\ \E s, C : Becomes(p, s, C)
  <2>1. \E f : Becomes(p, [req[p] EXCEPT !.at = "replace", !.rows = f], {})  BY <1>14 DEF TransferPresent
  <2> QED  BY <1>a, <1>b, <2>1
<1>15. ASSUME TransferWrite(p) \/ CleanOffers(p) \/ Fail(p)
       PROVE  req'[p].at = "idle" /\ \E s, C : Becomes(p, s, C)
  <2>1. \E C : Becomes(p, Idle, C)  BY <1>15 DEF TransferWrite, CleanOffers, Fail
  <2> QED  BY <1>b, <1>c, <2>1
<1>16. ASSUME ReactivateRead(p) \/ Reactivate(p)
       PROVE  req'[p].at \in {"idle", "reactivate", "track"} /\ \E s, C : Becomes(p, s, C)
  <2>1. \E C : \/ Becomes(p, Idle, C)
               \/ Becomes(p, [req[p] EXCEPT !.at = "reactivate"], C)
               \/ Becomes(p, [req[p] EXCEPT !.at = "track"], C)
    BY <1>16 DEF ReactivateRead, Reactivate, Reactivated
  <2> QED  BY <1>a, <1>b, <1>c, <2>1
<1>17. ASSUME StartTracking(p)  PROVE req'[p].at = "offers" /\ \E s, C : Becomes(p, s, C)
  <2>1. Becomes(p, [req[p] EXCEPT !.at = "offers"], {})  BY <1>17 DEF StartTracking
  <2> QED  BY <1>a, <1>b, <2>1
<1>18. \A r : /\ SyncRoom(p, r) => req[p].at = "sync" /\ r \in req[p].rooms
              /\ SweepRoom(p, r) => req[p].at = "sweep" /\ r \in req[p].rooms
  BY DEF SyncRoom, SweepRoom
<1>19. CASE Begin(p)  BY <1>1, <1>19
<1> DEFINE Q == /\ req'[p].at = "write" => LockFind(p) /\ req'[p] = [req[p] EXCEPT !.at = "write"]
                /\ req'[p].at = "sync" => SyncRead(p) \/ \E r \in Rooms : SyncRoom(p, r)
                /\ req'[p].at = "sweep" => SweepRead(p) \/ \E r \in Rooms : SweepRoom(p, r)
                /\ req'[p].at = "present" => TransferRoles(p)
                /\ req'[p].at = "replace" => TransferPresent(p)
                /\ req'[p].at = "track" => ReactivateRead(p) \/ Reactivate(p)
                /\ \E s, C : Becomes(p, s, C)
<1>20. CASE Proceed(p)
  <2>1. CreateOffer(p) \/ CreateDoomed(p) => Q  BY <1>2, <1>3
  <2>9. LockFind(p) => Q
    <3>1. [req[p] EXCEPT !.at = "write"].at = "write"  BY <1>a
    <3> QED  BY <1>4, <3>1 DEF Fresh
  <2>2. ConvertWrite(p) \/ CreateWrite(p) \/ ForkWrite(p) \/ SyncRead(p) => Q  BY <1>5, <1>10 DEF Fresh
  <2>3. \A d \in Drivers : CreateNext(p, d) \/ AttachFind(p, d) \/ ForkRead(p, d) => Q
    BY <1>6, <1>7, <1>8 DEF Fresh
  <2>4. \A r \in Rooms : Tell(p, r) \/ SyncRoom(p, r) \/ SweepRoom(p, r) => Q  BY <1>9, <1>11, <1>18
  <2>5. \A u \in Users : AddRow(p, u) => Q  BY <1>12
  <2>6. TransferRoles(p) \/ TransferPresent(p) \/ TransferWrite(p) => Q  BY <1>13, <1>14, <1>15
  <2>7. ReactivateRead(p) \/ Reactivate(p) \/ StartTracking(p) \/ CleanOffers(p) \/ Fail(p) => Q
    BY <1>15, <1>16, <1>17
  <2> HIDE DEF Q
  <2>8. Q  BY <1>20, <2>1, <2>9, <2>2, <2>3, <2>4, <2>5, <2>6, <2>7 DEF Proceed
  <2> QED  BY <2>8 DEF Q
<1> QED  BY <1>19, <1>20

\* The other requests go on as they were.
LEMMA OthersSame ==
  ASSUME TypeInv, Next
  PROVE  \/ Once /\ \A q \in Reqs : Same(req'[q], req[q])
         \/ \E p \in Reqs : Begin(p) \/ Proceed(p)
<1>1. req \in [Reqs -> ReqRecord]  BY StateTypes
<1>2. ASSUME Once  PROVE \A q \in Reqs : Same(req'[q], req[q])
  <2>1. PICK C : Others(C) \/ req' = req
    BY <1>2 DEF Once, Delete, Say, Archive, Leave, Terminal, Age
  <2>2. \A q \in Reqs : req'[q] \in {Touched(req[q], C), req[q]}  BY <2>1 DEF Others
  <2> QED  BY <1>1, <2>2, TouchedRecord DEF Same
<1> QED  BY <1>2 DEF Next

\* When one request goes on, the others go on with what they have read.
LEMMA SlotSame ==
  ASSUME TypeInv, NEW p \in Reqs, Begin(p) \/ Proceed(p)
  PROVE  \A q \in Reqs : q # p => Same(req'[q], req[q])
<1>1. PICK s, C : Becomes(p, s, C)  BY SlotStages
<1>2. req \in [Reqs -> ReqRecord]  BY StateTypes
<1>3. \A q \in Reqs : q # p => req'[q] = Touched(req[q], C)  BY <1>1, <1>2, BecomesSlot
<1> QED  BY <1>2, <1>3, TouchedRecord

-----------------------------------------------------------------------------
(* One chat per driver.                                                    *)

\* No driver is taken into a chat without one, and no chat is archived by hand.
Guarded == mix.kinds \cap {"attach", "archive"} = {}

\* A driver has one chat for a load, as it is proved; UniqueCounts counts them.
Unique ==
  Guarded => \A l \in Loads, d \in Drivers : \A r, x \in WithDriver(l, d) : r = x

\* One chat per driver, with the locks that keep it so.
LocksInv == Unique /\ \A p \in Reqs : Locks(p) /\ LockClears(p)

\* The lock that a request waits for is taken when it is free, and kept until it is done.
LEMMA LockTaken ==
  ASSUME TypeInv, NEW p \in Reqs, LockFind(p), req'[p] = [req[p] EXCEPT !.at = "write"]
  PROVE  /\ req'[p].load = req[p].load /\ req'[p].driver = req[p].driver
         /\ <<req[p].load, req[p].driver>> \in Loads \X Drivers
         /\ lock[<<req[p].load, req[p].driver>>] = NULL
         /\ lock' = [lock EXCEPT ![<<req[p].load, req[p].driver>>] = p]
         /\ IF req[p].task = "fork" THEN Shown(WithDriver(req[p].load, req[p].driver)) = {}
                                    ELSE WithDriver(req[p].load, req[p].driver) = {}
         /\ UNCHANGED <<chats, rest>>
<1>a. req[p] \in ReqRecord /\ Known(req[p])  BY RequestTypes
<1> DEFINE k == <<req[p].load, req[p].driver>>
           R == WithDriver(req[p].load, req[p].driver)
           found == IF req[p].task = "fork" THEN Shown(R) ELSE R
           u == [req[p] EXCEPT !.room = IF req[p].task = "convert" THEN NULL ELSE @]
<1>1. req[p].load \in Loads /\ req[p].driver \in Drivers  BY <1>a DEF LockFind, Known
<1>2. req'[p].load = req[p].load /\ req'[p].driver = req[p].driver /\ req'[p].at = "write"
  BY <1>a DEF ReqRecord
<1>3. found = {}
  <2>1. CASE found # {}
    <3>1. Becomes(p, Served(u), {})  BY <2>1 DEF LockFind
    <3>2. req'[p] = Served(u)  BY <3>1, StateTypes, BecomesSlot
    <3>3. "at" \in DOMAIN u  BY <1>a DEF ReqRecord
    <3> HIDE DEF u
    <3>4. Served(u).at \in Fresh  BY <3>3, ServedStage
    <3> QED  BY <1>2, <3>2, <3>4 DEF Fresh
  <2> QED  BY <2>1
<1>4. lock' = [lock EXCEPT ![k] = p] /\ lock[k] = NULL /\ UNCHANGED <<chats, rest>>
  BY <1>3 DEF LockFind
<1> QED  BY <1>1, <1>2, <1>3, <1>4

\* No request loses a lock by what another does.
LEMMA LocksKept ==
  ASSUME TypeInv, [Next]_vars, NEW q \in Reqs, NEW k \in Loads \X Drivers, lock[k] = q,
         \A p \in Reqs : (Begin(p) \/ Proceed(p)) => p # q
  PROVE  lock'[k] = q
<1>0. NULL \notin Reqs /\ lock \in [Loads \X Drivers -> Reqs \cup {NULL}]
  BY StateTypes, UsersAssumption
<1>1. ASSUME Once \/ UNCHANGED vars  PROVE lock' = lock
  BY <1>1 DEF vars, Once, Delete, Say, Archive, Leave, Terminal, Age, rest
<1>2. ASSUME NEW p \in Reqs, Begin(p)  PROVE lock' = lock
  BY <1>2 DEF Begin, CreateBegin, AddBegin, TransferBegin, StatusBegin, SweepRead
<1>3. ASSUME NEW p \in Reqs, Proceed(p), p # q  PROVE lock'[k] = q
  <2>1. CASE LockFind(p)
    <3>1. \/ lock' = lock
          \/ lock[<<req[p].load, req[p].driver>>] = NULL /\ lock' = [lock EXCEPT ![<<req[p].load, req[p].driver>>] = p]
      BY <2>1 DEF LockFind
    <3> QED  BY <1>0, <3>1
  <2>2. CASE lock' = Unlocked(p)
    BY <1>0, <1>3, <2>2 DEF Unlocked
  <2>3. lock' = lock \/ lock' = Unlocked(p) \/ LockFind(p)
    BY <1>3 DEF Proceed, CreateOffer, CreateDoomed, ConvertWrite, CreateWrite, ForkWrite, SyncRead,
      CreateNext, AttachFind, ForkRead, Tell, SyncRoom, SweepRoom, AddRow, TransferRoles, TransferPresent,
      TransferWrite, ReactivateRead, Reactivate, StartTracking, CleanOffers, Fail
  <2> QED  BY <2>1, <2>2, <2>3
<1> QED  BY <1>1, <1>2, <1>3 DEF Next

\* A lock is held until its request is done.
LEMMA LocksStep ==
  ASSUME TypeInv, TypeInv', [Next]_vars, \A q \in Reqs : Locks(q)
  PROVE  \A q \in Reqs : Locks(q)'
<1> SUFFICES ASSUME NEW q \in Reqs, req'[q].at = "write"
             PROVE  lock'[<<req'[q].load, req'[q].driver>>] = q
  BY DEF Locks
<1>a. Known(req[q]) /\ req[q] \in ReqRecord /\ lock \in [Loads \X Drivers -> Reqs \cup {NULL}]
  BY RequestTypes, StateTypes
<1>1. CASE Begin(q) \/ Proceed(q)
  <2>1. LockFind(q) /\ req'[q] = [req[q] EXCEPT !.at = "write"]  BY <1>1, SlotStages
  <2> QED  BY <1>a, <2>1, LockTaken
<1>2. CASE ~(Begin(q) \/ Proceed(q))
  <2>1. Same(req'[q], req[q])
    <3>1. CASE Next  BY <1>2, <3>1, OthersSame, SlotSame
    <3>2. CASE UNCHANGED vars  BY <3>2 DEF vars, Same
    <3> QED  BY <3>1, <3>2
  <2>2. req[q].at = "write" /\ req'[q].load = req[q].load /\ req'[q].driver = req[q].driver
    BY <2>1 DEF Same
  <2>3. <<req[q].load, req[q].driver>> \in Loads \X Drivers  BY <1>a, <2>2 DEF Known
  <2>4. lock[<<req[q].load, req[q].driver>>] = q  BY <2>2 DEF Locks
  <2> QED  BY <1>2, <2>2, <2>3, <2>4, LocksKept
<1> QED  BY <1>1, <1>2

\* How chats move in a step.
LEMMA RowsStep ==
  ASSUME TypeInv, TypeInv', RoomsInv, [Next]_vars
  PROVE  Rows /\ Onward
<1>1. ASSUME Once  PROVE Rows /\ Onward  BY <1>1, ChatsBeside
<1>2. ASSUME UNCHANGED vars  PROVE Rows /\ Onward
  BY <1>2, RoomsUnchanged DEF vars, chats
<1>3. ASSUME NEW p \in Reqs, Begin(p)  PROVE Rows /\ Onward
  <2>1. UNCHANGED <<chats, offers, mix>>
    BY <1>3 DEF Begin, CreateBegin, AddBegin, TransferBegin, StatusBegin, SweepRead, rest
  <2> QED  BY <2>1, RoomsUnchanged
<1>4. ASSUME NEW p \in Reqs, Proceed(p)  PROVE Rows /\ Onward
  <2>1. CASE UNCHANGED <<chats, mix>> /\ offers' \subseteq offers  BY <2>1, RoomsUnchanged
  <2>2. \/ UNCHANGED <<chats, mix>> /\ offers' \subseteq offers
        \/ ConvertWrite(p) \/ CreateWrite(p) \/ ForkWrite(p) \/ TransferWrite(p) \/ Reactivate(p)
        \/ \E r \in Rooms : Tell(p, r) \/ SyncRoom(p, r) \/ SweepRoom(p, r)
        \/ \E u \in Users : AddRow(p, u)
    BY <1>4 DEF Proceed, CreateOffer, CreateDoomed, LockFind, SyncRead, CreateNext, AttachFind, ForkRead,
      TransferRoles, TransferPresent, ReactivateRead, StartTracking, CleanOffers, Fail, rest
  <2> QED  BY <2>1, <2>2, ChatsWritten
<1> QED  BY <1>1, <1>2, <1>3, <1>4 DEF Next

\* A driver comes into a chat only by a request that holds the lock for him.
LEMMA DriverTaken ==
  ASSUME TypeInv, TypeInv', RoomsInv, [Next]_vars, Guarded,
         NEW l \in Loads, NEW d \in Drivers, NEW r \in WithDriver(l, d)', r \notin WithDriver(l, d)
  PROVE  \E p \in Reqs :
           /\ req[p].at = "write" /\ req[p].load = l /\ req[p].driver = d
           /\ \/ ConvertWrite(p) /\ r = req[p].room
              \/ (CreateWrite(p) \/ ForkWrite(p)) /\ r = created + 1 /\ created' = r
<1>1. r \in Rooms /\ Live(r)' /\ room'[r].type = "LOAD" /\ room'[r].load = l /\ d \in DriversOf(r)'
  BY DEF WithDriver, LoadRooms, DriversOf
<1>2. RowStays(r) \/ RowGoes(r) \/ RowComes(r) \/ RowConverts(r) \/ RowChanges(r)
  BY <1>1, RowsStep DEF Rows
<1>3. ~RowStays(r)  BY <1>1 DEF RowStays, WithDriver, LoadRooms, Live, DriversOf
<1>4. ~RowGoes(r)  BY <1>1 DEF RowGoes, Live
<1>5. ~RowChanges(r)
  BY <1>1 DEF RowChanges, WithDriver, LoadRooms, DriversOf, Guarded
<1>6. CASE RowComes(r)
  <2>1. PICK p \in Reqs : /\ CreateWrite(p) \/ ForkWrite(p)
                          /\ room'[r].load = req[p].load /\ DriversOf(r)' = {req[p].driver}
    BY <1>6 DEF RowComes
  <2> QED  BY <1>1, <1>6, <2>1 DEF RowComes, CreateWrite, ForkWrite
<1>7. CASE RowConverts(r)
  <2>1. PICK p \in Reqs : ConvertWrite(p) /\ r = req[p].room  BY <1>7 DEF RowConverts
  <2>2. req[p].at = "write" /\ req[p].task = "convert" /\ req[p].had \subseteq member[r]
    BY <2>1 DEF ConvertWrite
  <2>3. /\ req[p].driver = Chosen /\ Chosen \in req[p].had /\ room[r].load = req[p].load
        /\ req[p].driver \in Drivers
    BY <1>7, <2>1, <2>2, RequestTypes, RoomsAssumption
    DEF RoomsInv, Aware, Chose, Finds, Creating, Known, RowConverts, Rooms
  <2>4. req[p].driver \in DriversOf(r) /\ d \in DriversOf(r)
    BY <1>1, <1>7, <2>2, <2>3 DEF DriversOf, RowConverts, Guarded
  <2>5. d = req[p].driver  BY <1>1, <2>4 DEF RoomsInv, RoomKept, Guarded
  <2> QED  BY <1>1, <1>7, <2>1, <2>2, <2>3, <2>5 DEF RowConverts
<1> QED  BY <1>2, <1>3, <1>4, <1>5, <1>6, <1>7

\* Two requests cannot both write in a step.
LEMMA OneWriter ==
  ASSUME TypeInv, LocksInv, NEW p \in Reqs, NEW q \in Reqs,
         req[p].at = "write", lock' = Unlocked(p), req[q].at = "write", lock' = Unlocked(q)
  PROVE  p = q
<1>1. Locks(p) /\ Known(req[p]) /\ lock \in [Loads \X Drivers -> Reqs \cup {NULL}]
  BY RequestTypes, StateTypes DEF LocksInv
<1> DEFINE k == <<req[p].load, req[p].driver>>
<1>2. lock[k] = p /\ k \in Loads \X Drivers  BY <1>1 DEF Locks, Known
<1> HIDE DEF k
<1>3. Unlocked(p)[k] = NULL  BY <1>1, <1>2 DEF Unlocked
<1>4. p # q => Unlocked(q)[k] = p  BY <1>1, <1>2 DEF Unlocked
<1>5. p # NULL  BY UsersAssumption
<1> QED  BY <1>3, <1>4, <1>5

\* The mix is chosen once.
LEMMA MixKept ==
  ASSUME [Next]_vars
  PROVE  mix' = mix
<1>1. ASSUME Once  PROVE mix' = mix
  BY <1>1 DEF Once, Delete, Say, Archive, Leave, Terminal, Age, rest
<1>2. ASSUME NEW p \in Reqs, Begin(p)  PROVE mix' = mix
  BY <1>2 DEF Begin, CreateBegin, AddBegin, TransferBegin, StatusBegin, SweepRead, rest
<1>3. ASSUME NEW p \in Reqs, Proceed(p)  PROVE mix' = mix
  BY <1>3 DEF Proceed, CreateOffer, CreateDoomed, LockFind, ConvertWrite, CreateWrite, ForkWrite, SyncRead,
    CreateNext, AttachFind, ForkRead, Tell, SyncRoom, SweepRoom, AddRow, TransferRoles, TransferPresent,
    TransferWrite, ReactivateRead, Reactivate, StartTracking, CleanOffers, Fail, rest
<1> QED  BY <1>1, <1>2, <1>3 DEF Next, vars

\* No step gives a driver a second chat for a load: who writes one holds the lock, and has looked
\* under it.
LEMMA LocksInvStep ==
  TypeInv /\ TypeInv' /\ RoomsInv /\ RoomsInv' /\ LocksInv /\ [Next]_vars => LocksInv'
<1> SUFFICES ASSUME TypeInv, TypeInv', RoomsInv, RoomsInv', LocksInv, [Next]_vars  PROVE LocksInv'
  OBVIOUS
<1>a. mix' = mix  BY MixKept
<1>b. \A q \in Reqs : Locks(q) /\ LockClears(q)  BY DEF LocksInv
<1>1. \A q \in Reqs : Locks(q)'  BY <1>b, LocksStep
<1>2. Guarded' <=> Guarded  BY <1>a DEF Guarded
<1>3. ASSUME Guarded  PROVE Unique'
  <2> SUFFICES ASSUME NEW l \in Loads, NEW d \in Drivers,
                      NEW r \in WithDriver(l, d)', NEW x \in WithDriver(l, d)'
               PROVE  r = x
    BY DEF Unique
  <2>1. CASE r \in WithDriver(l, d) /\ x \in WithDriver(l, d)
    BY <1>3, <2>1 DEF LocksInv, Unique
  <2>2. ASSUME NEW y \in WithDriver(l, d)', y \notin WithDriver(l, d)
        PROVE  WithDriver(l, d) = {}
    <3>1. PICK p \in Reqs : req[p].at = "write" /\ req[p].load = l /\ req[p].driver = d
      BY <1>3, <2>2, DriverTaken
    <3> QED  BY <1>b, <1>3, <3>1 DEF LockClears, Guarded
  <2>3. CASE r \notin WithDriver(l, d) /\ x \notin WithDriver(l, d)
    <3>1. PICK p \in Reqs :
            /\ req[p].at = "write"
            /\ \/ ConvertWrite(p) /\ r = req[p].room
               \/ (CreateWrite(p) \/ ForkWrite(p)) /\ r = created + 1 /\ created' = r
      BY <1>3, <2>3, DriverTaken
    <3>2. PICK q \in Reqs :
            /\ req[q].at = "write"
            /\ \/ ConvertWrite(q) /\ x = req[q].room
               \/ (CreateWrite(q) \/ ForkWrite(q)) /\ x = created + 1 /\ created' = x
      BY <1>3, <2>3, DriverTaken
    <3>3. lock' = Unlocked(p) /\ lock' = Unlocked(q)
      BY <3>1, <3>2 DEF ConvertWrite, CreateWrite, ForkWrite
    <3>4. p = q  BY <3>1, <3>2, <3>3, OneWriter
    <3>5. ConvertWrite(p) => created' = created  BY DEF ConvertWrite
    <3>6. created + 1 # created  BY StateTypes
    <3> QED  BY <3>1, <3>2, <3>4, <3>5, <3>6
  <2> QED  BY <2>1, <2>2, <2>3
<1>4. ASSUME NEW q \in Reqs, Guarded, req'[q].at = "write"
      PROVE  WithDriver(req[q].load, req[q].driver)' = {}
  <2>a. Known(req[q]) /\ Locks(q) /\ LockClears(q)  BY <1>b, RequestTypes
  <2>1. CASE Begin(q) \/ Proceed(q)
    <3>1. LockFind(q) /\ req'[q] = [req[q] EXCEPT !.at = "write"]  BY <1>4, <2>1, SlotStages
    <3>2. /\ req'[q].load = req[q].load /\ req'[q].driver = req[q].driver /\ UNCHANGED chats
          /\ IF req[q].task = "fork" THEN Shown(WithDriver(req[q].load, req[q].driver)) = {}
                                     ELSE WithDriver(req[q].load, req[q].driver) = {}
      BY <3>1, LockTaken
    <3>3. Shown(WithDriver(req[q].load, req[q].driver)) = WithDriver(req[q].load, req[q].driver)
      BY <1>4 DEF Shown, WithDriver, LoadRooms, RoomsInv, RoomKept, Guarded
    <3>4. WithDriver(req[q].load, req[q].driver) = {}  BY <3>2, <3>3
    <3> QED  BY <3>2, <3>4 DEF WithDriver, LoadRooms, Live, chats
  <2>2. CASE ~(Begin(q) \/ Proceed(q))
    <3>1. Same(req'[q], req[q])
      <4>1. CASE Next  BY <2>2, <4>1, OthersSame, SlotSame
      <4>2. CASE UNCHANGED vars  BY <4>2 DEF vars, Same
      <4> QED  BY <4>1, <4>2
    <3>2. req[q].at = "write" /\ req'[q].load = req[q].load /\ req'[q].driver = req[q].driver
      BY <1>4, <3>1 DEF Same
    <3>3. PICK l \in Loads, d \in Drivers : l = req[q].load /\ d = req[q].driver  BY <2>a, <3>2 DEF Known
    <3>4. WithDriver(l, d) = {}  BY <1>4, <2>a, <3>2, <3>3 DEF LockClears, Guarded
    <3>5. ASSUME NEW r \in WithDriver(l, d)'  PROVE FALSE
      <4>1. PICK p \in Reqs :
              /\ req[p].at = "write" /\ req[p].load = l /\ req[p].driver = d
              /\ ConvertWrite(p) \/ CreateWrite(p) \/ ForkWrite(p)
        BY <1>4, <3>4, <3>5, DriverTaken
      <4>2. p = q  BY <1>b, <3>2, <3>3, <4>1 DEF Locks
      <4> QED  BY <2>2, <4>1, <4>2 DEF Proceed
    <3>6. WithDriver(l, d)' = {}  BY <3>5
    <3> QED  BY <3>2, <3>3, <3>6
  <2> QED  BY <2>1, <2>2
<1>5. \A q \in Reqs : LockClears(q)'  BY <1>2, <1>4 DEF LockClears, Guarded
<1>6. Unique'  BY <1>2, <1>3 DEF Unique
<1> QED  BY <1>1, <1>5, <1>6 DEF LocksInv

\* There are no LOAD chats when the program starts.
LEMMA LocksInitially == Init => LocksInv
<1> SUFFICES ASSUME Init PROVE LocksInv
  OBVIOUS
<1>1. ASSUME NEW l \in Loads  PROVE LoadRooms(l) = {}
  BY DEF Init, LoadRooms, Live, NewLoadRoom
<1>2. \A p \in Reqs : req[p].at = "idle"  BY IdleRecord DEF Init
<1> QED  BY <1>1, <1>2 DEF LocksInv, Unique, WithDriver, Locks, LockClears

\* A driver has one LOAD chat per load.
LEMMA UniqueCounts == TypeInv /\ LocksInv => OneChatPerDriver
<1> SUFFICES ASSUME TypeInv, LocksInv, Guarded, NEW l \in Loads, NEW d \in Drivers
             PROVE  Cardinality(WithDriver(l, d)) <= 1
  BY DEF OneChatPerDriver, Guarded
<1>1. CASE WithDriver(l, d) = {}
  BY <1>1, FS_EmptySet
<1>2. CASE WithDriver(l, d) # {}
  <2>1. PICK r : r \in WithDriver(l, d)  BY <1>2
  <2>2. WithDriver(l, d) = {r}  BY <2>1 DEF LocksInv, Unique
  <2> QED  BY <2>2, FS_Singleton
<1> QED  BY <1>1, <1>2

-----------------------------------------------------------------------------
(* What requests have read, and others change.                             *)

\* What the clean-up has read of a chat that is there stays true of it.
Steady(r) ==
  Live(r) => /\ Live(r)'
             /\ room[r].delivered = "past" => room'[r].delivered = "past"
             /\ ~room[r].messages => ~room'[r].messages

\* A step tells the others of every chat and participant that it changes.
Covers(C) ==
  \A r \in Rooms : r <= created =>
    /\ <<r, NULL>> \in C \/ Steady(r)
    /\ \A u \in Users : <<r, u>> \in C \/ (u \in member'[r] <=> u \in member[r])

\* A step that leaves the chats alone has nothing to tell.
LEMMA NothingCovers ==
  ASSUME UNCHANGED chats
  PROVE  \A C : Covers(C)
BY DEF chats, Covers, Steady, Live

\* Every write of a request tells the others of all that it changes.
LEMMA WriteCovers ==
  ASSUME TypeInv, TypeInv', RoomsInv, NEW p \in Reqs,
         \/ ConvertWrite(p) \/ CreateWrite(p) \/ ForkWrite(p) \/ TransferWrite(p) \/ Reactivate(p)
         \/ \E r \in Rooms : Tell(p, r) \/ SyncRoom(p, r) \/ SweepRoom(p, r)
         \/ \E u \in Users : AddRow(p, u)
  PROVE  \E s, C : Becomes(p, s, C) /\ Covers(C)
<1>a. /\ req[p] \in ReqRecord /\ Known(req[p]) /\ Aware(req[p])
      /\ req[p].room \in Rooms \cup {NULL} /\ req[p].rooms \in SUBSET Rooms /\ req[p].drop \in SUBSET Rooms
      /\ req[p].staff \in SUBSET Staff /\ req[p].rows \in [Rooms -> SUBSET Users]
      /\ req[p].seen \in [Rooms -> SUBSET Users]
  BY RequestTypes DEF RoomsInv
<1>b. /\ room \in [Rooms -> RoomRecord \cup {NULL}] /\ member \in [Rooms -> SUBSET Users]
      /\ created \in Nat /\ Rooms \subseteq Nat
  BY StateTypes, RoomsAssumption DEF Rooms
<1>d. \A r \in Rooms : Live(r) => room[r] \in RoomRecord  BY <1>b DEF Live
<1>1. ASSUME ConvertWrite(p)  PROVE \E s, C : Becomes(p, s, C) /\ Covers(C)
  <2> DEFINE x == req[p].room
             wanted == req[p].staff \cup {req[p].driver}
             C == Whole(x) \cup ({x} \X wanted) \cup UNION {Whole(y) : y \in req[p].drop}
  <2>1. \E s : Becomes(p, s, C)  BY <1>1 DEF ConvertWrite
  <2>2. /\ room' = [r \in Rooms |->
             IF r = x THEN [room[r] EXCEPT !.type = "LOAD", !.load = req[p].load]
             ELSE IF r \in req[p].drop THEN NULL ELSE room[r]]
        /\ member' = [r \in Rooms |->
             IF r = x THEN (member[r] \ req[p].had) \cup wanted
             ELSE IF r \in req[p].drop THEN {} ELSE member[r]]
    BY <1>1 DEF ConvertWrite
  <2>3. ASSUME NEW r \in Rooms, NEW u \in Users
        PROVE  /\ <<r, NULL>> \in C \/ Steady(r)
               /\ <<r, u>> \in C \/ (u \in member'[r] <=> u \in member[r])
    <3>1. CASE r = x
      BY <2>2, <3>1 DEF Whole
    <3>2. CASE r # x /\ r \in req[p].drop
      <4>1. Whole(r) \subseteq C  BY <3>2
      <4> HIDE DEF C
      <4>2. <<r, NULL>> \in C  BY <4>1 DEF Whole
      <4>3. u \in member[r] => <<r, u>> \in C  BY <4>1 DEF Whole
      <4> QED  BY <2>2, <3>2, <4>2, <4>3
    <3>3. CASE r # x /\ r \notin req[p].drop
      BY <2>2, <3>3 DEF Steady, Live
    <3> QED  BY <3>1, <3>2, <3>3
  <2> HIDE DEF C
  <2>4. \E u : u \in Users  BY MixTypes, StateTypes DEF Users
  <2>5. Covers(C)  BY <2>3, <2>4 DEF Covers
  <2> QED  BY <2>1, <2>5
<1>2. ASSUME CreateWrite(p)  PROVE \E s, C : Becomes(p, s, C) /\ Covers(C)
  <2>0. PICK n : n = created + 1  OBVIOUS
  <2>1. PICK S \in SUBSET OfferRooms(req[p].load) :
          /\ room' = [r \in Rooms |-> IF r \in S THEN NULL
                        ELSE IF r = n THEN NewLoadRoom(req[p].load, "no") ELSE room[r]]
          /\ member' = [r \in Rooms |-> IF r \in S THEN {}
                          ELSE IF r = n THEN req[p].staff \cup {req[p].driver} ELSE member[r]]
          /\ \E s : Becomes(p, s, UNION {Whole(r) : r \in S})
    BY <1>2, <2>0 DEF CreateWrite
  <2> DEFINE C == UNION {Whole(r) : r \in S}
  <2>2. ASSUME NEW r \in Rooms, r <= created, NEW u \in Users
        PROVE  /\ <<r, NULL>> \in C \/ Steady(r)
               /\ <<r, u>> \in C \/ (u \in member'[r] <=> u \in member[r])
    <3>1. CASE r \in S
      <4>1. Whole(r) \subseteq C  BY <3>1
      <4> HIDE DEF C
      <4>2. <<r, NULL>> \in C  BY <4>1 DEF Whole
      <4>3. u \in member[r] => <<r, u>> \in C  BY <4>1 DEF Whole
      <4> QED  BY <2>1, <3>1, <4>2, <4>3
    <3>2. CASE r \notin S
      <4>1. r # n  BY <1>b, <2>0, <2>2
      <4> QED  BY <2>1, <3>2, <4>1 DEF Steady, Live
    <3> QED  BY <3>1, <3>2
  <2>3. \E s : Becomes(p, s, C)  BY <2>1
  <2> HIDE DEF C
  <2>4. \E u : u \in Users  BY MixTypes, StateTypes DEF Users
  <2>5. Covers(C)  BY <2>2, <2>4 DEF Covers
  <2> QED  BY <2>3, <2>5
<1>3. ASSUME ForkWrite(p)  PROVE \E s, C : Becomes(p, s, C) /\ Covers(C)
  <2>1. \E s : Becomes(p, s, {})  BY <1>3 DEF ForkWrite
  <2>2. ASSUME NEW r \in Rooms, r <= created
        PROVE  room'[r] = room[r] /\ member'[r] = member[r]
    <3>1. r # created + 1  BY <1>b, <2>2
    <3> QED  BY <1>3, <1>b, <3>1 DEF ForkWrite
  <2>3. Covers({})  BY <2>2 DEF Covers, Steady, Live
  <2> QED  BY <2>1, <2>3
<1>4. ASSUME TransferWrite(p)  PROVE \E s, C : Becomes(p, s, C) /\ Covers(C)
  <2> DEFINE C == UNION {{r} \X (req[p].seen[r] \cup (req[p].rows[r] \ member[r])) : r \in req[p].rooms}
  <2>1. Becomes(p, Idle, C)  BY <1>4 DEF TransferWrite
  <2>2. /\ member' = [r \in Rooms |-> (member[r] \ req[p].seen[r]) \cup req[p].rows[r]]
        /\ room' = room /\ req[p].at = "replace"
    BY <1>4 DEF TransferWrite
  <2>3. ASSUME NEW r \in Rooms, NEW u \in Users
        PROVE  <<r, u>> \in C \/ (u \in member'[r] <=> u \in member[r])
    <3>1. CASE r \in req[p].rooms
      <4>1. u \in req[p].seen[r] \cup (req[p].rows[r] \ member[r]) => <<r, u>> \in C  BY <3>1
      <4> HIDE DEF C
      <4> QED  BY <2>2, <4>1
    <3>2. CASE r \notin req[p].rooms
      <4>1. req[p].seen[r] = {} /\ req[p].rows[r] = {}  BY <1>a, <2>2, <3>2 DEF Known
      <4> QED  BY <2>2, <4>1
    <3> QED  BY <3>1, <3>2
  <2>4. \A r \in Rooms : Steady(r)  BY <2>2 DEF Steady, Live
  <2> HIDE DEF C
  <2>5. Covers(C)  BY <2>3, <2>4 DEF Covers
  <2> QED  BY <2>1, <2>5
<1>5. ASSUME Reactivate(p)  PROVE \E s, C : Becomes(p, s, C) /\ Covers(C)
  <2> DEFINE R == LoadRooms(req[p].load)
  <2>1. \E s : Becomes(p, s, R \X {NULL})  BY <1>5 DEF Reactivate
  <2>2. \A r \in Rooms : r \notin R => room'[r] = room[r]  BY <1>5 DEF Reactivate
  <2>3. member' = member  BY <1>5 DEF Reactivate
  <2> HIDE DEF R
  <2>4. Covers(R \X {NULL})  BY <2>2, <2>3 DEF Covers, Steady, Live
  <2> QED  BY <2>1, <2>4
<1>6. ASSUME NEW x \in Rooms, Tell(p, x)  PROVE \E s, C : Becomes(p, s, C) /\ Covers(C)
  <2>1. \E s : Becomes(p, s, {<<x, NULL>>})  BY <1>6 DEF Tell
  <2>2. member' = member /\ \A r \in Rooms : r # x => room'[r] = room[r]  BY <1>6, <1>b DEF Tell
  <2>3. Covers({<<x, NULL>>})  BY <2>2 DEF Covers, Steady, Live
  <2> QED  BY <2>1, <2>3
<1>7. ASSUME NEW x \in Rooms, SyncRoom(p, x)  PROVE \E s, C : Becomes(p, s, C) /\ Covers(C)
  <2> DEFINE old == req[p].seen[x]
             C == {x} \X ((old \ req[p].staff) \cup (req[p].staff \ old))
  <2>1. \E s : Becomes(p, s, C)  BY <1>7 DEF SyncRoom
  <2>2. room' = room /\ \A r \in Rooms : r # x => member'[r] = member[r]  BY <1>7, <1>b DEF SyncRoom
  <2>3. ASSUME NEW u \in Users  PROVE <<x, u>> \in C \/ (u \in member'[x] <=> u \in member[x])
    <3>1. member'[x] = (IF old = req[p].staff THEN member[x]
                        ELSE (member[x] \ (old \ req[p].staff)) \cup req[p].staff)
      BY <1>7, <1>b DEF SyncRoom
    <3>2. old = req[p].staff \/ old \subseteq member[x]  BY <1>7 DEF SyncRoom
    <3> QED  BY <3>1, <3>2
  <2>4. \A r \in Rooms : Steady(r)  BY <2>2 DEF Steady, Live
  <2> HIDE DEF C
  <2>5. Covers(C)  BY <2>2, <2>3, <2>4 DEF Covers
  <2> QED  BY <2>1, <2>5
<1>8. ASSUME NEW x \in Rooms, SweepRoom(p, x)  PROVE \E s, C : Becomes(p, s, C) /\ Covers(C)
  <2>1. CASE x \in req[p].drop
    <3>1. \E s : Becomes(p, s, Whole(x)) /\ DeleteRooms({x})  BY <1>8, <2>1 DEF SweepRoom
    <3>2. Covers(Whole(x))  BY <3>1 DEF Covers, Steady, Live, Whole, DeleteRooms
    <3> QED  BY <3>1, <3>2
  <2>2. CASE x \notin req[p].drop
    <3>1. \E s : Becomes(p, s, {<<x, NULL>>})  BY <1>8, <2>2 DEF SweepRoom
    <3>2. member' = member /\ \A r \in Rooms : r # x => room'[r] = room[r]
      BY <1>8, <1>b, <2>2 DEF SweepRoom
    <3>3. Covers({<<x, NULL>>})  BY <3>2 DEF Covers, Steady, Live
    <3> QED  BY <3>1, <3>3
  <2> QED  BY <2>1, <2>2
<1>9. ASSUME NEW v \in Users, AddRow(p, v)  PROVE \E s, C : Becomes(p, s, C) /\ Covers(C)
  <2> DEFINE x == req[p].room
             C == {<<x, v>>} \ {<<x, w>> : w \in member[x]}
  <2>1. \E s : Becomes(p, s, C)  BY <1>9 DEF AddRow
  <2>2. x \in Rooms  BY <1>9, <1>a DEF AddRow, Known
  <2>3. room' = room /\ member' = IF Live(x) THEN [member EXCEPT ![x] = @ \cup {v}] ELSE member
    BY <1>9 DEF AddRow
  <2>4. ASSUME NEW r \in Rooms, NEW u \in Users  PROVE <<r, u>> \in C \/ (u \in member'[r] <=> u \in member[r])
    <3>1. CASE r = x /\ u = v
      BY <1>b, <2>2, <2>3, <3>1
    <3>2. CASE ~(r = x /\ u = v)
      BY <1>b, <2>2, <2>3, <3>2
    <3> QED  BY <3>1, <3>2
  <2>5. \A r \in Rooms : Steady(r)  BY <2>3 DEF Steady, Live
  <2> HIDE DEF C
  <2>6. Covers(C)  BY <2>4, <2>5 DEF Covers
  <2> QED  BY <2>1, <2>6
<1> QED  BY <1>1, <1>2, <1>3, <1>4, <1>5, <1>6, <1>7, <1>8, <1>9

\* So does everything that is done in one step.
LEMMA OnceCovers ==
  ASSUME TypeInv, Once
  PROVE  \E C : Covers(C) /\ \A q \in Reqs : req'[q] = Touched(req[q], C)
<1>b. /\ room \in [Rooms -> RoomRecord \cup {NULL}] /\ member \in [Rooms -> SUBSET Users]
      /\ \A q \in Reqs : req[q] \in ReqRecord
  BY StateTypes
<1>c. \A C : Others(C) => \A q \in Reqs : req'[q] = Touched(req[q], C)
  BY DEF Others
<1>d. \A r \in Rooms : Live(r) => room[r] \in RoomRecord  BY <1>b DEF Live
<1>1. ASSUME NEW x \in Rooms, Delete(x)  PROVE \E C : Covers(C) /\ Others(C)
  <2>1. Others(Whole(x)) /\ DeleteRooms({x})  BY <1>1 DEF Delete
  <2>2. Covers(Whole(x))  BY <2>1 DEF Covers, Steady, Live, Whole, DeleteRooms
  <2> QED  BY <2>1, <2>2
<1>2. ASSUME NEW x \in Rooms, Say(x)  PROVE \E C : Covers(C) /\ Others(C)
  <2>1. Others({<<x, NULL>>}) /\ member' = member /\ \A r \in Rooms : r # x => room'[r] = room[r]
    BY <1>2, <1>b DEF Say
  <2>2. Covers({<<x, NULL>>})  BY <2>1 DEF Covers, Steady, Live
  <2> QED  BY <2>1, <2>2
<1>3. ASSUME NEW x \in Rooms, NEW b \in BOOLEAN, Archive(x, b)
      PROVE  Covers({}) /\ req' = req
  <2>1. /\ req' = req /\ member' = member /\ \A r \in Rooms : r # x => room'[r] = room[r]
        /\ Live(x) /\ room'[x] = [room[x] EXCEPT !.isArchived = b]
    BY <1>3, <1>b DEF Archive
  <2>2. /\ room'[x].delivered = room[x].delivered /\ room'[x].messages = room[x].messages
        /\ room'[x] \in RoomRecord
    BY <1>d, <2>1 DEF RoomRecord
  <2>3. Steady(x)  BY <2>2, RecordsAssumption DEF Steady, Live
  <2>4. \A r \in Rooms : r # x => Steady(r)  BY <2>1 DEF Steady, Live
  <2> QED  BY <2>1, <2>3, <2>4 DEF Covers
<1>4. ASSUME NEW x \in Rooms, NEW v, Leave(x, v)  PROVE \E C : Covers(C) /\ Others(C)
  <2>1. /\ Others({<<x, v>>}) /\ room' = room /\ member' = [member EXCEPT ![x] = @ \ {v}]
    BY <1>4 DEF Leave
  <2>2. Covers({<<x, v>>})  BY <1>b, <2>1 DEF Covers, Steady, Live
  <2> QED  BY <2>1, <2>2
<1>5. ASSUME NEW l, NEW d, Terminal(l, d)  PROVE \E C : Covers(C) /\ Others(C)
  <2> DEFINE R == LoadRooms(l)
  <2>1. Others(R \X {NULL}) /\ member' = member /\ \A r \in Rooms : r \notin R => room'[r] = room[r]
    BY <1>5 DEF Terminal
  <2> HIDE DEF R
  <2>2. Covers(R \X {NULL})  BY <2>1 DEF Covers, Steady, Live
  <2> QED  BY <2>1, <2>2
<1>6. ASSUME Age  PROVE Covers({}) /\ req' = req
  <2>1. /\ req' = req /\ member' = member
        /\ room' = [r \in Rooms |-> IF Live(r) /\ room[r].delivered = "now"
                     THEN [room[r] EXCEPT !.delivered = "past"] ELSE room[r]]
    BY <1>6 DEF Age
  <2>2. ASSUME NEW r \in Rooms  PROVE Steady(r)
    <3>1. CASE Live(r) /\ room[r].delivered = "now"
      <4>1. room'[r] = [room[r] EXCEPT !.delivered = "past"] /\ room[r] \in RoomRecord
        BY <1>d, <2>1, <3>1
      <4>2. room'[r] \in RoomRecord /\ room'[r].delivered = "past" /\ room'[r].messages = room[r].messages
        BY <4>1 DEF RoomRecord, Delivered
      <4> QED  BY <4>2, RecordsAssumption DEF Steady, Live
    <3>2. CASE ~(Live(r) /\ room[r].delivered = "now")
      BY <2>1, <3>2 DEF Steady, Live
    <3> QED  BY <3>1, <3>2
  <2> QED  BY <2>1, <2>2 DEF Covers
<1>7. Covers({}) /\ req' = req => \A q \in Reqs : req'[q] = Touched(req[q], {})
  BY <1>b, TouchedNothing
<1> QED  BY <1>c, <1>1, <1>2, <1>3, <1>4, <1>5, <1>6, <1>7 DEF Once

\* The requests that do not make the step hear of what it changes.
LEMMA StepCovers ==
  ASSUME TypeInv, TypeInv', RoomsInv, Next
  PROVE  \E C : /\ Covers(C)
                /\ \/ Once /\ \A q \in Reqs : req'[q] = Touched(req[q], C)
                   \/ \E p \in Reqs : /\ Begin(p) \/ Proceed(p)
                                      /\ \A q \in Reqs : q # p => req'[q] = Touched(req[q], C)
<1>1. req \in [Reqs -> ReqRecord]  BY StateTypes
<1>2. ASSUME NEW p \in Reqs, Begin(p) \/ Proceed(p)
      PROVE  \E C : Covers(C) /\ \A q \in Reqs : q # p => req'[q] = Touched(req[q], C)
  <2>1. CASE UNCHANGED chats
    <3>1. PICK s, C : Becomes(p, s, C)  BY <1>2, SlotStages
    <3>2. Covers(C)  BY <2>1, NothingCovers
    <3> QED  BY <1>1, <3>1, <3>2, BecomesSlot
  <2>2. CASE ~UNCHANGED chats
    <3>1. ~Begin(p)
      BY <2>2 DEF Begin, CreateBegin, AddBegin, TransferBegin, StatusBegin, SweepRead
    <3>2. \/ UNCHANGED chats
          \/ ConvertWrite(p) \/ CreateWrite(p) \/ ForkWrite(p) \/ TransferWrite(p) \/ Reactivate(p)
          \/ \E r \in Rooms : Tell(p, r) \/ SyncRoom(p, r) \/ SweepRoom(p, r)
          \/ \E u \in Users : AddRow(p, u)
      BY <1>2, <3>1 DEF Proceed, CreateOffer, CreateDoomed, LockFind, SyncRead, CreateNext, AttachFind, ForkRead,
        TransferRoles, TransferPresent, ReactivateRead, StartTracking, CleanOffers, Fail
    <3>3. PICK s, C : Becomes(p, s, C) /\ Covers(C)  BY <2>2, <3>2, WriteCovers
    <3> QED  BY <1>1, <3>3, BecomesSlot
  <2> QED  BY <2>1, <2>2
<1> QED  BY <1>2, OnceCovers DEF Next

\* What the clean-up, the synchronisation and the transfer have read of the chats is true of them,
\* but for what others have changed since.
ReadsInv == \A p \in Reqs : Sweeps(p) /\ Syncs(p) /\ Transfers(p)

\* What a request has read stays true while others change chats, as it hears of their changes.
LEMMA TouchedKeeps ==
  ASSUME TypeInv, TypeInv', NEW q \in Reqs, NEW C, Finds(req[q]), Covers(C),
         req'[q] = Touched(req[q], C), Sweeps(q), Syncs(q), Transfers(q)
  PROVE  Sweeps(q)' /\ Syncs(q)' /\ Transfers(q)'
<1>1. req[q] \in ReqRecord /\ req[q].rooms \subseteq Rooms /\ req[q].staff \subseteq Staff
      /\ req[q].rows \in [Rooms -> SUBSET Users]
  BY RequestTypes
<1>2. /\ Same(req'[q], req[q])
      /\ req[q].at \in {"present", "replace", "sync", "sweep"} => req'[q].moved = req[q].moved \cup C
      /\ req[q].at \in {"present", "replace"} =>
           \A r \in Rooms : req'[q].seen[r] = {u \in req[q].seen[r] : <<r, u>> \notin C}
      /\ req[q].at \notin {"present", "replace"} => req'[q].seen = req[q].seen
  BY <1>1, TouchedRecord
<1>3. /\ req'[q].at = req[q].at /\ req'[q].rooms = req[q].rooms /\ req'[q].drop = req[q].drop
      /\ req'[q].staff = req[q].staff /\ req'[q].rows = req[q].rows
  BY <1>2 DEF Same
<1>4. ASSUME NEW r \in req[q].rooms
      PROVE  /\ <<r, NULL>> \in C \/ Steady(r)
             /\ \A u \in Users : <<r, u>> \in C \/ (u \in member'[r] <=> u \in member[r])
  <2>1. r \in Rooms /\ r <= created  BY <1>1 DEF Finds
  <2> QED  BY <2>1 DEF Covers
<1>5. Tracking \subseteq Users /\ Staff \subseteq Users  BY UsersAssumption DEF Users
<1>6. Sweeps(q)'
  <2> SUFFICES ASSUME req'[q].at = "sweep", NEW r \in req'[q].rooms, <<r, NULL>> \notin req'[q].moved
               PROVE  Live(r)' /\ room'[r].delivered = "past" /\ (r \in req'[q].drop => ~room'[r].messages)
    BY DEF Sweeps
  <2>1. Steady(r) /\ <<r, NULL>> \notin req[q].moved  BY <1>2, <1>3, <1>4
  <2>2. Live(r) /\ room[r].delivered = "past" /\ (r \in req[q].drop => ~room[r].messages)
    BY <1>3, <2>1 DEF Sweeps
  <2> QED  BY <1>3, <2>1, <2>2 DEF Steady
<1>7. Syncs(q)'
  <2> SUFFICES ASSUME req'[q].at = "sync", NEW r \in req'[q].rooms, NEW u \in Staff, <<r, u>> \notin req'[q].moved
               PROVE  u \in member'[r] <=> u \in req'[q].seen[r]
    BY DEF Syncs
  <2>1. <<r, u>> \notin C /\ <<r, u>> \notin req[q].moved  BY <1>2, <1>3
  <2>2. u \in member[r] <=> u \in req[q].seen[r]  BY <1>3, <2>1 DEF Syncs
  <2> QED  BY <1>2, <1>3, <1>4, <1>5, <2>1, <2>2
<1>8. ASSUME req'[q].at \in {"present", "replace"}, NEW r \in req'[q].rooms, NEW u \in Tracking \ req'[q].staff,
             <<r, u>> \notin req'[q].moved
      PROVE  u \in member'[r] <=> u \in req'[q].seen[r]
  <2>1. <<r, u>> \notin C /\ <<r, u>> \notin req[q].moved  BY <1>2, <1>3, <1>8
  <2>2. u \in member[r] <=> u \in req[q].seen[r]  BY <1>3, <1>8, <2>1 DEF Transfers
  <2>3. u \in req'[q].seen[r] <=> u \in req[q].seen[r]  BY <1>1, <1>2, <1>3, <1>8, <2>1
  <2> QED  BY <1>3, <1>4, <1>5, <1>8, <2>1, <2>2, <2>3
<1>9. ASSUME req'[q].at = "replace", NEW r \in req'[q].rooms, NEW u \in req'[q].staff,
             <<r, u>> \notin req'[q].moved
      PROVE  u \in member'[r] <=> u \notin req'[q].rows[r]
  <2>1. <<r, u>> \notin C /\ <<r, u>> \notin req[q].moved  BY <1>2, <1>3, <1>9
  <2>2. u \in member[r] <=> u \notin req[q].rows[r]  BY <1>3, <1>9, <2>1 DEF Transfers
  <2> QED  BY <1>1, <1>3, <1>4, <1>5, <1>9, <2>1, <2>2
<1> QED  BY <1>6, <1>7, <1>8, <1>9 DEF Transfers

\* What a request reads, or has left to do after its own change, is true.
LEMMA OwnReads ==
  ASSUME TypeInv, TypeInv', NEW p \in Reqs, Begin(p) \/ Proceed(p), Sweeps(p), Syncs(p), Transfers(p)
  PROVE  Sweeps(p)' /\ Syncs(p)' /\ Transfers(p)'
<1>a. req[p] \in ReqRecord /\ req[p].rooms \subseteq Rooms /\ req[p].staff \subseteq Staff
  BY RequestTypes
<1>b. \A s, C : Becomes(p, s, C) => req'[p] = s  BY StateTypes, BecomesSlot
<1>c. Idle.at = "idle" /\ Idle \in ReqRecord  BY IdleRecord
<1>d. /\ room \in [Rooms -> RoomRecord \cup {NULL}] /\ member \in [Rooms -> SUBSET Users]
  BY StateTypes
<1>1. ASSUME SweepRead(p)  PROVE Sweeps(p)'
  <2> DEFINE D == {r \in Due : ~room[r].messages}
  <2>1. req'[p] = [Idle EXCEPT !.at = "sweep", !.rooms = Due, !.drop = D]
    BY <1>1, <1>b DEF SweepRead, Enter
  <2>2. req'[p].rooms = Due /\ req'[p].drop = D  BY <1>c, <2>1 DEF ReqRecord
  <2>3. room' = room  BY <1>1 DEF SweepRead, chats
  <2> QED  BY <2>2, <2>3 DEF Sweeps, Due, Live
<1>2. ASSUME NEW x \in Rooms, SweepRoom(p, x)  PROVE Sweeps(p)'
  <2> DEFINE t == [req[p] EXCEPT !.rooms = @ \ {x}]
  <2>1. req[p].at = "sweep" /\ req'[p] \in {Idle, t}  BY <1>2, <1>b DEF SweepRoom
  <2>2. t.rooms = req[p].rooms \ {x} /\ t.drop = req[p].drop /\ t.moved = req[p].moved
    BY <1>a DEF ReqRecord
  <2>3. \A r \in Rooms : r # x => room'[r] = room[r]
    BY <1>2, <1>d DEF SweepRoom, DeleteRooms
  <2> HIDE DEF t
  <2> QED  BY <1>a, <1>c, <2>1, <2>2, <2>3 DEF Sweeps, Live
<1>3. ASSUME SyncRead(p)  PROVE Syncs(p)'
  <2> DEFINE R == LoadRooms(req[p].load)
             f == [r \in Rooms |-> IF r \in R THEN StaffOf(r) ELSE {}]
             t == [req[p] EXCEPT !.at = "sync", !.rooms = R, !.seen = f]
  <2>1. req'[p] \in {Idle, t}  BY <1>3, <1>b DEF SyncRead
  <2>2. t.rooms = R /\ t.seen = f  BY <1>a DEF ReqRecord
  <2>3. \A r \in R : r \in Rooms /\ f[r] = StaffOf(r)  BY DEF LoadRooms
  <2>4. member' = member  BY <1>3 DEF SyncRead, chats
  <2> HIDE DEF t, f, R
  <2>5. CASE req'[p] = t
    BY <2>2, <2>3, <2>4, <2>5 DEF Syncs, StaffOf
  <2> QED  BY <1>c, <2>1, <2>5 DEF Syncs
<1>4. ASSUME NEW x \in Rooms, SyncRoom(p, x)  PROVE Syncs(p)'
  <2> DEFINE t == [req[p] EXCEPT !.rooms = @ \ {x}]
  <2>1. req[p].at = "sync" /\ req'[p] \in {Idle, t}  BY <1>4, <1>b DEF SyncRoom
  <2>2. t.rooms = req[p].rooms \ {x} /\ t.seen = req[p].seen /\ t.moved = req[p].moved
    BY <1>a DEF ReqRecord
  <2>3. \A r \in Rooms : r # x => member'[r] = member[r]
    BY <1>4, <1>d DEF SyncRoom
  <2> HIDE DEF t
  <2> QED  BY <1>a, <1>c, <2>1, <2>2, <2>3 DEF Syncs
<1>5. ASSUME TransferRoles(p)  PROVE Transfers(p)'
  <2> DEFINE f == [r \in Rooms |-> IF r \in req[p].rooms THEN (member[r] \cap Tracking) \ req[p].staff ELSE {}]
             t == [req[p] EXCEPT !.at = "present", !.seen = f]
  <2>1. req'[p] = t  BY <1>5, <1>b DEF TransferRoles
  <2>2. t.at = "present" /\ t.seen = f /\ t.rooms = req[p].rooms /\ t.staff = req[p].staff  BY <1>a DEF ReqRecord
  <2>3. \A r \in req[p].rooms : f[r] = (member[r] \cap Tracking) \ req[p].staff  BY <1>a
  <2>4. member' = member  BY <1>5 DEF TransferRoles, chats
  <2> HIDE DEF t, f
  <2> QED  BY <2>1, <2>2, <2>3, <2>4 DEF Transfers
<1>6. ASSUME TransferPresent(p)  PROVE Transfers(p)'
  <2> DEFINE f == [r \in Rooms |-> IF r \in req[p].rooms THEN req[p].staff \ member[r] ELSE {}]
             t == [req[p] EXCEPT !.at = "replace", !.rows = f]
  <2>1. req'[p] = t /\ req[p].at = "present"  BY <1>6, <1>b DEF TransferPresent
  <2>2. /\ t.at = "replace" /\ t.rows = f /\ t.rooms = req[p].rooms /\ t.staff = req[p].staff
        /\ t.seen = req[p].seen /\ t.moved = req[p].moved
    BY <1>a DEF ReqRecord
  <2>3. \A r \in req[p].rooms : f[r] = req[p].staff \ member[r]  BY <1>a
  <2>4. member' = member  BY <1>6 DEF TransferPresent, chats
  <2> HIDE DEF t, f
  <2> QED  BY <2>1, <2>2, <2>3, <2>4 DEF Transfers
<1>7. /\ req'[p].at = "sync" => SyncRead(p) \/ \E r \in Rooms : SyncRoom(p, r)
      /\ req'[p].at = "sweep" => SweepRead(p) \/ \E r \in Rooms : SweepRoom(p, r)
      /\ req'[p].at = "present" => TransferRoles(p)
      /\ req'[p].at = "replace" => TransferPresent(p)
  BY SlotStages
<1>8. Sweeps(p)'
  <2>1. CASE req'[p].at = "sweep"  BY <1>1, <1>2, <1>7, <2>1
  <2>2. CASE req'[p].at # "sweep"  BY <2>2 DEF Sweeps
  <2> QED  BY <2>1, <2>2
<1>9. Syncs(p)'
  <2>1. CASE req'[p].at = "sync"  BY <1>3, <1>4, <1>7, <2>1
  <2>2. CASE req'[p].at # "sync"  BY <2>2 DEF Syncs
  <2> QED  BY <2>1, <2>2
<1>10. Transfers(p)'
  <2>1. CASE req'[p].at \in {"present", "replace"}  BY <1>5, <1>6, <1>7, <2>1
  <2>2. CASE req'[p].at \notin {"present", "replace"}  BY <2>2 DEF Transfers
  <2> QED  BY <2>1, <2>2
<1> QED  BY <1>8, <1>9, <1>10

\* No step makes untrue what a request has read without its being told.
LEMMA ReadsStep == TypeInv /\ TypeInv' /\ RoomsInv /\ ReadsInv /\ [Next]_vars => ReadsInv'
<1> SUFFICES ASSUME TypeInv, TypeInv', RoomsInv, ReadsInv, [Next]_vars  PROVE ReadsInv'
  OBVIOUS
<1>a. \A q \in Reqs : Finds(req[q]) /\ Sweeps(q) /\ Syncs(q) /\ Transfers(q)
  BY DEF RoomsInv, Aware, ReadsInv
<1>1. CASE UNCHANGED vars
  BY <1>a, <1>1 DEF vars, ReadsInv, Sweeps, Syncs, Transfers, Live
<1>2. CASE Next
  <2>1. PICK C : /\ Covers(C)
                 /\ \/ \A q \in Reqs : req'[q] = Touched(req[q], C)
                    \/ \E p \in Reqs : /\ Begin(p) \/ Proceed(p)
                                       /\ \A q \in Reqs : q # p => req'[q] = Touched(req[q], C)
    BY <1>2, StepCovers
  <2>2. ASSUME NEW q \in Reqs  PROVE Sweeps(q)' /\ Syncs(q)' /\ Transfers(q)'
    <3>1. CASE req'[q] = Touched(req[q], C)  BY <1>a, <2>1, <3>1, TouchedKeeps
    <3>2. CASE Begin(q) \/ Proceed(q)  BY <1>a, <3>2, OwnReads
    <3> QED  BY <2>1, <3>1, <3>2
  <2> QED  BY <2>2 DEF ReadsInv
<1> QED  BY <1>1, <1>2

\* Nobody has read anything when the program starts.
LEMMA ReadsInitially == Init => ReadsInv
BY IdleRecord DEF Init, ReadsInv, Sweeps, Syncs, Transfers

-----------------------------------------------------------------------------
(* Delivery, archive and tracking.                                         *)

\* The chats of a load that no race has touched are active.
Calm(l) == \A r \in LoadRooms(l) \ raced : room[r].delivered = "no"

\* Delivery, archive and tracking stay together.
DeliveryInv ==
  ArchivedIsDelivered /\ TrackedLoadActive /\ Tracked /\ \A p \in Reqs : Tracks(p)

\* The load is reported as delivered, with no request that reactivates it in flight.
Ends(l) == InRoute(l) = {} /\ l \in mix.loads /\ \E d \in mix.drivers : Terminal(l, d)

\* What a step makes of the delivery of a chat and of its archive.
Marks(r) ==
  \/ ~Live(r)'
  \/ r \in raced'
  \/ room'[r].delivered = "no" /\ ~room'[r].isLoadArchived
  \/ /\ room'[r].delivered # "no" /\ ~room'[r].isLoadArchived
     /\ \E x \in LoadRooms(room'[r].load) \ raced : room[x].delivered # "no"
  \/ /\ r \notin raced /\ Live(r)
     /\ room'[r].type = room[r].type /\ room'[r].load = room[r].load
     /\ room'[r].delivered = "no" <=> room[r].delivered = "no"
     /\ room'[r].isLoadArchived => room[r].isLoadArchived \/ room[r].delivered # "no"
  \/ room'[r].delivered # "no" /\ Ends(room'[r].load)

\* A chat that is left alone.
LEMMA MarksSame ==
  ASSUME NEW r \in Rooms, room'[r] = room[r], r \in raced => r \in raced'
  PROVE  Marks(r)
<1>1. Live(r)' <=> Live(r)  BY DEF Live
<1> QED  BY <1>1 DEF Marks

\* A chat of which only the field f is overwritten, which is not about its delivery.
LEMMA MarksField ==
  ASSUME NEW r \in Rooms, room[r] \in RoomRecord \cup {NULL}, Live(r), NEW b \in BOOLEAN,
         room'[r] \in {[room[r] EXCEPT !.messages = b], [room[r] EXCEPT !.isArchived = b]},
         r \in raced => r \in raced'
  PROVE  Marks(r)
<1>1. room[r] \in RoomRecord  BY DEF Live
<1>2. /\ room'[r].type = room[r].type /\ room'[r].load = room[r].load
      /\ room'[r].delivered = room[r].delivered /\ room'[r].isLoadArchived = room[r].isLoadArchived
  BY <1>1 DEF RoomRecord
<1> QED  BY <1>2 DEF Marks

\* What each step makes of a chat's delivery and archive.
LEMMA MarksStep ==
  ASSUME TypeInv, TypeInv', RoomsInv, ReadsInv, [Next]_vars, NEW r \in Rooms
  PROVE  Marks(r)
<1>a. /\ room \in [Rooms -> RoomRecord \cup {NULL}] /\ created \in Nat /\ r \in Nat
      /\ room[r] \in RoomRecord \cup {NULL} /\ (Live(r) => room[r] \in RoomRecord)
  BY StateTypes, RoomsAssumption DEF Rooms, Live
<1>b. RoomKept(r) /\ \A p \in Reqs : Aware(req[p]) /\ Known(req[p])
  BY RequestTypes DEF RoomsInv
<1>1. ASSUME UNCHANGED <<room, raced>>  PROVE Marks(r)
  BY <1>1, MarksSame
<1>2. ASSUME NEW x \in Rooms, NEW b \in BOOLEAN, Delete(x) \/ Say(x) \/ Archive(x, b)  PROVE Marks(r)
  <2>1. raced' = raced  BY <1>2 DEF Delete, Say, Archive, rest
  <2>2. CASE room'[r] = room[r]  BY <2>1, <2>2, MarksSame
  <2>3. CASE Delete(x)
    BY <2>1, <2>3, MarksSame DEF Delete, DeleteRooms, Marks, Live
  <2>4. CASE Say(x) /\ x = r
    BY <1>a, <2>1, <2>4, MarksField DEF Say
  <2>5. CASE Archive(x, b) /\ x = r
    BY <1>a, <2>1, <2>5, MarksField DEF Archive
  <2>6. (Say(x) \/ Archive(x, b)) /\ x # r => room'[r] = room[r]
    BY <1>a DEF Say, Archive
  <2> QED  BY <1>2, <2>2, <2>3, <2>4, <2>5, <2>6
<1>3. ASSUME NEW l \in mix.loads, NEW d \in mix.drivers, Terminal(l, d)  PROVE Marks(r)
  <2>1. /\ room'[r] = IF r \in LoadRooms(l) THEN [room[r] EXCEPT !.delivered = "now"] ELSE room[r]
        /\ raced' = IF InRoute(l) = {} THEN raced ELSE raced \cup LoadRooms(l)
    BY <1>3 DEF Terminal
  <2>2. CASE r \notin LoadRooms(l)  BY <2>1, <2>2, MarksSame
  <2>3. CASE r \in LoadRooms(l) /\ InRoute(l) # {}  BY <2>1, <2>3 DEF Marks
  <2>4. CASE r \in LoadRooms(l) /\ InRoute(l) = {}
    <3>1. room[r] \in RoomRecord /\ room[r].load = l  BY <1>a, <2>4 DEF LoadRooms
    <3>2. room'[r].delivered = "now" /\ room'[r].load = l  BY <2>1, <2>4, <3>1 DEF RoomRecord
    <3> QED  BY <1>3, <2>4, <3>2 DEF Marks, Ends
  <2> QED  BY <2>2, <2>3, <2>4
<1>4. ASSUME Age  PROVE Marks(r)
  <2>1. /\ room'[r] = IF Live(r) /\ room[r].delivered = "now"
                        THEN [room[r] EXCEPT !.delivered = "past"] ELSE room[r]
        /\ raced' = raced
    BY <1>4 DEF Age, rest
  <2>2. CASE Live(r) /\ room[r].delivered = "now"
    <3>1. room[r] \in RoomRecord  BY <1>a, <2>2
    <3>2. /\ room'[r].delivered = "past" /\ room'[r].type = room[r].type /\ room'[r].load = room[r].load
          /\ room'[r].isLoadArchived = room[r].isLoadArchived
      BY <2>1, <2>2, <3>1 DEF RoomRecord
    <3> QED  BY <2>1, <2>2, <3>2 DEF Marks
  <2>3. CASE ~(Live(r) /\ room[r].delivered = "now")  BY <2>1, <2>3, MarksSame
  <2> QED  BY <2>2, <2>3
<1>5. ASSUME NEW p \in Reqs, ConvertWrite(p)  PROVE Marks(r)
  <2>1. /\ room'[r] = IF r = req[p].room THEN [room[r] EXCEPT !.type = "LOAD", !.load = req[p].load]
                      ELSE IF r \in req[p].drop THEN NULL ELSE room[r]
        /\ raced' = raced /\ Live(req[p].room) /\ req[p].at = "write" /\ req[p].task = "convert"
    BY <1>5 DEF ConvertWrite, rest
  <2>2. CASE r = req[p].room
    <3>1. room[r] \in RoomRecord  BY <1>a, <2>1, <2>2
    <3>2. /\ room'[r].type = "LOAD" /\ room'[r].load = req[p].load
          /\ room'[r].delivered = room[r].delivered /\ room'[r].isLoadArchived = room[r].isLoadArchived
      BY <2>1, <2>2, <3>1, <1>b DEF RoomRecord, Known
    <3>3. room[r].load = req[p].load
      BY <1>b, <2>1, <2>2 DEF Aware, Chose, Finds, Creating
    <3>4. room[r].type \in {"OFFER", "LOAD"}  BY <3>1 DEF RoomRecord
    <3>5. room[r].type = "OFFER" => room[r].delivered = "no" /\ ~room[r].isLoadArchived
      BY <1>b, <2>1, <2>2 DEF RoomKept
    <3> QED  BY <2>1, <2>2, <3>2, <3>3, <3>4, <3>5 DEF Marks
  <2>3. CASE r # req[p].room /\ r \in req[p].drop  BY <2>1, <2>3 DEF Marks, Live
  <2>4. CASE r # req[p].room /\ r \notin req[p].drop  BY <2>1, <2>4, MarksSame
  <2> QED  BY <2>2, <2>3, <2>4
<1>6. ASSUME NEW p \in Reqs, CreateWrite(p)  PROVE Marks(r)
  <2>1. raced' = raced /\ (room'[r] = NULL \/ room'[r] = room[r] \/ room'[r] = NewLoadRoom(req[p].load, "no"))
    BY <1>6 DEF CreateWrite, rest
  <2>2. CASE room'[r] = NULL  BY <2>2 DEF Marks, Live
  <2>3. CASE room'[r] = room[r]  BY <2>1, <2>3, MarksSame
  <2>4. CASE room'[r] = NewLoadRoom(req[p].load, "no")  BY <2>4 DEF Marks, NewLoadRoom
  <2> QED  BY <2>1, <2>2, <2>3, <2>4
<1>7. ASSUME NEW p \in Reqs, ForkWrite(p)  PROVE Marks(r)
  <2>0. PICK n : n = created + 1  OBVIOUS
  <2>1. /\ room' = [room EXCEPT ![n] = NewLoadRoom(req[p].load, req[p].delivered)]
        /\ raced' = IF \/ req[p].delivered = "no"
                       \/ \E x \in LoadRooms(req[p].load) \ raced : room[x].delivered = req[p].delivered
                      THEN raced ELSE raced \cup {n}
    BY <1>7, <2>0 DEF ForkWrite
  <2>2. CASE r # n
    BY <1>a, <2>1, <2>2, MarksSame
  <2>3. CASE r = n
    <3>1. room'[r] = NewLoadRoom(req[p].load, req[p].delivered)  BY <1>a, <2>1, <2>3
    <3>2. /\ room'[r].delivered = req[p].delivered /\ ~room'[r].isLoadArchived
          /\ room'[r].load = req[p].load
      BY <3>1 DEF NewLoadRoom
    <3> QED  BY <2>1, <2>3, <3>2 DEF Marks
  <2> QED  BY <2>2, <2>3
<1>8. ASSUME NEW p \in Reqs, NEW x \in Rooms, Tell(p, x)  PROVE Marks(r)
  <2>1. room' = [room EXCEPT ![x].messages = TRUE] /\ raced' = raced /\ Live(x)
    BY <1>8 DEF Tell, rest
  <2>2. CASE x = r  BY <1>a, <2>1, <2>2, MarksField
  <2>3. CASE x # r  BY <1>a, <2>1, <2>3, MarksSame
  <2> QED  BY <2>2, <2>3
<1>9. ASSUME NEW p \in Reqs, Reactivate(p)  PROVE Marks(r)
  <2> DEFINE R == LoadRooms(req[p].load)
  <2>1. /\ room'[r] = IF r \in R THEN [room[r] EXCEPT !.delivered = "no", !.isLoadArchived = FALSE] ELSE room[r]
        /\ raced' = raced \ R
    BY <1>9 DEF Reactivate
  <2>2. CASE r \notin R  BY <2>1, <2>2, MarksSame
  <2>3. CASE r \in R
    <3>1. room[r] \in RoomRecord  BY <1>a, <2>3 DEF LoadRooms
    <3>2. room'[r].delivered = "no" /\ ~room'[r].isLoadArchived
      BY <2>1, <2>3, <3>1 DEF RoomRecord
    <3> QED  BY <3>2 DEF Marks
  <2> QED  BY <2>2, <2>3
<1>10. ASSUME NEW p \in Reqs, NEW x \in Rooms, SweepRoom(p, x)  PROVE Marks(r)
  <2>1. /\ raced' = IF <<x, NULL>> \in req[p].moved THEN raced \cup {x} ELSE raced
        /\ req[p].at = "sweep" /\ x \in req[p].rooms
        /\ \/ DeleteRooms({x})
           \/ room' = IF Live(x) THEN [room EXCEPT ![x].isLoadArchived = TRUE] ELSE room
    BY <1>10 DEF SweepRoom
  <2>2. CASE x = r /\ <<x, NULL>> \in req[p].moved  BY <2>1, <2>2 DEF Marks
  <2>3. CASE x = r /\ <<x, NULL>> \notin req[p].moved /\ ~DeleteRooms({x})
    <3>1. Live(r) /\ room[r].delivered = "past" /\ room[r] \in RoomRecord
      BY <1>a, <2>1, <2>3 DEF ReadsInv, Sweeps
    <3>2. room'[r] = [room[r] EXCEPT !.isLoadArchived = TRUE]  BY <1>a, <2>1, <2>3, <3>1
    <3>3. /\ room'[r].type = room[r].type /\ room'[r].load = room[r].load
          /\ room'[r].delivered = room[r].delivered
      BY <3>1, <3>2 DEF RoomRecord
    <3> QED  BY <2>1, <2>3, <3>1, <3>3 DEF Marks
  <2>4. CASE x = r /\ DeleteRooms({x})  BY <2>4 DEF Marks, Live, DeleteRooms
  <2>5. CASE x # r
    <3>1. room'[r] = room[r]  BY <1>a, <2>1, <2>5 DEF DeleteRooms
    <3> QED  BY <2>1, <3>1, MarksSame
  <2> QED  BY <2>2, <2>3, <2>4, <2>5
<1>11. CASE Once
  <2>1. ASSUME NEW x, NEW u, Leave(x, u)  PROVE UNCHANGED <<room, raced>>  BY <2>1 DEF Leave, rest
  <2>2. \E b : b \in BOOLEAN  OBVIOUS
  <2> QED  BY <1>1, <1>2, <1>3, <1>4, <1>11, <2>1, <2>2 DEF Once
<1>12. ASSUME NEW p \in Reqs, Begin(p)  PROVE UNCHANGED <<room, raced>>
  BY <1>12 DEF Begin, CreateBegin, AddBegin, TransferBegin, StatusBegin, SweepRead, rest, chats
<1>13. ASSUME NEW p \in Reqs, Proceed(p)  PROVE Marks(r)
  <2>1. \/ UNCHANGED <<room, raced>>
        \/ ConvertWrite(p) \/ CreateWrite(p) \/ ForkWrite(p) \/ Reactivate(p)
        \/ \E x \in Rooms : Tell(p, x) \/ SweepRoom(p, x)
    BY <1>13 DEF Proceed, CreateOffer, CreateDoomed, LockFind, SyncRead, CreateNext, AttachFind, ForkRead,
      TransferRoles, TransferPresent, TransferWrite, ReactivateRead, StartTracking, CleanOffers, Fail,
      AddRow, SyncRoom, rest, chats
  <2> QED  BY <1>1, <1>5, <1>6, <1>7, <1>8, <1>9, <1>10, <2>1
<1>14. CASE UNCHANGED vars  BY <1>1, <1>14 DEF vars
<1> QED  BY <1>1, <1>11, <1>12, <1>13, <1>14 DEF Next

\* A load whose chats are active stays so until it is reported as delivered.
LEMMA CalmKept ==
  ASSUME TypeInv, TypeInv', RoomsInv, ReadsInv, [Next]_vars, NEW l \in Loads, ~Ends(l), Calm(l)
  PROVE  Calm(l)'
<1> SUFFICES ASSUME NEW r \in LoadRooms(l)', r \notin raced'  PROVE room'[r].delivered = "no"
  BY DEF Calm
<1>1. r \in Rooms /\ Live(r)' /\ room'[r].type = "LOAD" /\ room'[r].load = l  BY DEF LoadRooms
<1>2. Marks(r)  BY <1>1, MarksStep
<1>3. \A x \in LoadRooms(l) \ raced : room[x].delivered = "no"  BY DEF Calm
<1>4. Live(r) /\ room[r].type = "LOAD" /\ room[r].load = l => r \in LoadRooms(l)  BY <1>1 DEF LoadRooms
<1> QED  BY <1>1, <1>2, <1>3, <1>4 DEF Marks

\* No step archives a chat of an active load, or leaves one delivered whose driver is tracked, but by
\* a race that raced records.
LEMMA DeliveryStep ==
  TypeInv /\ TypeInv' /\ RoomsInv /\ ReadsInv /\ DeliveryInv /\ [Next]_vars => DeliveryInv'
<1> SUFFICES ASSUME TypeInv, TypeInv', RoomsInv, ReadsInv, DeliveryInv, [Next]_vars  PROVE DeliveryInv'
  OBVIOUS
<1>a. mix' = mix /\ mix.drivers \subseteq Drivers /\ tracking \in [Drivers -> Loads \cup {NULL}]
  BY MixKept, MixTypes, StateTypes
<1>b. ArchivedIsDelivered /\ TrackedLoadActive /\ Tracked /\ \A p \in Reqs : Tracks(p)
  BY DEF DeliveryInv
<1>1. ArchivedIsDelivered'
  <2> SUFFICES ASSUME NEW r \in Rooms, r \notin raced', Live(r)', room'[r].isLoadArchived
               PROVE  room'[r].delivered # "no"
    BY DEF ArchivedIsDelivered
  <2>1. Marks(r)  BY MarksStep
  <2>2. r \notin raced /\ Live(r) /\ room[r].isLoadArchived => room[r].delivered # "no"
    BY <1>b DEF ArchivedIsDelivered
  <2> QED  BY <2>1, <2>2 DEF Marks
<1>2. ASSUME NEW p \in Reqs, req'[p].at = "track"  PROVE Tracks(p)'
  <2>1. CASE ReactivateRead(p)
    <3>1. req'[p] = [req[p] EXCEPT !.at = "track"]
      <4>1. Becomes(p, [req[p] EXCEPT !.at = "track"], {}) \/ \E C : Becomes(p, Idle, C)
            \/ Becomes(p, [req[p] EXCEPT !.at = "reactivate"], {})
        BY <2>1 DEF ReactivateRead, Reactivated
      <4>2. \A s, C : Becomes(p, s, C) => req'[p] = s  BY StateTypes, BecomesSlot
      <4>3. Idle.at = "idle" /\ [req[p] EXCEPT !.at = "reactivate"].at = "reactivate"
        BY IdleRecord, RequestTypes DEF ReqRecord
      <4> QED  BY <1>2, <4>1, <4>2, <4>3
    <3>2. req[p].at = "reactivateRead" /\ req'[p].load = req[p].load
      BY <2>1, <3>1, RequestTypes DEF ReactivateRead, ReqRecord
    <3>3. ~\E r \in LoadRooms(req[p].load) : room[r].delivered # "no" \/ room[r].isLoadArchived
      <4>1. \A s, C : Becomes(p, s, C) => req'[p] = s  BY StateTypes, BecomesSlot
      <4>2. [req[p] EXCEPT !.at = "reactivate"].at = "reactivate"  BY RequestTypes DEF ReqRecord
      <4> QED  BY <1>2, <2>1, <4>1, <4>2 DEF ReactivateRead
    <3>4. UNCHANGED <<room, raced>>  BY <2>1 DEF ReactivateRead, chats, rest
    <3> QED  BY <3>2, <3>3, <3>4 DEF Tracks, LoadRooms, Live
  <2>2. CASE Reactivate(p)
    <3>1. req'[p].load = req[p].load
      <4>1. \E C : Becomes(p, [req[p] EXCEPT !.at = "track"], C) \/ Becomes(p, Idle, C)
        BY <2>2 DEF Reactivate, Reactivated
      <4>2. \A s, C : Becomes(p, s, C) => req'[p] = s  BY StateTypes, BecomesSlot
      <4>3. [req[p] EXCEPT !.at = "track"].load = req[p].load  BY RequestTypes DEF ReqRecord
      <4> QED  BY <1>2, <4>1, <4>2, <4>3, IdleRecord
    <3>2. ASSUME NEW r \in LoadRooms(req[p].load)'  PROVE room'[r].delivered = "no"
      <4> DEFINE R == LoadRooms(req[p].load)
      <4>1. r \in Rooms /\ Live(r)' /\ room'[r].type = "LOAD" /\ room'[r].load = req'[p].load
        BY <3>2 DEF LoadRooms
      <4>2. room'[r] = IF r \in R THEN [room[r] EXCEPT !.delivered = "no", !.isLoadArchived = FALSE] ELSE room[r]
        BY <2>2, <4>1 DEF Reactivate
      <4>3. r \in R  BY <3>1, <4>1, <4>2 DEF LoadRooms, Live
      <4>4. room[r] \in RoomRecord  BY <4>3, StateTypes DEF LoadRooms, Live
      <4> QED  BY <4>2, <4>3, <4>4 DEF RoomRecord
    <3> QED  BY <3>2 DEF Tracks
  <2>3. CASE Same(req'[p], req[p])
    <3>1. req[p].at = "track" /\ req'[p].load = req[p].load  BY <1>2, <2>3 DEF Same
    <3>2. req[p].load \in Loads /\ p \in InRoute(req[p].load)
      BY <3>1, RequestTypes DEF Known, InRoute
    <3>3. Calm(req[p].load)  BY <1>b, <3>1 DEF Tracks, Calm
    <3>4. PICK l \in Loads : l = req[p].load  BY <3>2
    <3>5. Calm(l)'  BY <3>2, <3>3, <3>4, CalmKept DEF Ends
    <3>6. req'[p].load = l  BY <3>1, <3>4
    <3> QED  BY <3>5, <3>6 DEF Calm, Tracks
  <2>4. CASE UNCHANGED vars  BY <2>3, <2>4 DEF vars, Same
  <2>5. CASE Next
    <3>1. CASE Begin(p) \/ Proceed(p)  BY <1>2, <2>1, <2>2, <3>1, SlotStages
    <3>2. CASE ~(Begin(p) \/ Proceed(p))  BY <2>3, <2>5, <3>2, OthersSame, SlotSame
    <3> QED  BY <3>1, <3>2
  <2> QED  BY <2>4, <2>5
<1>3. \/ tracking' = tracking /\ \A l \in mix.loads, d \in mix.drivers : ~Terminal(l, d)
      \/ \E l \in mix.loads, d \in mix.drivers : Terminal(l, d)
      \/ \E p \in Reqs : StartTracking(p)
  <2>1. ASSUME NEW p \in Reqs, Begin(p), ~\E x \in Reqs : StartTracking(x)  PROVE tracking' = tracking
    BY <2>1 DEF Begin, CreateBegin, AddBegin, TransferBegin, StatusBegin, SweepRead, rest
  <2>2. ASSUME NEW p \in Reqs, Proceed(p), ~\E x \in Reqs : StartTracking(x)  PROVE tracking' = tracking
    BY <2>2 DEF Proceed, CreateOffer, CreateDoomed, LockFind, ConvertWrite, CreateWrite, ForkWrite, SyncRead,
      CreateNext, AttachFind, ForkRead, Tell, SyncRoom, SweepRoom, AddRow, TransferRoles, TransferPresent,
      TransferWrite, ReactivateRead, Reactivate, CleanOffers, Fail, rest
  <2>3. ASSUME Once, ~\E l \in mix.loads, d \in mix.drivers : Terminal(l, d)  PROVE tracking' = tracking
    BY <2>3 DEF Once, Delete, Say, Archive, Leave, Age, rest
  <2>4. UNCHANGED vars => tracking' = tracking  BY DEF vars
  <2> QED  BY <2>1, <2>2, <2>3, <2>4 DEF Next
<1>4. \A p \in Reqs : StartTracking(p) =>
        /\ tracking' = [tracking EXCEPT ![req[p].driver] = req[p].load]
        /\ req[p].at = "track" /\ UNCHANGED <<room, raced>>
  BY DEF StartTracking, chats
<1>5. \A l, d : Terminal(l, d) => tracking' = [tracking EXCEPT ![d] = NULL]  BY DEF Terminal
<1>6. Tracked'
  <2> SUFFICES ASSUME NEW d \in Drivers, tracking'[d] # NULL  PROVE d \in mix.drivers
    BY <1>a DEF Tracked
  <2>1. CASE tracking[d] # NULL  BY <1>b, <2>1 DEF Tracked
  <2>2. CASE tracking[d] = NULL
    <3>1. ~\E l \in mix.loads, e \in mix.drivers : Terminal(l, e)  BY <1>a, <1>5, <2>2
    <3>2. PICK p \in Reqs : StartTracking(p)  BY <1>3, <2>2, <3>1
    <3>3. d = req[p].driver  BY <1>a, <1>4, <2>2, <3>2
    <3> QED  BY <1>4, <3>2, <3>3, RequestTypes DEF Known
  <2> QED  BY <2>1, <2>2
<1>7. TrackedLoadActive'
  <2> SUFFICES ASSUME Cardinality(mix.drivers) = 1, NEW d \in Drivers, tracking'[d] # NULL
               PROVE  \A r \in LoadRooms(tracking[d])' \ raced' : room'[r].delivered = "no"
    BY <1>a DEF TrackedLoadActive
  <2>0. PICK l : l = tracking'[d]  OBVIOUS
  <2>1. l \in Loads  BY <2>0, StateTypes DEF TypeInv, TypeOK
  <2>2. Calm(l)'
    <3>1. CASE \E k \in mix.loads, e \in mix.drivers : Terminal(k, e)
      <4>1. PICK e \in mix.drivers : tracking' = [tracking EXCEPT ![e] = NULL]  BY <1>5, <3>1
      <4>2. d \in mix.drivers
        <5>1. tracking[d] # NULL  BY <1>a, <4>1
        <5> QED  BY <1>b, <5>1 DEF Tracked
      <4>3. d = e
        <5>1. IsFiniteSet(mix.drivers)  BY <1>a, UsersAssumption, FS_Subset
        <5>2. \E x : mix.drivers = {x}  BY <5>1, FS_Singleton
        <5> QED  BY <4>1, <4>2, <5>2
      <4> QED  BY <1>a, <4>1, <4>3
    <3>2. CASE \E p \in Reqs : StartTracking(p)
      <4>1. PICK p \in Reqs : StartTracking(p)  BY <3>2
      <4>2. CASE d = req[p].driver
        <5>1. l = req[p].load  BY <1>4, <1>a, <2>0, <4>1, <4>2
        <5>2. Calm(l)  BY <1>4, <1>b, <4>1, <5>1 DEF Tracks, Calm
        <5>3. UNCHANGED <<room, raced>>  BY <1>4, <4>1
        <5> QED  BY <5>2, <5>3 DEF Calm, LoadRooms, Live
      <4>3. CASE d # req[p].driver
        <5>1. tracking[d] = l /\ l # NULL  BY <1>4, <1>a, <2>0, <4>1, <4>3
        <5>2. Calm(l)  BY <1>b, <5>1 DEF TrackedLoadActive, Calm
        <5>3. UNCHANGED <<room, raced>>  BY <1>4, <4>1
        <5> QED  BY <5>2, <5>3 DEF Calm, LoadRooms, Live
      <4> QED  BY <4>2, <4>3
    <3>3. CASE tracking' = tracking /\ \A k \in mix.loads, e \in mix.drivers : ~Terminal(k, e)
      <4>1. Calm(l)  BY <1>b, <2>0, <3>3 DEF TrackedLoadActive, Calm
      <4>2. Calm(l) /\ ~Ends(l) => Calm(l)'  BY <2>1, CalmKept
      <4> QED  BY <3>3, <4>1, <4>2 DEF Ends
    <3> QED  BY <1>3, <3>1, <3>2, <3>3
  <2> QED  BY <2>0, <2>2 DEF Calm
<1>8. \A p \in Reqs : Tracks(p)'  BY <1>2 DEF Tracks
<1> QED  BY <1>1, <1>6, <1>7, <1>8 DEF DeliveryInv

\* No load is delivered, and nobody tracked, when the program starts.
LEMMA DeliveryInitially == Init => DeliveryInv
<1> SUFFICES ASSUME Init  PROVE DeliveryInv
  OBVIOUS
<1>1. \A l : LoadRooms(l) = {}  BY DEF Init, LoadRooms, Live, NewLoadRoom
<1>2. ArchivedIsDelivered  BY DEF Init, ArchivedIsDelivered, Live, NewLoadRoom
<1>3. \A p \in Reqs : req[p].at = "idle"  BY IdleRecord DEF Init
<1>4. \A d \in Drivers : tracking[d] = NULL  BY DEF Init
<1> QED  BY <1>1, <1>2, <1>3, <1>4 DEF DeliveryInv, TrackedLoadActive, Tracked, Tracks

-----------------------------------------------------------------------------
(* The theorems.                                                           *)

\* The inductive invariant.
IInv == TypeInv /\ RoomsInv /\ LocksInv /\ ReadsInv /\ DeliveryInv

\* The inductive invariant holds whatever requests meet, for any number of them, of chats, loads, drivers
\* and staff.
THEOREM Inductive == Spec => []IInv
<1>1. Init => IInv
  BY TypeInitially, RoomsInitially, LocksInitially, ReadsInitially, DeliveryInitially DEF IInv
<1>2. IInv /\ [Next]_vars => IInv'
  BY TypeStep, RoomsStep, LocksInvStep, ReadsStep, DeliveryStep DEF IInv
<1> QED  BY <1>1, <1>2, PTL DEF Spec

\* A driver has one chat for a load, a chat is archived only while its load is delivered, and where a
\* driver is tracked for a load its chats are active.
THEOREM ChatsAgree == Spec => []LoadChatsAgree
<1>1. IInv => LoadChatsAgree
  BY UniqueCounts DEF IInv, TypeInv, DeliveryInv, LoadChatsAgree
<1> QED  BY <1>1, Inductive, PTL

\* A synchronisation leaves the staff that was asked for, and whom others added since it read.
LEMMA SyncAgreesStep ==
  ASSUME IInv, NEW p \in Reqs
  PROVE  SyncAgrees(p)
<1> SUFFICES ASSUME NEW r \in Rooms, SyncRoom(p, r)
             PROVE  LET staff == member'[r] \cap Staff
                    IN /\ staff \ req[p].staff \subseteq {u \in Staff : <<r, u>> \in req[p].moved}
                       /\ req[p].staff \subseteq staff \/ req[p].seen[r] = req[p].staff
  BY DEF SyncAgrees
<1> DEFINE old == req[p].seen[r]
<1>1. req[p].at = "sync" /\ r \in req[p].rooms /\ req[p].staff \subseteq Staff
  BY RequestTypes DEF SyncRoom, IInv
<1>2. \A u \in Staff : <<r, u>> \notin req[p].moved => (u \in member[r] <=> u \in old)
  BY <1>1 DEF IInv, ReadsInv, Syncs
<1>3. member'[r] = IF old = req[p].staff THEN member[r] ELSE (member[r] \ (old \ req[p].staff)) \cup req[p].staff
  BY StateTypes DEF SyncRoom, IInv
<1> HIDE DEF old
<1>4. (member'[r] \cap Staff) \ req[p].staff \subseteq {u \in Staff : <<r, u>> \in req[p].moved}
  BY <1>2, <1>3
<1>5. req[p].staff \subseteq member'[r] \cap Staff \/ old = req[p].staff
  BY <1>1, <1>3
<1> QED  BY <1>4, <1>5 DEF old

\* A transfer leaves the new users of the role, but for whom others added or removed since it read.
LEMMA TransferReplacesStep ==
  ASSUME IInv, NEW p \in Reqs
  PROVE  TransferReplaces(p)
<1> SUFFICES ASSUME TransferWrite(p), NEW r \in req[p].rooms
             PROVE  LET others == {u \in Staff : <<r, u>> \in req[p].moved}
                    IN /\ (member'[r] \cap Tracking) \ req[p].staff \subseteq others
                       /\ req[p].staff \ member'[r] \subseteq others
  BY DEF TransferReplaces
<1>1. /\ req[p].at = "replace" /\ r \in Rooms /\ req[p].staff \subseteq Staff /\ Known(req[p])
      /\ Tracking \subseteq Staff
  BY RequestTypes, UsersAssumption DEF TransferWrite, IInv
<1>2. /\ \A u \in Tracking \ req[p].staff : <<r, u>> \notin req[p].moved => (u \in member[r] <=> u \in req[p].seen[r])
      /\ \A u \in req[p].staff : <<r, u>> \notin req[p].moved => (u \in member[r] <=> u \notin req[p].rows[r])
  BY <1>1 DEF IInv, ReadsInv, Transfers
<1>3. member'[r] = (member[r] \ req[p].seen[r]) \cup req[p].rows[r]  BY <1>1 DEF TransferWrite
<1>4. req[p].seen[r] \subseteq Tracking \ req[p].staff /\ req[p].rows[r] \subseteq req[p].staff
  BY <1>1 DEF Known
<1>5. (member'[r] \cap Tracking) \ req[p].staff \subseteq {u \in Staff : <<r, u>> \in req[p].moved}
  BY <1>1, <1>2, <1>3, <1>4
<1>6. req[p].staff \ member'[r] \subseteq {u \in Staff : <<r, u>> \in req[p].moved}
  BY <1>1, <1>2, <1>3, <1>4
<1> QED  BY <1>5, <1>6

\* What a synchronisation or a transfer leaves in a chat is what it was asked for, whatever happened
\* since it read the participants, but for what others have changed themselves.
THEOREM StaffFollows == Spec => StaffAgrees
<1>1. IInv => \A p \in Reqs : SyncAgrees(p) /\ TransferReplaces(p)
  BY SyncAgreesStep, TransferReplacesStep
<1> QED  BY <1>1, Inductive, PTL DEF StaffAgrees

\* The clean-up touches only chats that were delivered long ago, and deletes none with messages, unless
\* others changed them since it looked.
LEMMA SweepJustifiedStep ==
  ASSUME IInv, TypeInv', NEW p \in Reqs
  PROVE  SweepJustified(p)
<1> SUFFICES ASSUME NEW r \in Rooms, SweepRoom(p, r), <<r, NULL>> \notin req[p].moved
             PROVE  room[r].delivered = "past" /\ (room[r].messages => room'[r] # NULL)
  BY DEF SweepJustified
<1>1. /\ Live(r) /\ room[r].delivered = "past" /\ (r \in req[p].drop => ~room[r].messages)
  BY DEF SweepRoom, IInv, ReadsInv, Sweeps
<1>2. room \in [Rooms -> RoomRecord \cup {NULL}] /\ room[r] \in RoomRecord
  BY <1>1, StateTypes DEF IInv, Live
<1>3. r \notin req[p].drop => room'[r] = [room[r] EXCEPT !.isLoadArchived = TRUE]
  BY <1>1, <1>2 DEF SweepRoom
<1>4. [room[r] EXCEPT !.isLoadArchived = TRUE] \in RoomRecord  BY <1>2 DEF RoomRecord
<1> QED  BY <1>1, <1>3, <1>4, RecordsAssumption

\* No step deletes the selected driver's OFFER chat: the clean-up and administrators delete LOAD chats,
\* and who creates a chat for the selected driver with his OFFER chat at hand converts it.
LEMMA SelectedKeptStep ==
  ASSUME IInv, TypeInv', [Next]_vars
  PROVE  SelectedKept
<1> SUFFICES ASSUME NEW r \in Rooms, Live(r), room[r].type = "OFFER", Chosen \in member[r]
             PROVE  room'[r] # NULL
  BY DEF SelectedKept
<1>a. /\ RoomKept(r) /\ \A p \in Reqs : Aware(req[p]) /\ Known(req[p])
  BY RequestTypes DEF IInv, RoomsInv
<1>b. /\ room \in [Rooms -> RoomRecord \cup {NULL}] /\ member \in [Rooms -> SUBSET Users]
      /\ created \in Nat /\ Rooms \subseteq Nat /\ mix \in Mixes
  BY StateTypes, RoomsAssumption DEF IInv, Rooms
<1>c. Chosen \in Drivers  BY <1>b, MixTypes, UsersAssumption DEF Users
<1>d. Chosen \in DriversOf(r) /\ r <= created  BY <1>a, <1>b, <1>c DEF DriversOf, RoomKept, Live
<1>1. ASSUME room'[r] = NULL  PROVE FALSE
  <2>2. CASE \E x \in Rooms : Delete(x)
    BY <1>1, <2>2 DEF Delete, DeleteRooms, Live
  <2>3. ASSUME NEW p \in Reqs, NEW x \in Rooms, SweepRoom(p, x)  PROVE FALSE
    <3>1. x \in req[p].rooms  BY <2>3 DEF SweepRoom
    <3>2. x # r  BY <1>a, <3>1 DEF Aware, Finds
    <3>3. room'[r] = room[r]  BY <1>b, <2>3, <3>2 DEF SweepRoom, DeleteRooms
    <3> QED  BY <1>1, <3>3 DEF Live
  <2>4. ASSUME NEW p \in Reqs, ConvertWrite(p)  PROVE FALSE
    <3>1. r = req[p].room \/ r \notin req[p].drop
      BY <1>a, <2>4 DEF ConvertWrite, Aware, Selects, Creating
    <3>2. r # req[p].room
      <4>1. ASSUME r = req[p].room  PROVE FALSE
        <5>1. room'[r] = [room[r] EXCEPT !.type = "LOAD", !.load = req[p].load] /\ room[r] \in RoomRecord
          BY <2>4, <4>1, <1>b DEF ConvertWrite, Live
        <5>2. req[p].load \in Loads  BY <1>a, <2>4 DEF ConvertWrite, Known
        <5>3. room'[r] \in RoomRecord  BY <5>1, <5>2 DEF RoomRecord
        <5> QED  BY <1>1, <5>3, RecordsAssumption
      <4> QED  BY <4>1
    <3>3. room'[r] = room[r]  BY <2>4, <3>1, <3>2 DEF ConvertWrite
    <3> QED  BY <1>1, <3>3 DEF Live
  <2>5. ASSUME NEW p \in Reqs, CreateWrite(p)  PROVE FALSE
    <3>1. room'[r] = NULL => r \in OfferRooms(req[p].load) /\ req[p].driver \in member[r]
      <4>1. PICK n : n = created + 1  OBVIOUS
      <4>2. PICK S \in SUBSET {x \in OfferRooms(req[p].load) : req[p].driver \in member[x]} :
              room' = [x \in Rooms |-> IF x \in S THEN NULL
                         ELSE IF x = n THEN NewLoadRoom(req[p].load, "no") ELSE room[x]]
        BY <2>5, <4>1 DEF CreateWrite
      <4>3. r # n  BY <1>b, <1>d, <4>1
      <4> QED  BY <4>2, <4>3 DEF Live
    <3>2. /\ req[p].at = "write" /\ req[p].task = "create" /\ req[p].driver \in Drivers
      BY <1>a, <2>5 DEF CreateWrite, Known
    <3>3. req[p].driver = Chosen
      BY <1>1, <1>a, <1>d, <3>1, <3>2 DEF RoomKept, DriversOf
    <3>4. req[p].room = NULL  BY <1>a, <3>2, <3>3 DEF Aware, Chose, Creating
    <3> QED  BY <1>1, <1>a, <3>1, <3>2, <3>3, <3>4 DEF Aware, Selects, Creating
  <2>6. room[r] \in RoomRecord /\ \A l : r \notin LoadRooms(l)  BY <1>b DEF Live, LoadRooms
  <2>7. \A b \in BOOLEAN : /\ [room[r] EXCEPT !.messages = b] \in RoomRecord
                           /\ [room[r] EXCEPT !.isArchived = b] \in RoomRecord
    BY <2>6 DEF RoomRecord
  <2>8. [room[r] EXCEPT !.delivered = "past"] \in RoomRecord  BY <2>6 DEF RoomRecord, Delivered
  <2>9. ASSUME NEW x \in Rooms, NEW b \in BOOLEAN, Say(x) \/ Archive(x, b)  PROVE room'[r] # NULL
    <3>1. room'[r] = room[r] \/ \E c \in BOOLEAN : room'[r] \in {[room[r] EXCEPT !.messages = c],
                                                              [room[r] EXCEPT !.isArchived = c]}
      BY <1>b, <2>9 DEF Say, Archive
    <3> QED  BY <2>6, <2>7, <3>1, RecordsAssumption
  <2>10. ASSUME NEW p \in Reqs, NEW x \in Rooms, Tell(p, x)  PROVE room'[r] # NULL
    <3>1. room'[r] \in {room[r], [room[r] EXCEPT !.messages = TRUE]}  BY <1>b, <2>10 DEF Tell
    <3> QED  BY <2>6, <2>7, <3>1, RecordsAssumption
  <2>11. ASSUME Age  PROVE room'[r] # NULL
    <3>1. room'[r] \in {room[r], [room[r] EXCEPT !.delivered = "past"]}  BY <2>11 DEF Age
    <3> QED  BY <2>6, <2>8, <3>1, RecordsAssumption
  <2>12. ASSUME NEW l, NEW d, Terminal(l, d)  PROVE room'[r] # NULL
    BY <2>6, <2>12, RecordsAssumption DEF Terminal
  <2>13. ASSUME NEW p \in Reqs, Reactivate(p)  PROVE room'[r] # NULL
    BY <2>6, <2>13, RecordsAssumption DEF Reactivate
  <2>14. ASSUME NEW p \in Reqs, ForkWrite(p)  PROVE room'[r] # NULL
    <3>1. r # created + 1  BY <1>b, <1>d
    <3>2. room'[r] = room[r]  BY <1>b, <2>14, <3>1 DEF ForkWrite
    <3> QED  BY <2>6, <3>2, RecordsAssumption
  <2>15. CASE room' = room  BY <1>1, <2>6, <2>15, RecordsAssumption
  <2>16. CASE Once
    <3>1. \A x, u : Leave(x, u) => room' = room  BY DEF Leave
    <3>2. \E b : b \in BOOLEAN  OBVIOUS
    <3> QED  BY <1>1, <2>2, <2>9, <2>11, <2>12, <2>15, <2>16, <3>1, <3>2 DEF Once
  <2>17. ASSUME NEW p \in Reqs, Begin(p)  PROVE room' = room
    BY <2>17 DEF Begin, CreateBegin, AddBegin, TransferBegin, StatusBegin, SweepRead, chats
  <2>18. ASSUME NEW p \in Reqs, Proceed(p)  PROVE FALSE
    <3>1. \/ room' = room
          \/ ConvertWrite(p) \/ CreateWrite(p) \/ ForkWrite(p) \/ Reactivate(p)
          \/ \E x \in Rooms : Tell(p, x) \/ SweepRoom(p, x)
      BY <2>18 DEF Proceed, CreateOffer, CreateDoomed, LockFind, SyncRead, CreateNext, AttachFind, ForkRead,
        TransferRoles, TransferPresent, TransferWrite, ReactivateRead, StartTracking, CleanOffers, Fail,
        AddRow, SyncRoom, chats
    <3> QED  BY <1>1, <2>3, <2>4, <2>5, <2>10, <2>13, <2>14, <2>15, <3>1
  <2>19. UNCHANGED vars => room' = room  BY DEF vars
  <2> QED  BY <2>15, <2>16, <2>17, <2>18, <2>19 DEF Next
<1> QED  BY <1>1

\* Chats are deleted only where it is right: by the clean-up when their load was delivered long ago, and
\* never the OFFER chat of the selected driver when chats of the load are created.
THEOREM DeletesRight == Spec => DeletesJustified
<1>1. IInv /\ TypeInv' /\ [Next]_vars => SelectedKept /\ \A p \in Reqs : SweepJustified(p)
  BY SweepJustifiedStep, SelectedKeptStep
<1>2. IInv => TypeInv  BY DEF IInv
<1>3. IInv' => TypeInv'  BY DEF IInv
<1> QED  BY <1>1, <1>2, <1>3, Inductive, PTL DEF DeletesJustified, Spec

=============================================================================
