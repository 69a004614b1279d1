--------------------------- MODULE ChatRoomsProofs ---------------------------
(***************************************************************************)
(* Proofs about ChatRooms.  The inductive invariant says, besides the      *)
(* types, what a request is about (Known), that the chat it has at hand    *)
(* was created and is of the type it was found with (Finds), and that what *)
(* it has read of who hides the chat is true but for the users whose rows  *)
(* others have set since (Sees); that a chat is numbered when it is        *)
(* created and only DIRECT and OFFER chats are hidden (RoomKept); that a   *)
(* chat hidden by all is on its way out (Goes); and that the DIRECT chats  *)
(* of two users, with the requests about to insert one, are no more than   *)
(* there are requests (PairsKept).                                         *)
(***************************************************************************)
EXTENDS ChatRooms, FiniteSetTheorems, TLAPS

-----------------------------------------------------------------------------
(* The inductive invariant.                                                *)

\* A request knows what it is about at each of its stages.
Known(s) ==
  /\ s.at # "idle" => s.by \in Users
  /\ s.at \in {"find", "txFind", "insert", "remove"} => s.with \in Users
  /\ s.at \in {"reopenTx", "reopen", "reload", "unhide", "hide", "readAll", "drop", "leave",
               "add", "remove", "mute", "pin", "archive"} => s.room \in Rooms
  /\ s.at = "add" => "add" \in mix.kinds
  /\ s.at = "remove" => "remove" \in mix.kinds

\* The chat at hand was created before, and has the type it was found with.
Finds(s) ==
  /\ s.room # NULL => s.room <= created
  /\ s.at = "hide" /\ Live(s.room) => Private(s.room)
  /\ s.at = "leave" /\ Live(s.room) => ~Private(s.room)

\* Who shows a chat about to be deleted, and who hides a chat that is written to or was opened,
\* is among those whose rows others have set since they were read.
Sees(s) ==
  /\ s.at = "drop" /\ Live(s.room) /\ Private(s.room) => Members(s.room) \ HiddenBy(s.room) \subseteq s.moved
  /\ s.at = "unhide" => HiddenBy(s.room) \subseteq s.left \cup s.found \cup s.moved
  /\ s.at = "reload" => HiddenBy(s.room) \subseteq s.moved

Aware(s) == Known(s) /\ Finds(s) /\ Sees(s)

\* Chats are numbered as they come, and GROUP chats are not hidden.
RoomKept(r) ==
  /\ created < r => room[r] = NULL
  /\ room[r] = NULL => Members(r) = {}
  /\ Live(r) /\ ~Private(r) => HiddenBy(r) = {}

\* A DIRECT or OFFER chat that all have hidden is on its way out.
Goes(r) ==
  Live(r) /\ Private(r) /\ AllHidden(r) /\ r \notin torn =>
    \E p \in Reqs : req[p].room = r /\ req[p].at \in {"readAll", "drop"}

\* The requests about to insert a DIRECT chat of two users.
Inserting(u, v) == {p \in Reqs : req[p].at = "insert" /\ {req[p].by, req[p].with} = {u, v}}

PairsKept(u, v) ==
  mix.kinds \cap {"add", "remove"} = {} =>
    Cardinality(Pair(u, v)) + Cardinality(Inserting(u, v)) <= Cardinality(Reqs)

\* What the requests know and what becomes of the chats.
RoomsInv ==
  /\ TypeOK
  /\ \A p \in Reqs : Aware(req[p])
  /\ \A r \in Rooms : RoomKept(r) /\ Goes(r)

IInv == RoomsInv /\ \A u, v \in Users : PairsKept(u, v)

-----------------------------------------------------------------------------
(* Records and types.                                                      *)

\* A request in which a field is overwritten is a request.
LEMMA FieldTypes ==
  ASSUME NEW s \in ReqRecord
  PROVE  /\ \A v \in Stages : [s EXCEPT !.at = v] \in ReqRecord
         /\ \A v \in Users \cup {NULL} : [s EXCEPT !.by = v] \in ReqRecord
         /\ \A v \in Users \cup {NULL} : [s EXCEPT !.with = v] \in ReqRecord
         /\ \A v \in Rooms \cup {NULL} : [s EXCEPT !.room = v] \in ReqRecord
         /\ \A v \in SUBSET Users : [s EXCEPT !.left = v] \in ReqRecord
         /\ \A v \in SUBSET Users : [s EXCEPT !.found = v] \in ReqRecord
         /\ \A v \in SUBSET Users : [s EXCEPT !.drivers = v] \in ReqRecord
         /\ \A v \in SUBSET Rooms : [s EXCEPT !.rooms = v] \in ReqRecord
         /\ \A v \in BOOLEAN : [s EXCEPT !.bulk = v] \in ReqRecord
         /\ \A v \in BOOLEAN : [s EXCEPT !.says = v] \in ReqRecord
         /\ \A v \in BOOLEAN : [s EXCEPT !.flag = v] \in ReqRecord
         /\ \A v \in SUBSET Users : [s EXCEPT !.moved = v] \in ReqRecord
<1>1. \A v \in Stages : [s EXCEPT !.at = v] \in ReqRecord  BY DEF ReqRecord
<1>2. \A v \in Users \cup {NULL} : [s EXCEPT !.by = v] \in ReqRecord  BY DEF ReqRecord
<1>3. \A v \in Users \cup {NULL} : [s EXCEPT !.with = v] \in ReqRecord  BY DEF ReqRecord
<1>4. \A v \in Rooms \cup {NULL} : [s EXCEPT !.room = v] \in ReqRecord  BY DEF ReqRecord
<1>5. \A v \in SUBSET Users : [s EXCEPT !.left = v] \in ReqRecord  BY DEF ReqRecord
<1>6. \A v \in SUBSET Users : [s EXCEPT !.found = v] \in ReqRecord  BY DEF ReqRecord
<1>7. \A v \in SUBSET Users : [s EXCEPT !.drivers = v] \in ReqRecord  BY DEF ReqRecord
<1>8. \A v \in SUBSET Rooms : [s EXCEPT !.rooms = v] \in ReqRecord  BY DEF ReqRecord
<1>9. \A v \in BOOLEAN : [s EXCEPT !.bulk = v] \in ReqRecord  BY DEF ReqRecord
<1>10. \A v \in BOOLEAN : [s EXCEPT !.says = v] \in ReqRecord  BY DEF ReqRecord
<1>11. \A v \in BOOLEAN : [s EXCEPT !.flag = v] \in ReqRecord  BY DEF ReqRecord
<1>12. \A v \in SUBSET Users : [s EXCEPT !.moved = v] \in ReqRecord  BY DEF ReqRecord
<1> QED  BY <1>1, <1>2, <1>3, <1>4, <1>5, <1>6, <1>7, <1>8, <1>9, <1>10, <1>11, <1>12

\* A slot without a request.
LEMMA IdleRecord ==
  /\ Idle \in ReqRecord /\ Idle.at = "idle" /\ Idle.by = NULL /\ Idle.with = NULL /\ Idle.room = NULL
  /\ Idle.left = {} /\ Idle.found = {} /\ Idle.moved = {} /\ Idle.drivers = {} /\ Idle.rooms = {}
  /\ Idle.bulk = FALSE /\ Idle.says = FALSE
BY DEF Idle, ReqRecord, Stages

\* A participant who shows the chat.
LEMMA RowRecord == Row \in MemberRecord /\ Row # NULL /\ Row.isHidden = FALSE
<1>1. Row \in MemberRecord /\ Row.isHidden = FALSE  BY DEF Row, MemberRecord
<1> QED  BY <1>1, RecordsAssumption

\* The types of the state, by themselves.
LEMMA StateTypes ==
  ASSUME TypeOK
  PROVE  /\ room \in [Rooms -> RoomRecord \cup {NULL}]
         /\ member \in [Rooms -> [Users -> MemberRecord \cup {NULL}]]
         /\ created \in 0..MaxRooms /\ created \in Nat /\ MaxRooms \in Nat
         /\ req \in [Reqs -> ReqRecord] /\ torn \subseteq Rooms /\ mix \in Mixes
         /\ mix.users \subseteq Users /\ mix.rooms \in 0..MaxRooms
         /\ Rooms \subseteq Nat /\ NULL \notin Rooms
BY MixesAssumption, RoomsAssumption DEF TypeOK, Rooms

\* The fields of a request.
LEMMA RequestTypes ==
  ASSUME RoomsInv, NEW p \in Reqs
  PROVE  /\ req[p] \in ReqRecord /\ Aware(req[p])
         /\ req[p].at \in Stages /\ req[p].by \in Users \cup {NULL} /\ req[p].with \in Users \cup {NULL}
         /\ req[p].room \in Rooms \cup {NULL} /\ req[p].left \in SUBSET Users /\ req[p].found \in SUBSET Users
         /\ req[p].drivers \in SUBSET Users /\ req[p].rooms \in SUBSET Rooms /\ req[p].bulk \in BOOLEAN
         /\ req[p].says \in BOOLEAN /\ req[p].flag \in BOOLEAN /\ req[p].moved \in SUBSET Users
BY DEF RoomsInv, TypeOK, ReqRecord

\* The rows of a chat: types, and who is a member.
LEMMA RowTypes ==
  ASSUME TypeOK, NEW r \in Rooms
  PROVE  /\ room[r] # NULL => room[r] \in RoomRecord /\ room[r].type \in {"DIRECT", "OFFER", "GROUP"}
         /\ \A u \in Users : member[r][u] # NULL => member[r][u] \in MemberRecord
         /\ \A u \in Users : u \in Members(r) <=> member[r][u] # NULL
         /\ \A u \in Users : u \in HiddenBy(r) <=> member[r][u] # NULL /\ member[r][u].isHidden
         /\ Members(r) \subseteq Users /\ HiddenBy(r) \subseteq Members(r)
BY DEF TypeOK, RoomRecord, Members, HiddenBy

\* Of the chats there are, the oldest is one.
LEMMA OldestIsOne ==
  ASSUME NEW S \in SUBSET Rooms
  PROVE  /\ Oldest(S) # NULL => Oldest(S) \in S
         /\ Oldest(S) = NULL => S = {}
         /\ Oldest(S) \in Rooms \cup {NULL}
<1>0. S \subseteq Nat /\ NULL \notin S
  <2>1. Rooms \subseteq Nat  BY DEF Rooms
  <2> QED  BY <2>1, RoomsAssumption
<1>1. ASSUME S # {}  PROVE \E r \in S : \A s \in S : r <= s
  <2>1. PICK r \in S : \A s \in S : ~ (<<s, r>> \in OpToRel(<, Nat))
    BY <1>0, <1>1, NatLessThanWellFounded, WFMin
  <2>2. \A s \in S : ~ (s < r)  BY <1>0, <2>1 DEF OpToRel
  <2>3. \A s \in S : r <= s  BY <1>0, <2>2
  <2> QED  BY <2>3
<1>2. S # {} => Oldest(S) \in S
  BY <1>1 DEF Oldest
<1>3. S = {} => Oldest(S) = NULL  BY DEF Oldest
<1> QED  BY <1>0, <1>2, <1>3

\* The chat of two users that is found is there, and is a DIRECT one.
LEMMA FindDirectFinds ==
  ASSUME TypeOK, NEW u, NEW v
  PROVE  /\ FindDirect(u, v) \in Rooms \cup {NULL}
         /\ FindDirect(u, v) # NULL => Live(FindDirect(u, v)) /\ FindDirect(u, v) \in Pair(u, v)
         /\ FindDirect(u, v) = NULL => Pair(u, v) = {}
<1>1. Pair(u, v) \in SUBSET Rooms  BY DEF Pair
<1> QED  BY <1>1, OldestIsOne DEF FindDirect, Pair

\* What is left of a request that has dealt with one chat.
LEMMA RestRecord ==
  ASSUME RoomsInv, NEW p \in Reqs, NEW S \in SUBSET Rooms, req[p].at # "idle"
  PROVE  /\ Rest(p, S) \in ReqRecord /\ Rest(p, S).at \in {"idle", "bulk"} /\ Rest(p, S).room = NULL
         /\ Rest(p, S).at # "idle" => Rest(p, S).by \in Users
<1>1. /\ req[p].by \in Users /\ req[p].says \in BOOLEAN /\ req[p].drivers \in SUBSET Users
      /\ req[p].rooms \in SUBSET Rooms
  BY RequestTypes DEF Aware, Known
<1> DEFINE todo == IF req[p].says THEN req[p].rooms \cup S ELSE {}
           t == [Idle EXCEPT !.at = "bulk", !.by = req[p].by, !.bulk = TRUE,
                             !.says = req[p].says, !.drivers = req[p].drivers, !.rooms = todo]
<1>2. todo \in SUBSET Rooms  BY <1>1
<1>3. Rest(p, S) \in {t, Idle}  BY DEF Rest
<1> HIDE DEF todo
<1>4. t \in ReqRecord
  <2> DEFINE a == [Idle EXCEPT !.at = "bulk", !.by = req[p].by, !.bulk = TRUE]
  <2>1. a \in ReqRecord  BY <1>1, IdleRecord, FieldTypes DEF Stages
  <2> HIDE DEF a
  <2>2. [a EXCEPT !.says = req[p].says, !.drivers = req[p].drivers, !.rooms = todo] \in ReqRecord
    BY <1>1, <1>2, <2>1, FieldTypes
  <2>3. t = [a EXCEPT !.says = req[p].says, !.drivers = req[p].drivers, !.rooms = todo]
    BY DEF a
  <2> QED  BY <2>2, <2>3
<1>5. t.at = "bulk" /\ t.by = req[p].by /\ t.room = NULL
  BY DEF Idle
<1> HIDE DEF t
<1> QED  BY <1>1, <1>3, <1>4, <1>5, IdleRecord

-----------------------------------------------------------------------------
(* What a step of one request does to the others and to the chats.         *)

\* Chats are created and deleted, but keep their type.
Grows ==
  /\ mix' = mix /\ created' \in 0..MaxRooms /\ created <= created'
  /\ \A x \in 1..created : room'[x] = NULL \/ (room[x] # NULL /\ room'[x].type = room[x].type)

\* Who is not in S leaves chat x or stays as he was.
Spares(x, S) ==
  \A u \in Users \ S :
    member'[x][u] = NULL \/ (member[x][u] # NULL /\ member'[x][u].isHidden = member[x][u].isHidden)

\* Request s, when others have set rows that it had read, is t.
Goon(s, t) ==
  /\ t.at = s.at /\ t.by = s.by /\ t.with = s.with /\ t.room = s.room /\ t.left = s.left
  /\ t.found = s.found /\ s.moved \subseteq t.moved

\* What a request knows stays true when others take steps.
LEMMA OtherAware ==
  ASSUME TypeOK, TypeOK', \A r \in Rooms : RoomKept(r), Grows,
         NEW s \in ReqRecord, NEW t \in ReqRecord, Aware(s), Goon(s, t),
         s.at \in {"reload", "unhide", "drop"} => Spares(s.room, t.moved)
  PROVE  Aware(t)'
<1>0. /\ created \in Nat /\ created' \in Nat /\ Rooms \subseteq Nat /\ s.room \in Rooms \cup {NULL}
      /\ NULL \notin Rooms
  BY StateTypes, RoomsAssumption DEF Grows, ReqRecord
<1>1. Known(t)'  BY DEF Aware, Known, Goon, Grows
<1>2. ASSUME s.room \in Rooms, Live(s.room)'
      PROVE  Live(s.room) /\ (Private(s.room)' <=> Private(s.room))
  <2>1. s.room \in 1..created
    <3>1. s.room # NULL /\ s.room \in 1..MaxRooms  BY <1>0, <1>2 DEF Rooms
    <3>2. s.room <= created  BY <3>1 DEF Aware, Finds
    <3> QED  BY <1>0, <3>1, <3>2, StateTypes
  <2>2. room'[s.room] # NULL  BY <1>2 DEF Live
  <2>3. room[s.room] # NULL /\ room'[s.room].type = room[s.room].type
    BY <2>1, <2>2 DEF Grows
  <2> QED  BY <1>2, <2>3 DEF Live, Private
<1>3. Finds(t)'
  <2>1. ASSUME t.room # NULL  PROVE t.room <= created'
    <3>1. t.room \in Rooms /\ t.room = s.room  BY <1>0, <2>1 DEF Goon
    <3>2. t.room <= created  BY <2>1, <3>1 DEF Aware, Finds
    <3>3. created <= created'  BY DEF Grows
    <3>4. t.room \in Nat  BY <1>0, <3>1
    <3> QED  BY <1>0, <3>2, <3>3, <3>4
  <2>2. Live(t.room)' => s.room \in Rooms /\ Live(s.room)'
    BY DEF Goon, Live
  <2>3. t.at = "hide" /\ Live(t.room)' => Private(t.room)'
    BY <1>2, <2>2 DEF Aware, Finds, Goon
  <2>4. t.at = "leave" /\ Live(t.room)' => ~Private(t.room)'
    BY <1>2, <2>2 DEF Aware, Finds, Goon
  <2> QED  BY <2>1, <2>3, <2>4 DEF Finds
<1>4. ASSUME s.at \in {"reload", "unhide", "drop"}
      PROVE  /\ HiddenBy(s.room)' \subseteq HiddenBy(s.room) \cup t.moved
             /\ Members(s.room)' \ HiddenBy(s.room)' \subseteq (Members(s.room) \ HiddenBy(s.room)) \cup t.moved
  <2>1. s.room \in Rooms /\ Spares(s.room, t.moved)  BY <1>4 DEF Aware, Known
  <2> QED  BY <2>1 DEF Spares, Members, HiddenBy
<1>5. Sees(t)'
  <2>1. t.at = "drop" /\ Live(t.room)' /\ Private(t.room)' =>
          Members(t.room)' \ HiddenBy(t.room)' \subseteq t.moved
    <3> SUFFICES ASSUME t.at = "drop", Live(t.room)', Private(t.room)'
                 PROVE  Members(t.room)' \ HiddenBy(t.room)' \subseteq t.moved
      OBVIOUS
    <3>1. s.at = "drop" /\ s.room = t.room /\ s.room \in Rooms /\ s.moved \subseteq t.moved
      BY DEF Goon, Aware, Known
    <3>2. Live(s.room) /\ Private(s.room)  BY <1>2, <3>1
    <3>3. Members(s.room) \ HiddenBy(s.room) \subseteq s.moved  BY <3>1, <3>2 DEF Aware, Sees
    <3> QED  BY <1>4, <3>1, <3>3
  <2>2. t.at = "unhide" => HiddenBy(t.room)' \subseteq t.left \cup t.found \cup t.moved
    <3> SUFFICES ASSUME t.at = "unhide"
                 PROVE  HiddenBy(t.room)' \subseteq t.left \cup t.found \cup t.moved
      OBVIOUS
    <3>1. s.at = "unhide" /\ s.room = t.room /\ s.left = t.left /\ s.found = t.found /\ s.moved \subseteq t.moved
      BY DEF Goon
    <3>2. HiddenBy(s.room) \subseteq s.left \cup s.found \cup s.moved  BY <3>1 DEF Aware, Sees
    <3> QED  BY <1>4, <3>1, <3>2
  <2>3. t.at = "reload" => HiddenBy(t.room)' \subseteq t.moved
    <3> SUFFICES ASSUME t.at = "reload"  PROVE HiddenBy(t.room)' \subseteq t.moved
      OBVIOUS
    <3>1. s.at = "reload" /\ s.room = t.room /\ s.moved \subseteq t.moved  BY DEF Goon
    <3>2. HiddenBy(s.room) \subseteq s.moved  BY <3>1 DEF Aware, Sees
    <3> QED  BY <1>4, <3>1, <3>2
  <2> QED  BY <2>1, <2>2, <2>3 DEF Sees
<1> QED  BY <1>1, <1>3, <1>5 DEF Aware

\* The others when request p becomes s and has set the rows of S in chat r.
LEMMA MovesSlots ==
  ASSUME TypeOK, NEW p \in Reqs, NEW s \in ReqRecord, NEW r, NEW S \in SUBSET Users, Moves(p, s, r, S)
  PROVE  /\ req' \in [Reqs -> ReqRecord] /\ req'[p] = s
         /\ \A q \in Reqs : q # p =>
              /\ Goon(req[q], req'[q])
              /\ req[q].room = r /\ req[q].at \in {"reload", "unhide", "drop"} => S \subseteq req'[q].moved
<1>0. req \in [Reqs -> ReqRecord]  BY DEF TypeOK
<1>1. ASSUME NEW q \in Reqs, q # p
      PROVE  /\ req'[q] \in ReqRecord /\ Goon(req[q], req'[q])
             /\ req[q].room = r /\ req[q].at \in {"reload", "unhide", "drop"} => S \subseteq req'[q].moved
  <2>1. req[q] \in ReqRecord  BY <1>0
  <2>2. CASE req[q].room = r /\ req[q].at \in {"reload", "unhide", "drop"}
    <3>1. req'[q] = [req[q] EXCEPT !.moved = @ \cup S]  BY <1>1, <2>2 DEF Moves
    <3>2. req[q].moved \cup S \in SUBSET Users  BY <2>1 DEF ReqRecord
    <3> QED  BY <2>1, <3>1, <3>2 DEF ReqRecord, Goon
  <2>3. CASE ~(req[q].room = r /\ req[q].at \in {"reload", "unhide", "drop"})
    <3>1. req'[q] = req[q]  BY <1>1, <2>3 DEF Moves
    <3> QED  BY <2>1, <2>3, <3>1 DEF Goon
  <2> QED  BY <2>2, <2>3
<1>2. req'[p] = s  BY DEF Moves
<1>3. \A q \in Reqs : req'[q] \in ReqRecord  BY <1>1, <1>2
<1>4. req' \in [Reqs -> ReqRecord]  BY <1>3 DEF Moves
<1> QED  BY <1>1, <1>2, <1>4

\* The others when request p becomes s and nobody has to know.
LEMMA BecomesSlots ==
  ASSUME TypeOK, NEW p \in Reqs, NEW s \in ReqRecord, Becomes(p, s)
  PROVE  /\ req' \in [Reqs -> ReqRecord] /\ req'[p] = s
         /\ \A q \in Reqs : q # p => req'[q] = req[q] /\ Goon(req[q], req'[q])
BY DEF TypeOK, Becomes, Goon

\* A step of request p, which becomes s and has set rows of the users S in chat r.
Steps(p, s, r, S) == Moves(p, s, r, S) \/ (Becomes(p, s) /\ S = {})

\* A chat that all have hidden is still on its way out, or is so now.
Leaves(p, s, x) ==
  Live(x)' /\ Private(x)' /\ AllHidden(x)' /\ x \notin torn' =>
    \/ s.room = x /\ s.at \in {"readAll", "drop"}
    \/ /\ Live(x) /\ Private(x) /\ AllHidden(x) /\ x \notin torn
       /\ ~(req[p].room = x /\ req[p].at \in {"readAll", "drop"})

\* A step of a request keeps the invariant when what it says of its own request and of the
\* chats is true.
LEMMA RowsStep ==
  ASSUME RoomsInv, NEW p \in Reqs, NEW s \in ReqRecord, NEW r, NEW S \in SUBSET Users,
         Steps(p, s, r, S), Grows,
         room' \in [Rooms -> RoomRecord \cup {NULL}],
         member' \in [Rooms -> [Users -> MemberRecord \cup {NULL}]], torn' \subseteq Rooms,
         \A x \in 1..created : Spares(x, IF x = r THEN S ELSE {}),
         Aware(s)', \A x \in Rooms : RoomKept(x)', \A x \in Rooms : Leaves(p, s, x)
  PROVE  RoomsInv'
<1>0. TypeOK /\ \A x \in Rooms : RoomKept(x)  BY DEF RoomsInv
<1>1. /\ req' \in [Reqs -> ReqRecord] /\ req'[p] = s
      /\ \A q \in Reqs : q # p =>
           /\ Goon(req[q], req'[q])
           /\ req[q].room = r /\ req[q].at \in {"reload", "unhide", "drop"} => S \subseteq req'[q].moved
  BY <1>0, MovesSlots, BecomesSlots DEF Steps
<1>2. TypeOK'  BY <1>0, <1>1, RoomsAssumption DEF TypeOK, Grows
<1>3. ASSUME NEW q \in Reqs  PROVE Aware(req[q])'
  <2>1. CASE q = p  BY <1>1, <2>1 DEF Aware, Known, Finds, Sees
  <2>2. CASE q # p
    <3>1. PICK t \in ReqRecord : t = req'[q]  BY <1>1
    <3>2. PICK u \in ReqRecord : u = req[q]  BY <1>0 DEF TypeOK
    <3>3. Aware(u)  BY <3>2 DEF RoomsInv
    <3>4. Goon(u, t)  BY <1>1, <2>2, <3>1, <3>2
    <3>5. ASSUME u.at \in {"reload", "unhide", "drop"}  PROVE Spares(u.room, t.moved)
      <4>1. u.room \in 1..created
        BY <1>0, <3>3, <3>5, StateTypes DEF Aware, Known, Finds, Rooms
      <4>2. Spares(u.room, IF u.room = r THEN S ELSE {})  BY <4>1
      <4>3. u.room = r => S \subseteq t.moved  BY <1>1, <2>2, <3>1, <3>2, <3>5
      <4> QED  BY <4>2, <4>3 DEF Spares
    <3>6. Aware(t)'  BY <1>0, <1>2, <3>3, <3>4, <3>5, OtherAware
    <3> QED  BY <3>1, <3>6 DEF Aware, Known, Finds, Sees
  <2> QED  BY <2>1, <2>2
<1>4. ASSUME NEW x \in Rooms  PROVE Goes(x)'
  <2> SUFFICES ASSUME Live(x)', Private(x)', AllHidden(x)', x \notin torn'
               PROVE  \E q \in Reqs : req'[q].room = x /\ req'[q].at \in {"readAll", "drop"}
    BY DEF Goes
  <2>1. CASE s.room = x /\ s.at \in {"readAll", "drop"}  BY <1>1, <2>1
  <2>2. CASE /\ Live(x) /\ Private(x) /\ AllHidden(x) /\ x \notin torn
             /\ ~(req[p].room = x /\ req[p].at \in {"readAll", "drop"})
    <3>1. PICK q \in Reqs : req[q].room = x /\ req[q].at \in {"readAll", "drop"}
      BY <2>2 DEF RoomsInv, Goes
    <3>2. q # p  BY <2>2, <3>1
    <3> QED  BY <1>1, <3>1, <3>2 DEF Goon
  <2> QED  BY <2>1, <2>2 DEF Leaves
<1> QED  BY <1>2, <1>3, <1>4 DEF RoomsInv

\* A step that leaves the chats and their rows alone.
LEMMA RequestStep ==
  ASSUME RoomsInv, NEW p \in Reqs, NEW s \in ReqRecord, Becomes(p, s),
         UNCHANGED <<room, member, created, mix>>, torn \subseteq torn', torn' \subseteq Rooms, Aware(s),
         req[p].at \in {"readAll", "drop"} =>
           LET x == req[p].room
           IN Live(x) /\ Private(x) /\ AllHidden(x) => x \in torn' \/ (s.room = x /\ s.at \in {"readAll", "drop"})
  PROVE  RoomsInv'
<1>0. TypeOK /\ \A x \in Rooms : RoomKept(x)  BY DEF RoomsInv
<1>1. Grows
  <2>1. created \in 0..MaxRooms /\ created \in Nat  BY <1>0, StateTypes
  <2> QED  BY <2>1 DEF Grows
<1>2. Steps(p, s, NULL, {})  BY DEF Steps
<1>3. \A x \in 1..created : Spares(x, IF x = NULL THEN {} ELSE {})  BY DEF Spares
<1>4. Aware(s)'  BY DEF Aware, Known, Finds, Sees, Live, Private, Members, HiddenBy
<1>5. \A x \in Rooms : RoomKept(x)'
  BY <1>0 DEF RoomKept, Live, Private, Members, HiddenBy
<1>6. \A x \in Rooms : Leaves(p, s, x)
  BY DEF Leaves, Live, Private, AllHidden, Members, HiddenBy
<1>7. /\ room' \in [Rooms -> RoomRecord \cup {NULL}]
      /\ member' \in [Rooms -> [Users -> MemberRecord \cup {NULL}]]
  BY <1>0, StateTypes
<1> QED  BY <1>1, <1>2, <1>3, <1>4, <1>5, <1>6, <1>7, RowsStep

-----------------------------------------------------------------------------
(* The steps that only read.                                               *)

\* A request with no chat at hand knows what it has to.
LEMMA QuietAware ==
  ASSUME NEW s, s.at \in {"idle", "bulk", "offer", "muteRooms"}, s.room = NULL, s.at # "idle" => s.by \in Users
  PROVE  Aware(s) /\ Aware(s)'
BY DEF Aware, Known, Finds, Sees

\* A request comes in: nothing but its slot changes.
LEMMA EnterStep ==
  ASSUME RoomsInv, NEW p \in Reqs, NEW kind, NEW s \in ReqRecord, Enter(p, kind, s), Aware(s),
         UNCHANGED <<room, member, created, torn, mix>>
  PROVE  RoomsInv'
<1>1. torn \subseteq torn' /\ torn' \subseteq Rooms /\ req[p].at = "idle" /\ Becomes(p, s)
  BY DEF Enter, Becomes, RoomsInv, TypeOK
<1> QED  BY <1>1, RequestStep

\* A request that is under way and not about to delete becomes s.
LEMMA OnwardStep ==
  ASSUME RoomsInv, NEW p \in Reqs, NEW s \in ReqRecord, Becomes(p, s), Aware(s),
         req[p].at \notin {"readAll", "drop"}, UNCHANGED <<room, member, created, torn, mix>>
  PROVE  RoomsInv'
<1>1. torn \subseteq torn' /\ torn' \subseteq Rooms  BY DEF RoomsInv, TypeOK
<1> QED  BY <1>1, RequestStep

\* createChatRoom() begins.
LEMMA OpenBeginStep ==
  ASSUME RoomsInv, NEW p \in Reqs, NEW u \in Users, NEW v \in Users, OpenBegin(p, u, v)
  PROVE  RoomsInv'
<1>1. PICK s : s = [Idle EXCEPT !.at = "find", !.by = u, !.with = v]  OBVIOUS
<1>2. s \in ReqRecord  BY <1>1, IdleRecord, FieldTypes DEF Stages
<1>3. s.at = "find" /\ s.by = u /\ s.with = v /\ s.room = NULL  BY <1>1 DEF Idle
<1>4. Aware(s)  BY <1>3 DEF Aware, Known, Finds, Sees
<1> QED  BY <1>1, <1>2, <1>4, EnterStep DEF OpenBegin

\* It looks for the chat.
LEMMA OpenFindStep ==
  ASSUME RoomsInv, NEW p \in Reqs, OpenFind(p)
  PROVE  RoomsInv'
<1> DEFINE r == FindDirect(req[p].by, req[p].with)
<1>0. /\ req[p] \in ReqRecord /\ Aware(req[p]) /\ req[p].at = "find" /\ TypeOK
      /\ \A x \in Rooms : RoomKept(x)
  BY RequestTypes DEF OpenFind, RoomsInv
<1>1. r \in Rooms \cup {NULL} /\ (r # NULL => Live(r))  BY <1>0, FindDirectFinds
<1>2. PICK s : Becomes(p, s) /\ s = IF r = NULL THEN [req[p] EXCEPT !.at = "txFind"]
                                               ELSE [req[p] EXCEPT !.at = "reopen", !.room = r]
  BY DEF OpenFind
<1> HIDE DEF r
<1>3. CASE r = NULL
  <2>1. s \in ReqRecord  BY <1>0, <1>2, <1>3, FieldTypes DEF Stages
  <2>2. s.at = "txFind" /\ s.by = req[p].by /\ s.with = req[p].with /\ s.room = req[p].room
    BY <1>0, <1>2, <1>3 DEF ReqRecord
  <2>3. Aware(s)  BY <1>0, <2>2 DEF Aware, Known, Finds, Sees
  <2> QED  BY <1>0, <1>2, <2>1, <2>3, OnwardStep DEF OpenFind
<1>4. CASE r # NULL
  <2>1. s \in ReqRecord  BY <1>0, <1>1, <1>2, <1>4, FieldTypes DEF Stages
  <2>2. s.at = "reopen" /\ s.by = req[p].by /\ s.room = r
    BY <1>0, <1>2, <1>4 DEF ReqRecord
  <2>3. r \in Rooms /\ r <= created
    BY <1>0, <1>1, <1>4, StateTypes DEF RoomKept, Live
  <2>4. Aware(s)  BY <1>0, <2>2, <2>3 DEF Aware, Known, Finds, Sees
  <2> QED  BY <1>0, <1>2, <2>1, <2>4, OnwardStep DEF OpenFind
<1> QED  BY <1>3, <1>4

\* It looks again in its transaction.
LEMMA OpenTxFindStep ==
  ASSUME RoomsInv, NEW p \in Reqs, OpenTxFind(p)
  PROVE  RoomsInv'
<1> DEFINE r == FindDirect(req[p].by, req[p].with)
<1>0. /\ req[p] \in ReqRecord /\ Aware(req[p]) /\ req[p].at = "txFind" /\ TypeOK
      /\ \A x \in Rooms : RoomKept(x)
  BY RequestTypes DEF OpenTxFind, RoomsInv
<1>1. r \in Rooms \cup {NULL} /\ (r # NULL => Live(r))  BY <1>0, FindDirectFinds
<1>2. PICK s : Becomes(p, s) /\ s = IF r = NULL THEN [req[p] EXCEPT !.at = "insert"]
                                               ELSE [req[p] EXCEPT !.at = "reopenTx", !.room = r]
  BY DEF OpenTxFind
<1> HIDE DEF r
<1>3. CASE r = NULL
  <2>1. s \in ReqRecord  BY <1>0, <1>2, <1>3, FieldTypes DEF Stages
  <2>2. s.at = "insert" /\ s.by = req[p].by /\ s.with = req[p].with /\ s.room = req[p].room
    BY <1>0, <1>2, <1>3 DEF ReqRecord
  <2>3. Aware(s)  BY <1>0, <2>2 DEF Aware, Known, Finds, Sees
  <2> QED  BY <1>0, <1>2, <2>1, <2>3, OnwardStep DEF OpenTxFind
<1>4. CASE r # NULL
  <2>1. s \in ReqRecord  BY <1>0, <1>1, <1>2, <1>4, FieldTypes DEF Stages
  <2>2. s.at = "reopenTx" /\ s.by = req[p].by /\ s.room = r
    BY <1>0, <1>2, <1>4 DEF ReqRecord
  <2>3. r \in Rooms /\ r <= created
    BY <1>0, <1>1, <1>4, StateTypes DEF RoomKept, Live
  <2>4. Aware(s)  BY <1>0, <2>2, <2>3 DEF Aware, Known, Finds, Sees
  <2> QED  BY <1>0, <1>2, <2>1, <2>4, OnwardStep DEF OpenTxFind
<1> QED  BY <1>3, <1>4

\* It goes on with what is left when the chat is open.
LEMMA OpenReloadStep ==
  ASSUME RoomsInv, NEW p \in Reqs, OpenReload(p)
  PROVE  RoomsInv'
<1>0. req[p].at = "reload"  BY DEF OpenReload
<1>1. (IF Live(req[p].room) THEN {req[p].room} ELSE {}) \in SUBSET Rooms  BY DEF Live
<1>2. PICK s : Becomes(p, s) /\ s = Rest(p, IF Live(req[p].room) THEN {req[p].room} ELSE {})
  BY DEF OpenReload
<1>3. s \in ReqRecord /\ s.at \in {"idle", "bulk"} /\ s.room = NULL /\ (s.at # "idle" => s.by \in Users)
  BY <1>0, <1>1, <1>2, RestRecord
<1>4. Aware(s)  BY <1>3, QuietAware
<1> QED  BY <1>0, <1>2, <1>3, <1>4, OnwardStep DEF OpenReload

\* A bulk request and the making of an offer's chats begin.
LEMMA BulkBeginStep ==
  ASSUME RoomsInv, NEW p \in Reqs, NEW u \in Users, NEW S \in SUBSET Users, NEW says \in BOOLEAN,
         BulkBegin(p, u, S, says)
  PROVE  RoomsInv'
<1>1. PICK s : s = [Idle EXCEPT !.at = "bulk", !.by = u, !.drivers = S, !.bulk = TRUE, !.says = says]  OBVIOUS
<1>2. s \in ReqRecord
  <2> DEFINE a == [Idle EXCEPT !.at = "bulk", !.by = u, !.drivers = S]
  <2>1. a \in ReqRecord  BY IdleRecord, FieldTypes DEF Stages
  <2>2. s = [a EXCEPT !.bulk = TRUE, !.says = says]  BY <1>1
  <2> HIDE DEF a
  <2> QED  BY <2>1, <2>2, FieldTypes
<1>3. s.at = "bulk" /\ s.by = u /\ s.room = NULL  BY <1>1 DEF Idle
<1>4. Aware(s)  BY <1>3, QuietAware
<1> QED  BY <1>1, <1>2, <1>4, EnterStep DEF BulkBegin

\* An offer's chats.
LEMMA OfferBeginStep ==
  ASSUME RoomsInv, NEW p \in Reqs, NEW u \in Users, NEW S \in SUBSET Users, OfferBegin(p, u, S)
  PROVE  RoomsInv'
<1>1. PICK s : s = [Idle EXCEPT !.at = "offer", !.by = u, !.drivers = S]  OBVIOUS
<1>2. s \in ReqRecord  BY <1>1, IdleRecord, FieldTypes DEF Stages
<1>3. s.at = "offer" /\ s.by = u /\ s.room = NULL  BY <1>1 DEF Idle
<1>4. Aware(s)  BY <1>3, QuietAware
<1> QED  BY <1>1, <1>2, <1>4, EnterStep DEF OfferBegin

\* A bulk request turns to its next driver.
LEMMA BulkNextStep ==
  ASSUME RoomsInv, NEW p \in Reqs, NEW v \in Users, BulkNext(p, v)
  PROVE  RoomsInv'
<1> DEFINE r == FindDirect(req[p].by, v)
           t == [req[p] EXCEPT !.drivers = @ \ {v}]
<1>0. /\ req[p] \in ReqRecord /\ Aware(req[p]) /\ req[p].at = "bulk" /\ TypeOK
      /\ req[p].drivers \in SUBSET Users
  BY RequestTypes DEF BulkNext, RoomsInv
<1>1. r \in Rooms \cup {NULL}  BY <1>0, FindDirectFinds
<1>2. t \in ReqRecord /\ t.at = "bulk" /\ t.by = req[p].by /\ t.room = req[p].room
  <2>1. req[p].drivers \ {v} \in SUBSET Users  BY <1>0
  <2>2. t \in ReqRecord  BY <1>0, <2>1, FieldTypes
  <2> QED  BY <1>0, <2>2 DEF ReqRecord
<1>3. PICK s : /\ Becomes(p, s)
               /\ s = IF v \in Active /\ r = NULL THEN [t EXCEPT !.at = "find", !.with = v]
                      ELSE IF v \in Active /\ req[p].says THEN [t EXCEPT !.rooms = @ \cup {r}]
                      ELSE IF t.drivers = {} /\ t.rooms = {} THEN Idle ELSE t
  BY DEF BulkNext
<1> HIDE DEF r, t
<1>4. /\ s \in ReqRecord /\ s.at \in {"find", "bulk", "idle"}
      /\ s.at # "idle" => s.by = req[p].by /\ s.room = req[p].room
      /\ s.at = "find" => s.with = v
      /\ s.at = "idle" => s.room = NULL
  <2>1. CASE v \in Active /\ r = NULL
    <3>1. s = [t EXCEPT !.at = "find", !.with = v]  BY <1>3, <2>1
    <3>2. s \in ReqRecord  BY <1>2, <3>1, FieldTypes DEF Stages
    <3> QED  BY <1>2, <3>1, <3>2 DEF ReqRecord
  <2>2. CASE ~(v \in Active /\ r = NULL) /\ v \in Active /\ req[p].says
    <3>1. s = [t EXCEPT !.rooms = @ \cup {r}] /\ r \in Rooms  BY <1>1, <1>3, <2>2
    <3>2. t.rooms \cup {r} \in SUBSET Rooms  BY <1>2, <3>1 DEF ReqRecord
    <3>3. s \in ReqRecord  BY <1>2, <3>1, <3>2, FieldTypes
    <3> QED  BY <1>2, <3>1, <3>3 DEF ReqRecord
  <2>3. CASE ~(v \in Active /\ r = NULL) /\ ~(v \in Active /\ req[p].says)
    <3>1. s \in {Idle, t}  BY <1>3, <2>3
    <3> QED  BY <1>2, <3>1, IdleRecord
  <2> QED  BY <2>1, <2>2, <2>3
<1>5. Aware(s)  BY <1>0, <1>4 DEF Aware, Known, Finds, Sees
<1> QED  BY <1>0, <1>3, <1>4, <1>5, OnwardStep DEF BulkNext

\* Who starts to write to a chat knows its members.
LEMMA ContextRecord ==
  ASSUME RoomsInv, NEW p, NEW u \in Users, NEW r \in Rooms, Live(r), NEW b \in ReqRecord
  PROVE  Context(p, u, r, b) \in ReqRecord /\ Context(p, u, r, b).at = "unhide" /\ Aware(Context(p, u, r, b))
<1>0. TypeOK /\ RoomKept(r)  BY DEF RoomsInv
<1> DEFINE S == IF Private(r) THEN Members(r) ELSE {}
<1>1. S \in SUBSET Users /\ HiddenBy(r) \subseteq S
  BY <1>0, RowTypes DEF RoomKept
<1>2. PICK s : s = Context(p, u, r, b)  OBVIOUS
<1>3. s = [b EXCEPT !.at = "unhide", !.by = u, !.room = r, !.left = S]
  BY <1>2 DEF Context
<1> HIDE DEF S
<1>4. s \in ReqRecord
  <2> DEFINE a == [b EXCEPT !.at = "unhide", !.by = u]
  <2>1. a \in ReqRecord  BY FieldTypes DEF Stages
  <2>2. s = [a EXCEPT !.room = r, !.left = S]  BY <1>3
  <2> HIDE DEF a
  <2> QED  BY <1>1, <2>1, <2>2, FieldTypes
<1>5. s.at = "unhide" /\ s.by = u /\ s.room = r /\ s.left = S  BY <1>3 DEF ReqRecord
<1>6. r <= created  BY <1>0, StateTypes DEF RoomKept, Live
<1>7. Aware(s)  BY <1>1, <1>5, <1>6 DEF Aware, Known, Finds, Sees
<1> QED  BY <1>2, <1>4, <1>5, <1>7

\* A message is sent.
LEMMA SendBeginStep ==
  ASSUME RoomsInv, NEW p \in Reqs, NEW u \in Users, NEW r \in Rooms, SendBegin(p, u, r)
  PROVE  RoomsInv'
<1>1. PICK s : s = Context(p, u, r, Idle)  OBVIOUS
<1>2. s \in ReqRecord /\ Aware(s)  BY <1>1, ContextRecord, IdleRecord DEF SendBegin
<1> QED  BY <1>1, <1>2, EnterStep DEF SendBegin

\* A bulk request writes to the next of its chats.
LEMMA BulkSendStep ==
  ASSUME RoomsInv, NEW p \in Reqs, NEW r \in Rooms, BulkSend(p, r)
  PROVE  RoomsInv'
<1> DEFINE t == [req[p] EXCEPT !.rooms = @ \ {r}]
<1>0. /\ req[p] \in ReqRecord /\ Aware(req[p]) /\ req[p].at = "bulk" /\ req[p].rooms \in SUBSET Rooms
      /\ req[p].by \in Users
  BY RequestTypes DEF BulkSend, Aware, Known
<1>1. t \in ReqRecord /\ t.at = "bulk" /\ t.by = req[p].by /\ t.room = req[p].room
  <2>1. req[p].rooms \ {r} \in SUBSET Rooms  BY <1>0
  <2>2. t \in ReqRecord  BY <1>0, <2>1, FieldTypes
  <2> QED  BY <1>0, <2>2 DEF ReqRecord
<1>2. PICK s : /\ Becomes(p, s)
               /\ s = IF Live(r) /\ req[p].by \in Members(r) THEN Context(p, req[p].by, r, t)
                      ELSE IF t.rooms = {} THEN Idle ELSE t
  BY DEF BulkSend
<1> HIDE DEF t
<1>3. Aware(t) /\ Aware(Idle) /\ Idle \in ReqRecord
  BY <1>0, <1>1, QuietAware, IdleRecord DEF Aware, Known, Finds, Sees
<1>4. s \in ReqRecord /\ Aware(s)
  BY <1>0, <1>1, <1>2, <1>3, ContextRecord
<1> QED  BY <1>0, <1>2, <1>4, OnwardStep DEF BulkSend

\* unhideChatRoom() reads the row of a member.
LEMMA UnhideReadStep ==
  ASSUME RoomsInv, NEW p \in Reqs, NEW v \in Users, UnhideRead(p, v)
  PROVE  RoomsInv'
<1> DEFINE f == IF v \in HiddenBy(req[p].room) THEN req[p].found \cup {v} ELSE req[p].found
<1>0. /\ req[p] \in ReqRecord /\ Aware(req[p]) /\ req[p].at = "unhide" /\ req[p].left \in SUBSET Users
      /\ req[p].found \in SUBSET Users
  BY RequestTypes DEF UnhideRead
<1>1. PICK s : Becomes(p, s) /\ s = [req[p] EXCEPT !.left = @ \ {v}, !.found = f]
  BY DEF UnhideRead
<1>2. f \in SUBSET Users /\ req[p].left \ {v} \in SUBSET Users  BY <1>0
<1>3. HiddenBy(req[p].room) \subseteq (req[p].left \ {v}) \cup f \cup req[p].moved
  BY <1>0 DEF Aware, Sees
<1> HIDE DEF f
<1>4. s \in ReqRecord  BY <1>0, <1>1, <1>2, FieldTypes
<1>5. /\ s.at = "unhide" /\ s.by = req[p].by /\ s.room = req[p].room /\ s.left = req[p].left \ {v}
      /\ s.found = f /\ s.moved = req[p].moved
  BY <1>0, <1>1 DEF ReqRecord
<1>6. Aware(s)  BY <1>0, <1>3, <1>5 DEF Aware, Known, Finds, Sees
<1> QED  BY <1>0, <1>1, <1>4, <1>6, OnwardStep DEF UnhideRead

\* The message is stored.
LEMMA PostStep ==
  ASSUME RoomsInv, NEW p \in Reqs, Post(p)
  PROVE  RoomsInv'
<1>0. req[p].at = "unhide" /\ {} \in SUBSET Rooms  BY DEF Post
<1>1. PICK s : Becomes(p, s) /\ s = Rest(p, {})  BY DEF Post
<1>2. s \in ReqRecord /\ s.at \in {"idle", "bulk"} /\ s.room = NULL /\ (s.at # "idle" => s.by \in Users)
  BY <1>0, <1>1, RestRecord
<1>3. Aware(s)  BY <1>2, QuietAware
<1> QED  BY <1>0, <1>1, <1>2, <1>3, OnwardStep DEF Post

\* A request about one chat that comes in.
LEMMA ChatAware ==
  ASSUME RoomsInv, NEW s, NEW r \in Rooms, Live(r), s.by \in Users, s.room = r,
         s.at \in {"hide", "leave", "drop", "add", "remove", "mute", "pin", "archive"},
         s.at = "hide" => Private(r), s.at \in {"leave", "drop"} => ~Private(r),
         s.at = "add" => "add" \in mix.kinds, s.at = "remove" => "remove" \in mix.kinds /\ s.with \in Users
  PROVE  Aware(s)
<1>1. r <= created  BY StateTypes DEF RoomsInv, RoomKept, Live
<1> QED  BY <1>1 DEF Aware, Known, Finds, Sees

\* deleteChatRoom() begins.
LEMMA DeleteBeginStep ==
  ASSUME RoomsInv, NEW p \in Reqs, NEW u \in Users, NEW r \in Rooms, DeleteBegin(p, u, r)
  PROVE  RoomsInv'
<1> DEFINE a == IF Private(r) THEN "hide" ELSE IF room[r].adminId = u THEN "drop" ELSE "leave"
<1>1. PICK s : s = [Idle EXCEPT !.by = u, !.room = r, !.at = a]  OBVIOUS
<1>2. a \in {"hide", "drop", "leave"} /\ (a = "hide" <=> Private(r))  OBVIOUS
<1>3. Enter(p, "delete", s)  BY <1>1 DEF DeleteBegin
<1> HIDE DEF a
<1>4. s \in ReqRecord  BY <1>1, <1>2, IdleRecord, FieldTypes DEF Stages
<1>5. s.at = a /\ s.by = u /\ s.room = r  BY <1>1 DEF Idle
<1>6. Live(r)  BY DEF DeleteBegin
<1>7. Aware(s)  BY <1>2, <1>5, <1>6, ChatAware
<1> QED  BY <1>3, <1>4, <1>7, EnterStep DEF DeleteBegin

\* It reads whether all have hidden the chat.
LEMMA DeleteReadAllStep ==
  ASSUME RoomsInv, NEW p \in Reqs, DeleteReadAll(p)
  PROVE  RoomsInv'
<1> DEFINE x == req[p].room
<1>0. req[p] \in ReqRecord /\ Aware(req[p]) /\ req[p].at = "readAll" /\ x \in Rooms
  BY RequestTypes DEF DeleteReadAll, Aware, Known
<1>1. PICK s : Becomes(p, s) /\ s = IF AllHidden(x) THEN [req[p] EXCEPT !.at = "drop", !.moved = {}] ELSE Idle
  BY DEF DeleteReadAll
<1>2. torn \subseteq torn' /\ torn' \subseteq Rooms  BY DEF DeleteReadAll, RoomsInv, TypeOK
<1>3. CASE AllHidden(x)
  <2>1. s \in ReqRecord  BY <1>0, <1>1, <1>3, FieldTypes DEF Stages
  <2>2. s.at = "drop" /\ s.room = x /\ s.by = req[p].by  BY <1>0, <1>1, <1>3 DEF ReqRecord
  <2>3. Members(x) \ HiddenBy(x) = {}  BY <1>3 DEF AllHidden
  <2>4. Aware(s)  BY <1>0, <2>2, <2>3 DEF Aware, Known, Finds, Sees
  <2> QED  BY <1>1, <1>2, <2>1, <2>2, <2>4, RequestStep DEF DeleteReadAll
<1>4. CASE ~AllHidden(x)
  <2>1. s = Idle  BY <1>1, <1>4
  <2>2. s \in ReqRecord /\ Aware(s)  BY <2>1, IdleRecord, QuietAware
  <2> QED  BY <1>1, <1>2, <1>4, <2>2, RequestStep DEF DeleteReadAll
<1> QED  BY <1>3, <1>4

\* addParticipants() begins.
LEMMA AddBeginStep ==
  ASSUME RoomsInv, NEW p \in Reqs, NEW u \in Users, NEW r \in Rooms, NEW S \in SUBSET Users, AddBegin(p, u, r, S)
  PROVE  RoomsInv'
<1>1. PICK s : s = [Idle EXCEPT !.at = "add", !.by = u, !.room = r, !.left = S]  OBVIOUS
<1>2. s \in ReqRecord
  <2> DEFINE a == [Idle EXCEPT !.at = "add", !.by = u]
  <2>1. a \in ReqRecord  BY IdleRecord, FieldTypes DEF Stages
  <2>2. s = [a EXCEPT !.room = r, !.left = S]  BY <1>1
  <2> HIDE DEF a
  <2> QED  BY <2>1, <2>2, FieldTypes
<1>3. s.at = "add" /\ s.by = u /\ s.room = r  BY <1>1 DEF Idle
<1>4. Live(r) /\ Enter(p, "add", s) /\ "add" \in mix.kinds  BY <1>1 DEF AddBegin, Enter
<1>5. Aware(s)  BY <1>3, <1>4, ChatAware
<1> QED  BY <1>2, <1>4, <1>5, EnterStep DEF AddBegin

\* removeParticipant() begins.
LEMMA RemoveBeginStep ==
  ASSUME RoomsInv, NEW p \in Reqs, NEW u \in Users, NEW r \in Rooms, NEW v \in Users, RemoveBegin(p, u, r, v)
  PROVE  RoomsInv'
<1>1. PICK s : s = [Idle EXCEPT !.at = "remove", !.by = u, !.room = r, !.with = v]  OBVIOUS
<1>2. s \in ReqRecord
  <2> DEFINE a == [Idle EXCEPT !.at = "remove", !.by = u]
  <2>1. a \in ReqRecord  BY IdleRecord, FieldTypes DEF Stages
  <2>2. s = [a EXCEPT !.room = r, !.with = v]  BY <1>1
  <2> HIDE DEF a
  <2> QED  BY <2>1, <2>2, FieldTypes
<1>3. s.at = "remove" /\ s.by = u /\ s.room = r /\ s.with = v  BY <1>1 DEF Idle
<1>4. Live(r) /\ Enter(p, "remove", s) /\ "remove" \in mix.kinds  BY <1>1 DEF RemoveBegin, Enter
<1>5. Aware(s)  BY <1>3, <1>4, ChatAware
<1> QED  BY <1>2, <1>4, <1>5, EnterStep DEF RemoveBegin

\* toggleMuteChatRoom() and togglePinChatRoom() begin.
LEMMA ToggleBeginStep ==
  ASSUME RoomsInv, NEW p \in Reqs, NEW kind \in {"mute", "pin"}, NEW u \in Users, NEW r \in Rooms,
         ToggleBegin(p, kind, u, r)
  PROVE  RoomsInv'
<1> DEFINE b == IF kind = "mute" THEN ~member[r][u].mute ELSE ~member[r][u].pin
<1>1. Live(r) /\ u \in Members(r) /\ b \in BOOLEAN  BY DEF ToggleBegin
<1>2. PICK s : s = [Idle EXCEPT !.at = kind, !.by = u, !.room = r, !.flag = b]  OBVIOUS
<1>3. Enter(p, kind, s)  BY <1>2 DEF ToggleBegin
<1> HIDE DEF b
<1>4. s \in ReqRecord
  <2> DEFINE c == [Idle EXCEPT !.at = kind, !.by = u, !.room = r]
  <2>1. c \in ReqRecord  BY IdleRecord, FieldTypes DEF Stages
  <2>2. s = [c EXCEPT !.flag = b]  BY <1>2
  <2> HIDE DEF c
  <2> QED  BY <1>1, <2>1, <2>2, FieldTypes
<1>5. s.at = kind /\ s.by = u /\ s.room = r  BY <1>2 DEF Idle
<1>6. Aware(s)  BY <1>1, <1>5, ChatAware
<1> QED  BY <1>3, <1>4, <1>6, EnterStep DEF ToggleBegin

\* archiveChatRoom() begins.
LEMMA ArchiveBeginStep ==
  ASSUME RoomsInv, NEW p \in Reqs, NEW u \in Users, NEW r \in Rooms, NEW b \in BOOLEAN, ArchiveBegin(p, u, r, b)
  PROVE  RoomsInv'
<1>1. Live(r) /\ b \in BOOLEAN  BY DEF ArchiveBegin
<1>2. PICK s : s = [Idle EXCEPT !.at = "archive", !.by = u, !.room = r, !.flag = b]  OBVIOUS
<1>3. Enter(p, "archive", s)  BY <1>2 DEF ArchiveBegin
<1>4. s \in ReqRecord
  <2> DEFINE c == [Idle EXCEPT !.at = "archive", !.by = u, !.room = r]
  <2>1. c \in ReqRecord  BY IdleRecord, FieldTypes DEF Stages
  <2>2. s = [c EXCEPT !.flag = b]  BY <1>2
  <2> HIDE DEF c
  <2> QED  BY <1>1, <2>1, <2>2, FieldTypes
<1>5. s.at = "archive" /\ s.by = u /\ s.room = r  BY <1>2 DEF Idle
<1>6. Aware(s)  BY <1>1, <1>5, ChatAware
<1> QED  BY <1>3, <1>4, <1>6, EnterStep DEF ArchiveBegin

\* muteChatRooms() begins.
LEMMA MuteRoomsBeginStep ==
  ASSUME RoomsInv, NEW p \in Reqs, NEW u \in Users, NEW S \in SUBSET Rooms, NEW b \in BOOLEAN,
         MuteRoomsBegin(p, u, S, b)
  PROVE  RoomsInv'
<1>1. PICK s : s = [Idle EXCEPT !.at = "muteRooms", !.by = u, !.rooms = S, !.flag = b]  OBVIOUS
<1>2. s \in ReqRecord
  <2> DEFINE c == [Idle EXCEPT !.at = "muteRooms", !.by = u]
  <2>1. c \in ReqRecord  BY IdleRecord, FieldTypes DEF Stages
  <2>2. s = [c EXCEPT !.rooms = S, !.flag = b]  BY <1>1
  <2> HIDE DEF c
  <2> QED  BY <2>1, <2>2, FieldTypes
<1>3. s.at = "muteRooms" /\ s.by = u /\ s.room = NULL  BY <1>1 DEF Idle
<1>4. Aware(s)  BY <1>3, QuietAware
<1> QED  BY <1>1, <1>2, <1>4, EnterStep DEF MuteRoomsBegin

\* A request ends where it stands.
LEMMA FailStep ==
  ASSUME RoomsInv, NEW p \in Reqs, Fail(p)
  PROVE  RoomsInv'
<1>0. req[p].at # "idle" /\ {} \in SUBSET Rooms  BY DEF Fail
<1>1. PICK s \in {Idle, Rest(p, {})} : Becomes(p, s)  BY DEF Fail
<1>2. s \in ReqRecord /\ s.at \in {"idle", "bulk"} /\ s.room = NULL /\ (s.at # "idle" => s.by \in Users)
  BY <1>0, <1>1, RestRecord, IdleRecord
<1>3. Aware(s)  BY <1>2, QuietAware
<1>4. torn \subseteq torn' /\ torn' \subseteq Rooms
  BY DEF Fail, RoomsInv, TypeOK, Live
<1>5. req[p].at \in {"readAll", "drop"} /\ Live(req[p].room) => req[p].room \in torn'
  BY DEF Fail
<1>6. UNCHANGED <<room, member, created, mix>>  BY DEF Fail
<1> QED  BY <1>1, <1>2, <1>3, <1>4, <1>5, <1>6, RequestStep

-----------------------------------------------------------------------------
(* The steps that hide, show, add and remove members.                      *)

\* SetHidden sets isHidden of those of S who are members, and nothing else.
LEMMA HiddenRows ==
  ASSUME TypeOK, NEW r \in Rooms, NEW S \in SUBSET Users, NEW b \in BOOLEAN, SetHidden(r, S, b)
  PROVE  /\ member' \in [Rooms -> [Users -> MemberRecord \cup {NULL}]]
         /\ \A x \in Rooms : x # r => member'[x] = member[x]
         /\ \A u \in Users \ (S \cap Members(r)) : member'[r][u] = member[r][u]
         /\ \A u \in S \cap Members(r) : member'[r][u] # NULL /\ member'[r][u].isHidden = b
<1>0. member \in [Rooms -> [Users -> MemberRecord \cup {NULL}]]  BY StateTypes
<1> DEFINE f == [u \in Users |-> IF u \in S \cap Members(r) THEN [member[r][u] EXCEPT !.isHidden = b] ELSE member[r][u]]
<1>1. \A u \in S \cap Members(r) : /\ [member[r][u] EXCEPT !.isHidden = b] \in MemberRecord
                                   /\ [member[r][u] EXCEPT !.isHidden = b].isHidden = b
  <2>1. \A u \in S \cap Members(r) : member[r][u] \in MemberRecord  BY <1>0 DEF Members
  <2> QED  BY <2>1 DEF MemberRecord
<1>2. f \in [Users -> MemberRecord \cup {NULL}]  BY <1>0, <1>1
<1>3. member' = [member EXCEPT ![r] = f]  BY DEF SetHidden
<1>4. \A u \in S \cap Members(r) : f[u] # NULL /\ f[u].isHidden = b
  BY <1>1, RecordsAssumption DEF Members
<1>5. \A u \in Users \ (S \cap Members(r)) : f[u] = member[r][u]  OBVIOUS
<1> HIDE DEF f
<1>6. member' \in [Rooms -> [Users -> MemberRecord \cup {NULL}]]  BY <1>0, <1>2, <1>3
<1>7. member'[r] = f /\ \A x \in Rooms : x # r => member'[x] = member[x]  BY <1>0, <1>3
<1> QED  BY <1>4, <1>5, <1>6, <1>7

\* Who is a member, who hides the chat, and whom that spares.
LEMMA HiddenSets ==
  ASSUME TypeOK, NEW r \in Rooms, NEW S \in SUBSET Users, NEW b \in BOOLEAN, SetHidden(r, S, b)
  PROVE  /\ \A x \in Rooms : Members(x)' = Members(x) /\ Spares(x, IF x = r THEN S ELSE {})
         /\ \A x \in Rooms : x # r => HiddenBy(x)' = HiddenBy(x)
         /\ b = FALSE => HiddenBy(r)' = HiddenBy(r) \ S
<1>1. /\ \A x \in Rooms : x # r => member'[x] = member[x]
      /\ \A u \in Users \ (S \cap Members(r)) : member'[r][u] = member[r][u]
      /\ \A u \in S \cap Members(r) : member'[r][u] # NULL /\ member'[r][u].isHidden = b
  BY HiddenRows
<1>2. Members(r)' = Members(r) /\ Spares(r, S)  BY <1>1 DEF Members, Spares
<1>3. \A x \in Rooms : x # r => Members(x)' = Members(x) /\ Spares(x, {}) /\ HiddenBy(x)' = HiddenBy(x)
  BY <1>1 DEF Members, Spares, HiddenBy
<1>4. b = FALSE => HiddenBy(r)' = HiddenBy(r) \ S
  BY <1>1 DEF Members, HiddenBy
<1> QED  BY <1>2, <1>3, <1>4

\* The steps that set isHidden.
LEMMA HideStep ==
  ASSUME RoomsInv, NEW p \in Reqs, NEW s \in ReqRecord, NEW r \in Rooms, NEW S \in SUBSET Users, NEW b \in BOOLEAN,
         SetHidden(r, S, b), Moves(p, s, r, S), UNCHANGED <<room, created, torn, mix>>, Aware(s)',
         req[p].at \notin {"readAll", "drop"},
         b = TRUE => (Live(r) => Private(r)) /\ s.room = r /\ s.at = "readAll"
  PROVE  RoomsInv'
<1>0. TypeOK /\ \A x \in Rooms : RoomKept(x)  BY DEF RoomsInv
<1>1. /\ \A x \in Rooms : Members(x)' = Members(x) /\ Spares(x, IF x = r THEN S ELSE {})
      /\ \A x \in Rooms : x # r => HiddenBy(x)' = HiddenBy(x)
      /\ b = FALSE => HiddenBy(r)' = HiddenBy(r) \ S
  <2>0. TypeOK  BY <1>0
  <2> QED  BY ONLY <2>0, r \in Rooms, S \in SUBSET Users, b \in BOOLEAN, SetHidden(r, S, b), HiddenSets, ZenonT(30)
<1>a. member' \in [Rooms -> [Users -> MemberRecord \cup {NULL}]]
  BY <1>0, HiddenRows
<1>2. Grows
  <2>1. created \in 0..MaxRooms /\ created \in Nat  BY <1>0, StateTypes
  <2> QED  BY <2>1 DEF Grows
<1>3. \A x \in Rooms : (Live(x)' <=> Live(x)) /\ (Private(x)' <=> Private(x))  BY DEF Live, Private
<1>4. b = FALSE \/ b = TRUE  OBVIOUS
<1>5. ASSUME NEW x \in Rooms  PROVE RoomKept(x)' /\ Leaves(p, s, x)
  <2>1. CASE x # r
    BY <1>0, <1>1, <1>3, <2>1 DEF RoomKept, Leaves, AllHidden
  <2>2. CASE x = r /\ b = FALSE
    <3>1. HiddenBy(r)' \subseteq HiddenBy(r) /\ Members(r)' = Members(r)  BY <1>1, <2>2
    <3>2. HiddenBy(r) \subseteq Members(r)  BY DEF HiddenBy
    <3> QED  BY <1>0, <1>3, <2>2, <3>1, <3>2 DEF RoomKept, Leaves, AllHidden
  <2>3. CASE x = r /\ b = TRUE
    BY <1>0, <1>1, <1>3, <2>3 DEF RoomKept, Leaves
  <2> QED  BY <1>4, <2>1, <2>2, <2>3
<1>6. \A x \in 1..created : Spares(x, IF x = r THEN S ELSE {})
  <2>1. 1..created \subseteq Rooms  BY <1>0, StateTypes DEF Rooms
  <2> QED  BY <1>1, <2>1
<1>7. room' \in [Rooms -> RoomRecord \cup {NULL}] /\ torn' \subseteq Rooms  BY <1>0, StateTypes
<1>8. Steps(p, s, r, S)  BY DEF Steps
<1> QED  BY <1>a, <1>2, <1>5, <1>6, <1>7, <1>8, RowsStep

\* reopenDirectChat() in the transaction.
LEMMA OpenReopenTxStep ==
  ASSUME RoomsInv, NEW p \in Reqs, OpenReopenTx(p)
  PROVE  RoomsInv'
<1> DEFINE r == req[p].room
<1>0. req[p].at = "reopenTx" /\ r \in Rooms /\ Users \in SUBSET Users
  BY RequestTypes DEF OpenReopenTx, Aware, Known
<1>1. (IF Live(r) THEN {r} ELSE {}) \in SUBSET Rooms  BY <1>0
<1>2. PICK x \in Rooms : x = r  BY <1>0
<1>3. PICK s : Moves(p, s, x, Users) /\ s = Rest(p, IF Live(r) THEN {r} ELSE {})
  BY <1>2 DEF OpenReopenTx
<1>4. s \in ReqRecord /\ s.at \in {"idle", "bulk"} /\ s.room = NULL /\ (s.at # "idle" => s.by \in Users)
  BY <1>0, <1>1, <1>3, RestRecord
<1>5. Aware(s)'  BY <1>4, QuietAware
<1>6. SetHidden(x, Users, FALSE) /\ UNCHANGED <<room, created, torn, mix>>  BY <1>2 DEF OpenReopenTx
<1> QED  BY <1>0, <1>3, <1>4, <1>5, <1>6, HideStep

\* reopenDirectChat() outside of it.
LEMMA OpenReopenStep ==
  ASSUME RoomsInv, NEW p \in Reqs, OpenReopen(p)
  PROVE  RoomsInv'
<1> DEFINE r == req[p].room
<1>0. /\ req[p].at = "reopen" /\ r \in Rooms /\ Users \in SUBSET Users /\ req[p] \in ReqRecord
      /\ Aware(req[p]) /\ TypeOK
  BY RequestTypes DEF OpenReopen, Aware, Known, RoomsInv
<1>1. PICK x \in Rooms : x = r  BY <1>0
<1>2. PICK s : Moves(p, s, x, Users) /\ s = [req[p] EXCEPT !.at = "reload", !.moved = {}]
  BY <1>1 DEF OpenReopen
<1>3. s \in ReqRecord  BY <1>0, <1>2, FieldTypes DEF Stages
<1>4. s.at = "reload" /\ s.room = x /\ s.by = req[p].by /\ s.moved = {}
  BY <1>0, <1>1, <1>2 DEF ReqRecord
<1>5. SetHidden(x, Users, FALSE) /\ UNCHANGED <<room, created, torn, mix>>  BY <1>1 DEF OpenReopen
<1>6. HiddenBy(x)' = {}
  <2>1. HiddenBy(x)' = HiddenBy(x) \ Users  BY <1>0, <1>5, HiddenSets
  <2>2. HiddenBy(x) \subseteq Users  BY <1>0, RowTypes
  <2> QED  BY <2>1, <2>2
<1>7. s.by \in Users /\ x <= created  BY <1>0, <1>1, <1>4, StateTypes DEF Aware, Known, Finds
<1>8. Aware(s)'  BY <1>4, <1>5, <1>6, <1>7 DEF Aware, Known, Finds, Sees
<1> QED  BY <1>0, <1>2, <1>3, <1>5, <1>8, HideStep

\* unhideChatRoom() writes the row of a member.
LEMMA UnhideWriteStep ==
  ASSUME RoomsInv, NEW p \in Reqs, NEW v \in Users, UnhideWrite(p, v)
  PROVE  RoomsInv'
<1> DEFINE r == req[p].room
<1>0. /\ req[p].at = "unhide" /\ r \in Rooms /\ {v} \in SUBSET Users /\ req[p] \in ReqRecord
      /\ Aware(req[p]) /\ TypeOK /\ req[p].found \in SUBSET Users
  BY RequestTypes DEF UnhideWrite, Aware, Known, RoomsInv
<1>1. PICK x \in Rooms : x = r  BY <1>0
<1>2. PICK s : Moves(p, s, x, {v}) /\ s = [req[p] EXCEPT !.found = @ \ {v}]
  BY <1>1 DEF UnhideWrite
<1>3. req[p].found \ {v} \in SUBSET Users  BY <1>0
<1>4. s \in ReqRecord  BY <1>0, <1>2, <1>3, FieldTypes
<1>5. /\ s.at = "unhide" /\ s.room = x /\ s.by = req[p].by /\ s.left = req[p].left
      /\ s.found = req[p].found \ {v} /\ s.moved = req[p].moved
  BY <1>0, <1>1, <1>2 DEF ReqRecord
<1>6. SetHidden(x, {v}, FALSE) /\ UNCHANGED <<room, created, torn, mix>>  BY <1>1 DEF UnhideWrite
<1>7. HiddenBy(x)' \subseteq s.left \cup s.found \cup s.moved
  <2>1. HiddenBy(x)' = HiddenBy(x) \ {v}  BY <1>0, <1>6, HiddenSets
  <2>2. HiddenBy(x) \subseteq req[p].left \cup req[p].found \cup req[p].moved  BY <1>0, <1>1 DEF Aware, Sees
  <2> QED  BY <1>5, <2>1, <2>2
<1>8. s.by \in Users /\ x <= created  BY <1>0, <1>1, <1>5, StateTypes DEF Aware, Known, Finds
<1>9. Aware(s)'  BY <1>5, <1>6, <1>7, <1>8 DEF Aware, Known, Finds, Sees
<1> QED  BY <1>0, <1>2, <1>4, <1>6, <1>9, HideStep

\* deleteChatRoom() hides the chat.
LEMMA DeleteHideStep ==
  ASSUME RoomsInv, NEW p \in Reqs, DeleteHide(p)
  PROVE  RoomsInv'
<1> DEFINE r == req[p].room
<1>0. /\ req[p].at = "hide" /\ r \in Rooms /\ req[p] \in ReqRecord /\ Aware(req[p]) /\ req[p].by \in Users
      /\ TypeOK
  BY RequestTypes DEF DeleteHide, Aware, Known, RoomsInv
<1>1. PICK x \in Rooms : x = r  BY <1>0
<1>2. PICK S \in SUBSET Users : S = {req[p].by}  BY <1>0
<1>3. PICK s : Moves(p, s, x, S) /\ s = [req[p] EXCEPT !.at = "readAll"]
  BY <1>1, <1>2 DEF DeleteHide
<1>4. s \in ReqRecord  BY <1>0, <1>3, FieldTypes DEF Stages
<1>5. s.at = "readAll" /\ s.room = x /\ s.by = req[p].by  BY <1>0, <1>1, <1>3 DEF ReqRecord
<1>6. SetHidden(x, S, TRUE) /\ UNCHANGED <<room, created, torn, mix>>  BY <1>1, <1>2 DEF DeleteHide
<1>7. s.by \in Users /\ x <= created /\ (Live(x) => Private(x))
  BY <1>0, <1>1, <1>5, StateTypes DEF Aware, Known, Finds
<1>8. Aware(s)'  BY <1>5, <1>6, <1>7 DEF Aware, Known, Finds, Sees
<1> QED  BY <1>0, <1>3, <1>4, <1>5, <1>6, <1>7, <1>8, HideStep

\* addParticipants() creates a row.
LEMMA AddRowStep ==
  ASSUME RoomsInv, NEW p \in Reqs, NEW v \in Users, AddRow(p, v)
  PROVE  RoomsInv'
<1> DEFINE r == req[p].room
           t == IF req[p].left = {v} THEN Idle ELSE [req[p] EXCEPT !.left = @ \ {v}]
<1>0. /\ req[p].at = "add" /\ r \in Rooms /\ req[p] \in ReqRecord /\ Aware(req[p])
      /\ TypeOK /\ (\A x \in Rooms : RoomKept(x)) /\ req[p].left \in SUBSET Users
  BY RequestTypes DEF AddRow, Aware, Known, RoomsInv
<1>1. PICK s : s = t  OBVIOUS
<1>2. s \in ReqRecord /\ Aware(s)
  <2>1. CASE req[p].left = {v}
    BY <1>1, <2>1, IdleRecord, QuietAware
  <2>2. CASE req[p].left # {v}
    <3>1. s = [req[p] EXCEPT !.left = @ \ {v}]  BY <1>1, <2>2
    <3>2. req[p].left \ {v} \in SUBSET Users  BY <1>0
    <3>3. s \in ReqRecord  BY <1>0, <3>1, <3>2, FieldTypes
    <3>4. s.at = "add" /\ s.room = r /\ s.by = req[p].by  BY <1>0, <3>1 DEF ReqRecord
    <3>5. Aware(s)  BY <1>0, <3>4 DEF Aware, Known, Finds, Sees
    <3> QED  BY <3>3, <3>5
  <2> QED  BY <2>1, <2>2
<1>3. s.at \in {"idle", "add"}
  BY <1>0, <1>1, IdleRecord DEF ReqRecord
<1> HIDE DEF t
<1>4. UNCHANGED <<room, created, torn, mix>>  BY DEF AddRow
<1>5. CASE ~(Live(r) /\ v \notin Members(r))
  <2>1. Becomes(p, s) /\ member' = member  BY <1>1, <1>5 DEF AddRow, t
  <2> QED  BY <1>0, <1>2, <1>4, <2>1, OnwardStep
<1>6. CASE Live(r) /\ v \notin Members(r)
  <2>0. PICK x \in Rooms : x = r  BY <1>0
  <2>1. Moves(p, s, x, {v}) /\ member' = [member EXCEPT ![x][v] = Row]
    BY <1>1, <1>6, <2>0 DEF AddRow, t
  <2>2. member \in [Rooms -> [Users -> MemberRecord \cup {NULL}]]  BY <1>0, StateTypes
  <2>3. /\ member' \in [Rooms -> [Users -> MemberRecord \cup {NULL}]]
        /\ \A y \in Rooms : y # x => member'[y] = member[y]
        /\ \A u \in Users : u # v => member'[x][u] = member[x][u]
        /\ member'[x][v] = Row
    BY <2>1, <2>2, RowRecord
  <2>4. HiddenBy(x)' = HiddenBy(x) /\ Members(x)' = Members(x) \cup {v} /\ v \notin HiddenBy(x)' /\ Spares(x, {v})
    <3>1. v \notin Members(x)  BY <1>6, <2>0
    <3>2. HiddenBy(x)' = HiddenBy(x)  BY <2>3, <3>1, RowRecord DEF HiddenBy, Members
    <3>3. Members(x)' = Members(x) \cup {v}  BY <2>3, RowRecord DEF Members
    <3>4. v \notin HiddenBy(x)  BY <3>1 DEF HiddenBy
    <3>5. Spares(x, {v})  BY <2>3 DEF Spares
    <3> QED  BY <3>2, <3>3, <3>4, <3>5
  <2>5. \A y \in Rooms : y # x => HiddenBy(y)' = HiddenBy(y) /\ Members(y)' = Members(y) /\ Spares(y, {})
    BY <2>3 DEF HiddenBy, Members, Spares
  <2>6. Grows
    <3>1. created \in 0..MaxRooms /\ created \in Nat  BY <1>0, StateTypes
    <3> QED  BY <1>4, <3>1 DEF Grows
  <2>7. \A y \in Rooms : (Live(y)' <=> Live(y)) /\ (Private(y)' <=> Private(y))  BY <1>4 DEF Live, Private
  <2>8. Live(x) /\ room[x] # NULL  BY <1>6, <2>0 DEF Live
  <2>9. \A y \in Rooms : RoomKept(y)'
    BY <1>0, <1>4, <2>4, <2>5, <2>7, <2>8 DEF RoomKept
  <2>10. ASSUME NEW y \in Rooms  PROVE Leaves(p, s, y)
    <3>1. CASE y = x  BY <2>4, <3>1 DEF Leaves, AllHidden
    <3>2. CASE y # x  BY <1>0, <1>4, <2>5, <2>7, <3>2 DEF Leaves, AllHidden
    <3> QED  BY <3>1, <3>2
  <2>11. \A y \in 1..created : Spares(y, IF y = x THEN {v} ELSE {})
    <3>1. 1..created \subseteq Rooms  BY <1>0, StateTypes DEF Rooms
    <3> QED  BY <2>4, <2>5, <3>1
  <2>12. Aware(s)'
    BY <1>2, <1>3, <1>4 DEF Aware, Known, Finds, Sees, Live, Private
  <2>13. room' \in [Rooms -> RoomRecord \cup {NULL}] /\ torn' \subseteq Rooms /\ {v} \in SUBSET Users
    BY <1>0, <1>4, StateTypes
  <2>14. Steps(p, s, x, {v})  BY <2>1 DEF Steps
  <2> QED  BY <1>2, <2>3, <2>6, <2>9, <2>10, <2>11, <2>12, <2>13, <2>14, RowsStep
<1> QED  BY <1>5, <1>6

-----------------------------------------------------------------------------
(* The steps that create and delete chats.                                 *)

\* The chat that is created, and the others.
LEMMA NewRows ==
  ASSUME RoomsInv, NEW type \in {"DIRECT", "OFFER", "GROUP"}, NEW admin \in Users \cup {NULL},
         NEW S \in SUBSET Users, NewRoom(type, admin, S), UNCHANGED mix,
         NEW n, n = created + 1
  PROVE  /\ n \in Rooms /\ created' = n /\ n \in Nat /\ created < n
         /\ room' \in [Rooms -> RoomRecord \cup {NULL}] /\ room'[n] # NULL /\ room'[n].type = type
         /\ member' \in [Rooms -> [Users -> MemberRecord \cup {NULL}]]
         /\ \A x \in Rooms : x # n => room'[x] = room[x] /\ member'[x] = member[x]
         /\ Members(n)' = S /\ HiddenBy(n)' = {}
<1>0. /\ TypeOK /\ created \in 0..MaxRooms /\ created \in Nat
      /\ Rooms = 1..MaxRooms /\ MaxRooms \in Nat /\ mix.rooms \in 0..MaxRooms
      /\ room \in [Rooms -> RoomRecord \cup {NULL}]
      /\ member \in [Rooms -> [Users -> MemberRecord \cup {NULL}]]
  BY StateTypes DEF RoomsInv, Rooms
<1>2. n \in Rooms /\ created' = n /\ n \in Nat /\ created < n
  BY <1>0 DEF NewRoom
<1> DEFINE c == [type |-> type, adminId |-> admin, isArchived |-> FALSE]
           f == [u \in Users |-> IF u \in S THEN Row ELSE NULL]
<1>3. c \in RoomRecord /\ c # NULL /\ c.type = type
  <2>1. c \in RoomRecord  BY DEF RoomRecord
  <2> QED  BY <2>1, RecordsAssumption
<1>4. f \in [Users -> MemberRecord \cup {NULL}]  BY RowRecord
<1>5. room' = [room EXCEPT ![n] = c] /\ member' = [member EXCEPT ![n] = f]
  BY DEF NewRoom
<1>6. \A u \in Users : f[u] = IF u \in S THEN Row ELSE NULL  OBVIOUS
<1> HIDE DEF c, f
<1>7. /\ room' \in [Rooms -> RoomRecord \cup {NULL}] /\ room'[n] = c
      /\ \A x \in Rooms : x # n => room'[x] = room[x]
  BY <1>0, <1>2, <1>3, <1>5
<1>8. /\ member' \in [Rooms -> [Users -> MemberRecord \cup {NULL}]] /\ member'[n] = f
      /\ \A x \in Rooms : x # n => member'[x] = member[x]
  BY <1>0, <1>2, <1>4, <1>5
<1>9. Members(n)' = S /\ HiddenBy(n)' = {}
  <2>1. Members(n)' = S  BY <1>6, <1>8, RowRecord DEF Members
  <2>2. \A u \in S : member'[n][u].isHidden = FALSE  BY <1>6, <1>8, RowRecord
  <2> QED  BY <2>1, <2>2 DEF HiddenBy, Members
<1> QED  BY <1>2, <1>3, <1>7, <1>8, <1>9

\* A chat is created with its members, who show it.
LEMMA NewRoomStep ==
  ASSUME RoomsInv, NEW p \in Reqs, NEW s \in ReqRecord, Becomes(p, s), Aware(s),
         s.at \in {"idle", "bulk", "offer"}, req[p].at \notin {"readAll", "drop"},
         NEW type \in {"DIRECT", "OFFER", "GROUP"}, NEW admin \in Users \cup {NULL},
         NEW S \in SUBSET Users, S # {}, NewRoom(type, admin, S), UNCHANGED <<torn, mix>>
  PROVE  RoomsInv'
<1>0. /\ TypeOK /\ (\A x \in Rooms : RoomKept(x)) /\ created \in 0..MaxRooms /\ created \in Nat
      /\ Rooms = 1..MaxRooms /\ MaxRooms \in Nat
  BY StateTypes DEF RoomsInv, Rooms
<1>1. PICK n : n = created + 1  OBVIOUS
<1>2. /\ n \in Rooms /\ created' = n /\ n \in Nat /\ created < n
      /\ room' \in [Rooms -> RoomRecord \cup {NULL}] /\ room'[n] # NULL /\ room'[n].type = type
      /\ member' \in [Rooms -> [Users -> MemberRecord \cup {NULL}]]
      /\ \A x \in Rooms : x # n => room'[x] = room[x] /\ member'[x] = member[x]
      /\ Members(n)' = S /\ HiddenBy(n)' = {}
  <2>1. UNCHANGED mix  OBVIOUS
  <2>2. n \in Rooms /\ created' = n /\ n \in Nat /\ created < n  BY <1>1, <2>1, NewRows
  <2>3. room' \in [Rooms -> RoomRecord \cup {NULL}] /\ room'[n] # NULL /\ room'[n].type = type
    BY <1>1, <2>1, NewRows
  <2>4. member' \in [Rooms -> [Users -> MemberRecord \cup {NULL}]]  BY <1>1, <2>1, NewRows
  <2>5. \A x \in Rooms : x # n => room'[x] = room[x] /\ member'[x] = member[x]
    <3> SUFFICES ASSUME NEW x \in Rooms, x # n  PROVE room'[x] = room[x] /\ member'[x] = member[x]
      OBVIOUS
    <3> QED  BY ONLY RoomsInv, type \in {"DIRECT", "OFFER", "GROUP"}, admin \in Users \cup {NULL}, S \in SUBSET Users,
                     NewRoom(type, admin, S), x \in Rooms, x # n, <1>1, <2>1, NewRows
  <2>6. Members(n)' = S /\ HiddenBy(n)' = {}  BY <1>1, <2>1, NewRows
  <2> QED  BY <2>2, <2>3, <2>4, <2>5, <2>6
<1>10. \A x \in Rooms : x # n => Members(x)' = Members(x) /\ HiddenBy(x)' = HiddenBy(x)
  BY <1>2 DEF Members, HiddenBy
<1>11. \A x \in Rooms : x # n => (Live(x)' <=> Live(x)) /\ (Private(x)' <=> Private(x))
  BY <1>2 DEF Live, Private
<1>12. Grows
  <2>1. \A x \in 1..created : x \in Rooms /\ x # n  BY <1>0, <1>1
  <2>2. \A x \in 1..created : room'[x] = room[x]  BY <1>2, <2>1
  <2>3. created' \in 0..MaxRooms /\ created <= created'  BY <1>0, <1>2
  <2> QED  BY <2>2, <2>3 DEF Grows
<1>13. ASSUME NEW x \in Rooms  PROVE RoomKept(x)' /\ Leaves(p, s, x)
  <2>1. CASE x = n
    <3>1. RoomKept(n)'  BY <1>2 DEF RoomKept
    <3>2. Leaves(p, s, n)  BY <1>2 DEF Leaves, AllHidden
    <3> QED  BY <2>1, <3>1, <3>2
  <2>2. CASE x # n
    <3>1. created' < x => created < x  BY <1>0, <1>2
    <3>2. RoomKept(x)'  BY <1>0, <1>2, <1>10, <1>11, <2>2, <3>1 DEF RoomKept
    <3>3. Leaves(p, s, x)  BY <1>10, <1>11, <2>2 DEF Leaves, AllHidden
    <3> QED  BY <3>2, <3>3
  <2> QED  BY <2>1, <2>2
<1>14. \A x \in 1..created : Spares(x, IF x = NULL THEN {} ELSE {})
  <2>1. \A x \in 1..created : x \in Rooms /\ x # n  BY <1>0, <1>1
  <2> QED  BY <1>2, <2>1 DEF Spares
<1>15. Aware(s)'
  <2>1. Known(s)'  BY DEF Aware, Known
  <2>2. s.room # NULL => s.room <= created'
    <3> SUFFICES ASSUME s.room # NULL  PROVE s.room <= created'
      OBVIOUS
    <3>1. s.room \in Rooms /\ s.room <= created  BY DEF Aware, Finds, ReqRecord
    <3> QED  BY <1>0, <1>1, <1>2, <3>1
  <2> QED  BY <2>1, <2>2 DEF Aware, Finds, Sees
<1>16. torn' \subseteq Rooms /\ Steps(p, s, NULL, {})  BY <1>0, StateTypes DEF Steps
<1> QED  BY <1>2, <1>12, <1>13, <1>14, <1>15, <1>16, RowsStep

\* createChatRoom() inserts a DIRECT chat.
LEMMA OpenInsertStep ==
  ASSUME RoomsInv, NEW p \in Reqs, OpenInsert(p)
  PROVE  RoomsInv'
<1>0. req[p].at = "insert" /\ req[p].by \in Users /\ req[p].with \in Users
  BY RequestTypes DEF OpenInsert, Aware, Known
<1>1. PICK S \in SUBSET Users : S = {req[p].by, req[p].with}  BY <1>0
<1>2. {created + 1} \in SUBSET Rooms
  <2>1. created < mix.rooms  BY DEF OpenInsert, NewRoom
  <2> QED  BY <2>1, StateTypes DEF RoomsInv, Rooms
<1>3. PICK s : Becomes(p, s) /\ s = Rest(p, {created + 1})  BY DEF OpenInsert
<1>4. s \in ReqRecord /\ s.at \in {"idle", "bulk"} /\ s.room = NULL /\ (s.at # "idle" => s.by \in Users)
  BY <1>0, <1>2, <1>3, RestRecord
<1>5. Aware(s)  BY <1>4, QuietAware
<1>6. NewRoom("DIRECT", NULL, S) /\ S # {} /\ UNCHANGED <<torn, mix>>  BY <1>1 DEF OpenInsert
<1> QED  BY <1>0, <1>3, <1>4, <1>5, <1>6, NewRoomStep

\* A GROUP chat is created.
LEMMA CreateGroupStep ==
  ASSUME RoomsInv, NEW p \in Reqs, NEW u \in Users, NEW S \in SUBSET Users, CreateGroup(p, u, S)
  PROVE  RoomsInv'
<1>1. PICK s \in ReqRecord : s = req[p] /\ Aware(s)  BY RequestTypes
<1>2. Becomes(p, s)
  <2>1. req' = req /\ req \in [Reqs -> ReqRecord]  BY StateTypes DEF CreateGroup, RoomsInv
  <2> QED  BY <1>1, <2>1 DEF Becomes
<1>3. s.at = "idle" /\ req[p].at = "idle"  BY <1>1 DEF CreateGroup
<1>4. NewRoom("GROUP", u, S) /\ S # {} /\ UNCHANGED <<torn, mix>>  BY DEF CreateGroup
<1> QED  BY <1>1, <1>2, <1>3, <1>4, NewRoomStep

\* The chat of an offer is created.
LEMMA OfferNextStep ==
  ASSUME RoomsInv, NEW p \in Reqs, NEW v \in Users, OfferNext(p, v)
  PROVE  RoomsInv'
<1> DEFINE d == req[p].drivers \ {v}
<1>0. /\ req[p].at = "offer" /\ req[p].by \in Users /\ req[p] \in ReqRecord /\ Aware(req[p])
      /\ d \in SUBSET Users
  BY RequestTypes DEF OfferNext, Aware, Known
<1>1. PICK S \in SUBSET Users : S = {req[p].by, v}  BY <1>0
<1>2. PICK s : Becomes(p, s) /\ s = IF d = {} THEN Idle ELSE [req[p] EXCEPT !.drivers = d]
  BY DEF OfferNext
<1> HIDE DEF d
<1>3. s \in ReqRecord /\ s.at \in {"idle", "offer"} /\ Aware(s)
  <2>1. CASE d = {}  BY <1>2, <2>1, IdleRecord, QuietAware
  <2>2. CASE d # {}
    <3>1. s \in ReqRecord  BY <1>0, <1>2, <2>2, FieldTypes
    <3>2. s.at = "offer" /\ s.by = req[p].by /\ s.room = req[p].room  BY <1>0, <1>2, <2>2 DEF ReqRecord
    <3>3. Aware(s)  BY <1>0, <3>2 DEF Aware, Known, Finds, Sees
    <3> QED  BY <3>1, <3>2, <3>3
  <2> QED  BY <2>1, <2>2
<1>4. NewRoom("OFFER", NULL, S) /\ S # {} /\ UNCHANGED <<torn, mix>>  BY <1>1 DEF OfferNext
<1> QED  BY <1>0, <1>2, <1>3, <1>4, NewRoomStep

\* A step of a request that ends, which leaves chats and rows, or takes some away.
LEMMA EndStep ==
  ASSUME RoomsInv, NEW p \in Reqs, Becomes(p, Idle), UNCHANGED <<created, mix>>,
         room' \in [Rooms -> RoomRecord \cup {NULL}],
         member' \in [Rooms -> [Users -> MemberRecord \cup {NULL}]], torn' \subseteq Rooms,
         \A x \in Rooms : room'[x] = NULL \/ (room[x] # NULL /\ room'[x].type = room[x].type),
         \A x \in Rooms : Spares(x, {}), \A x \in Rooms : room'[x] = NULL => Members(x)' = {},
         \A x \in Rooms : Leaves(p, Idle, x)
  PROVE  RoomsInv'
<1>0. /\ TypeOK /\ (\A x \in Rooms : RoomKept(x)) /\ created \in 0..MaxRooms /\ created \in Nat
      /\ Rooms = 1..MaxRooms /\ MaxRooms \in Nat /\ 1..created \subseteq Rooms
  BY StateTypes DEF RoomsInv, Rooms
<1>1. Grows  BY <1>0 DEF Grows
<1>2. \A x \in 1..created : Spares(x, IF x = NULL THEN {} ELSE {})  BY <1>0
<1>3. Idle \in ReqRecord /\ Aware(Idle)'  BY IdleRecord, QuietAware
<1>4. ASSUME NEW x \in Rooms  PROVE RoomKept(x)'
  <2>1. created' < x => room'[x] = NULL  BY <1>0 DEF RoomKept
  <2>2. Live(x)' /\ ~Private(x)' => Live(x) /\ ~Private(x)  BY DEF Live, Private
  <2>3. HiddenBy(x)' \subseteq HiddenBy(x)  BY DEF HiddenBy, Members, Spares
  <2> QED  BY <1>0, <2>1, <2>2, <2>3 DEF RoomKept
<1>5. Steps(p, Idle, NULL, {})  BY DEF Steps
<1> QED  BY <1>1, <1>2, <1>3, <1>4, <1>5, RowsStep

\* deleteChatRoom() deletes the chat and its rows.
LEMMA DeleteDropStep ==
  ASSUME RoomsInv, NEW p \in Reqs, DeleteDrop(p)
  PROVE  RoomsInv'
<1>0. /\ TypeOK /\ (\A x \in Rooms : RoomKept(x))
      /\ room \in [Rooms -> RoomRecord \cup {NULL}]
      /\ member \in [Rooms -> [Users -> MemberRecord \cup {NULL}]]
  BY StateTypes DEF RoomsInv
<1>1. PICK r \in Rooms : r = req[p].room  BY DEF DeleteDrop, Live
<1>2. PICK f : f = [u \in Users |-> NULL]  OBVIOUS
<1>3. room' = [room EXCEPT ![r] = NULL] /\ member' = [member EXCEPT ![r] = f] /\ torn' = torn \ {r}
  BY <1>1, <1>2 DEF DeleteDrop, DeleteRoom
<1>4. f \in [Users -> MemberRecord \cup {NULL}] /\ \A u \in Users : f[u] = NULL  BY <1>2
<1>5. /\ room' \in [Rooms -> RoomRecord \cup {NULL}] /\ room'[r] = NULL
      /\ \A x \in Rooms : x # r => room'[x] = room[x]
  BY <1>0, <1>3
<1>6. /\ member' \in [Rooms -> [Users -> MemberRecord \cup {NULL}]] /\ member'[r] = f
      /\ \A x \in Rooms : x # r => member'[x] = member[x]
  BY <1>0, <1>3, <1>4
<1>7. Members(r)' = {}  BY <1>4, <1>6 DEF Members
<1>8. \A x \in Rooms : x # r => Members(x)' = Members(x) /\ HiddenBy(x)' = HiddenBy(x)
  BY <1>6 DEF Members, HiddenBy
<1>9. \A x \in Rooms : Spares(x, {})  BY <1>4, <1>6 DEF Spares
<1>10. ASSUME NEW x \in Rooms  PROVE Leaves(p, Idle, x)
  <2>1. CASE x = r  BY <1>5, <2>1 DEF Leaves, Live
  <2>2. CASE x # r
    BY <1>1, <1>3, <1>5, <1>8, <2>2 DEF Leaves, Live, Private, AllHidden
  <2> QED  BY <2>1, <2>2
<1>11. \A x \in Rooms : room'[x] = NULL => Members(x)' = {}
  BY <1>0, <1>5, <1>7, <1>8 DEF RoomKept
<1>12. torn' \subseteq Rooms /\ Becomes(p, Idle) /\ UNCHANGED <<created, mix>>
  BY <1>0, <1>3, StateTypes DEF DeleteDrop
<1>13. \A x \in Rooms : room'[x] = NULL \/ (room[x] # NULL /\ room'[x].type = room[x].type)
  BY <1>5
<1> QED  BY <1>5, <1>6, <1>9, <1>10, <1>11, <1>12, <1>13, EndStep

\* A row goes; a DIRECT or OFFER chat that loses one is torn.
LEMMA RowGoesStep ==
  ASSUME RoomsInv, NEW p \in Reqs, NEW r \in Rooms, NEW u \in Users, Becomes(p, Idle),
         member' = [member EXCEPT ![r][u] = NULL], UNCHANGED <<room, created, mix>>,
         torn \subseteq torn', torn' \subseteq Rooms, req[p].at \notin {"readAll", "drop"},
         Live(r) /\ Private(r) => r \in torn'
  PROVE  RoomsInv'
<1>0. /\ TypeOK /\ (\A x \in Rooms : RoomKept(x))
      /\ room \in [Rooms -> RoomRecord \cup {NULL}]
      /\ member \in [Rooms -> [Users -> MemberRecord \cup {NULL}]]
  BY StateTypes DEF RoomsInv
<1>1. /\ member' \in [Rooms -> [Users -> MemberRecord \cup {NULL}]]
      /\ \A x \in Rooms : x # r => member'[x] = member[x]
      /\ \A v \in Users : v # u => member'[r][v] = member[r][v]
      /\ member'[r][u] = NULL
  BY <1>0
<1>2. \A x \in Rooms : Members(x)' \subseteq Members(x)  BY <1>1 DEF Members
<1>3. \A x \in Rooms : x # r => Members(x)' = Members(x) /\ HiddenBy(x)' = HiddenBy(x)
  BY <1>1 DEF Members, HiddenBy
<1>4. \A x \in Rooms : Spares(x, {})
  <2>1. Spares(r, {})  BY <1>1 DEF Spares
  <2>2. \A x \in Rooms : x # r => Spares(x, {})  BY <1>1 DEF Spares
  <2> QED  BY <2>1, <2>2
<1>5. ASSUME NEW x \in Rooms  PROVE Leaves(p, Idle, x)
  <2>1. CASE x = r  BY <2>1 DEF Leaves, Live, Private
  <2>2. CASE x # r  BY <1>3, <2>2 DEF Leaves, Live, Private, AllHidden
  <2> QED  BY <2>1, <2>2
<1>6. \A x \in Rooms : room'[x] = NULL => Members(x)' = {}
  BY <1>0, <1>2 DEF RoomKept
<1>7. room' \in [Rooms -> RoomRecord \cup {NULL}]  BY <1>0
<1>8. \A x \in Rooms : room'[x] = NULL \/ (room[x] # NULL /\ room'[x].type = room[x].type)
  OBVIOUS
<1> QED  BY <1>1, <1>4, <1>5, <1>6, <1>7, <1>8, EndStep

\* A member of a GROUP leaves.
LEMMA DeleteLeaveStep ==
  ASSUME RoomsInv, NEW p \in Reqs, DeleteLeave(p)
  PROVE  RoomsInv'
<1>0. /\ req[p].at = "leave" /\ req[p].by \in Users /\ req[p].room \in Rooms /\ Aware(req[p])
      /\ torn \subseteq Rooms
  BY RequestTypes DEF DeleteLeave, Aware, Known, RoomsInv, TypeOK
<1>1. PICK r \in Rooms : r = req[p].room  BY <1>0
<1>2. PICK u \in Users : u = req[p].by  BY <1>0
<1>3. member' = [member EXCEPT ![r][u] = NULL] /\ Becomes(p, Idle) /\ UNCHANGED <<room, created, torn, mix>>
  BY <1>1, <1>2 DEF DeleteLeave
<1>4. Live(r) => ~Private(r)  BY <1>0, <1>1 DEF Aware, Finds
<1> QED  BY <1>0, <1>3, <1>4, RowGoesStep

\* removeParticipant() deletes a row.
LEMMA RemoveRowStep ==
  ASSUME RoomsInv, NEW p \in Reqs, RemoveRow(p)
  PROVE  RoomsInv'
<1>0. /\ req[p].at = "remove" /\ req[p].with \in Users /\ req[p].room \in Rooms
      /\ torn \subseteq Rooms
  BY RequestTypes DEF RemoveRow, Aware, Known, RoomsInv, TypeOK
<1>1. PICK r \in Rooms : r = req[p].room  BY <1>0
<1>2. PICK u \in Users : u = req[p].with  BY <1>0
<1>3. /\ member' = [member EXCEPT ![r][u] = NULL] /\ Becomes(p, Idle) /\ UNCHANGED <<room, created, mix>>
      /\ torn' = IF Private(r) THEN torn \cup {r} ELSE torn
  BY <1>1, <1>2 DEF RemoveRow
<1>4. torn \subseteq torn' /\ torn' \subseteq Rooms /\ (Private(r) => r \in torn')  BY <1>0, <1>3
<1> QED  BY <1>0, <1>3, <1>4, RowGoesStep

\* A step that writes settings of rows or chats: nobody joins, leaves, hides or shows a chat.
LEMMA SettingStep ==
  ASSUME RoomsInv, NEW p \in Reqs, Becomes(p, Idle), UNCHANGED <<created, torn, mix>>,
         req[p].at \notin {"readAll", "drop"},
         room' \in [Rooms -> RoomRecord \cup {NULL}],
         member' \in [Rooms -> [Users -> MemberRecord \cup {NULL}]],
         \A x \in Rooms : /\ room[x] = NULL <=> room'[x] = NULL
                          /\ room[x] # NULL => room'[x].type = room[x].type,
         \A x \in Rooms, v \in Users : /\ member[x][v] = NULL <=> member'[x][v] = NULL
                                       /\ member[x][v] # NULL => member'[x][v].isHidden = member[x][v].isHidden
  PROVE  RoomsInv'
<1>0. TypeOK /\ (\A x \in Rooms : RoomKept(x)) /\ torn \subseteq Rooms  BY StateTypes DEF RoomsInv
<1>1. \A x \in Rooms : Members(x)' = Members(x) /\ HiddenBy(x)' = HiddenBy(x)  BY DEF Members, HiddenBy
<1>2. \A x \in Rooms : (Live(x)' <=> Live(x)) /\ (Live(x) => (Private(x)' <=> Private(x)))  BY DEF Live, Private
<1>3. \A x \in Rooms : Spares(x, {})  BY DEF Spares
<1>4. \A x \in Rooms : Leaves(p, Idle, x)  BY <1>1, <1>2 DEF Leaves, AllHidden
<1>5. \A x \in Rooms : room'[x] = NULL => Members(x)' = {}  BY <1>0, <1>1 DEF RoomKept
<1>6. \A x \in Rooms : room'[x] = NULL \/ (room[x] # NULL /\ room'[x].type = room[x].type)
  OBVIOUS
<1> QED  BY <1>0, <1>3, <1>4, <1>5, <1>6, EndStep

\* The row of a member with another mute or pin.
LEMMA SetRow ==
  ASSUME NEW m \in MemberRecord, NEW b \in BOOLEAN
  PROVE  /\ [m EXCEPT !.mute = b] \in MemberRecord /\ [m EXCEPT !.mute = b].isHidden = m.isHidden
         /\ [m EXCEPT !.pin = b] \in MemberRecord /\ [m EXCEPT !.pin = b].isHidden = m.isHidden
BY DEF MemberRecord

\* toggleMuteChatRoom() and togglePinChatRoom() write.
LEMMA ToggleWriteStep ==
  ASSUME RoomsInv, NEW p \in Reqs, ToggleWrite(p)
  PROVE  RoomsInv'
<1>0. /\ req[p].at \in {"mute", "pin"} /\ req[p].by \in Users /\ req[p].room \in Rooms /\ req[p].flag \in BOOLEAN
      /\ TypeOK /\ room \in [Rooms -> RoomRecord \cup {NULL}]
      /\ member \in [Rooms -> [Users -> MemberRecord \cup {NULL}]]
  BY RequestTypes, StateTypes DEF ToggleWrite, Aware, Known, RoomsInv
<1>1. PICK r \in Rooms : r = req[p].room  BY <1>0
<1>2. PICK u \in Users : u = req[p].by  BY <1>0
<1>3. member[r][u] \in MemberRecord /\ member[r][u] # NULL
  BY <1>0, <1>1, <1>2 DEF ToggleWrite, Members
<1>4. PICK m : /\ member' = [member EXCEPT ![r][u] = m]
               /\ m = IF req[p].at = "mute" THEN [member[r][u] EXCEPT !.mute = req[p].flag]
                                            ELSE [member[r][u] EXCEPT !.pin = req[p].flag]
  BY <1>0, <1>1, <1>2 DEF ToggleWrite
<1>5. m \in MemberRecord /\ m.isHidden = member[r][u].isHidden  BY <1>0, <1>3, <1>4, SetRow
<1>6. m # NULL  BY <1>5, RecordsAssumption
<1>7. member' \in [Rooms -> [Users -> MemberRecord \cup {NULL}]]  BY <1>0, <1>4, <1>5
<1>8. /\ member'[r][u] = m
      /\ \A x \in Rooms, v \in Users : (x # r \/ v # u) => member'[x][v] = member[x][v]
  BY <1>0, <1>4
<1>9. \A x \in Rooms, v \in Users : /\ member[x][v] = NULL <=> member'[x][v] = NULL
                                    /\ member[x][v] # NULL => member'[x][v].isHidden = member[x][v].isHidden
  BY <1>3, <1>5, <1>6, <1>8
<1>10. Becomes(p, Idle) /\ UNCHANGED <<room, created, torn, mix>>  BY DEF ToggleWrite
<1> QED  BY <1>0, <1>7, <1>9, <1>10, SettingStep

\* muteChatRooms() writes.
LEMMA MuteRoomsWriteStep ==
  ASSUME RoomsInv, NEW p \in Reqs, MuteRoomsWrite(p)
  PROVE  RoomsInv'
<1>0. /\ req[p].at = "muteRooms" /\ req[p].by \in Users /\ req[p].flag \in BOOLEAN
      /\ TypeOK /\ room \in [Rooms -> RoomRecord \cup {NULL}]
      /\ member \in [Rooms -> [Users -> MemberRecord \cup {NULL}]]
  BY RequestTypes, StateTypes DEF MuteRoomsWrite, Aware, Known, RoomsInv
<1>2. PICK u \in Users : u = req[p].by  BY <1>0
<1>3. PICK T : T = ToMute(u, req[p].rooms, req[p].flag)  OBVIOUS
<1>4. \A x \in T : u \in Members(x)  BY <1>3 DEF ToMute
<1> DEFINE g(x) == [member[x] EXCEPT ![u] = [@ EXCEPT !.mute = req[p].flag]]
<1>5. member' = [x \in Rooms |-> IF x \in T THEN g(x) ELSE member[x]]
  BY <1>2, <1>3 DEF MuteRoomsWrite
<1>6. ASSUME NEW x \in Rooms, x \in T
      PROVE  /\ g(x) \in [Users -> MemberRecord \cup {NULL}]
             /\ \A v \in Users : /\ member[x][v] = NULL <=> g(x)[v] = NULL
                                 /\ member[x][v] # NULL => g(x)[v].isHidden = member[x][v].isHidden
  <2>1. member[x][u] \in MemberRecord /\ member[x][u] # NULL  BY <1>0, <1>4, <1>6 DEF Members
  <2>2. PICK m : m = [member[x][u] EXCEPT !.mute = req[p].flag]  OBVIOUS
  <2>3. m \in MemberRecord /\ m.isHidden = member[x][u].isHidden  BY <1>0, <2>1, <2>2, SetRow
  <2>4. m # NULL  BY <2>3, RecordsAssumption
  <2>5. g(x) = [member[x] EXCEPT ![u] = m]  BY <2>2
  <2>6. member[x] \in [Users -> MemberRecord \cup {NULL}]  BY <1>0
  <2> HIDE DEF g
  <2>7. /\ g(x) \in [Users -> MemberRecord \cup {NULL}] /\ g(x)[u] = m
        /\ \A v \in Users : v # u => g(x)[v] = member[x][v]
    BY <2>3, <2>5, <2>6
  <2> QED  BY <2>1, <2>3, <2>4, <2>7
<1> HIDE DEF g
<1>7. member' \in [Rooms -> [Users -> MemberRecord \cup {NULL}]]  BY <1>0, <1>5, <1>6
<1>8. \A x \in Rooms, v \in Users : /\ member[x][v] = NULL <=> member'[x][v] = NULL
                                    /\ member[x][v] # NULL => member'[x][v].isHidden = member[x][v].isHidden
  BY <1>5, <1>6
<1>9. Becomes(p, Idle) /\ UNCHANGED <<room, created, torn, mix>>  BY DEF MuteRoomsWrite
<1> QED  BY <1>0, <1>7, <1>8, <1>9, SettingStep

\* archiveChatRoom() writes.
LEMMA ArchiveWriteStep ==
  ASSUME RoomsInv, NEW p \in Reqs, ArchiveWrite(p)
  PROVE  RoomsInv'
<1>0. /\ req[p].at = "archive" /\ req[p].flag \in BOOLEAN
      /\ TypeOK /\ room \in [Rooms -> RoomRecord \cup {NULL}]
      /\ member \in [Rooms -> [Users -> MemberRecord \cup {NULL}]]
  BY RequestTypes, StateTypes DEF ArchiveWrite, RoomsInv
<1>1. PICK r \in Rooms : r = req[p].room /\ room[r] # NULL  BY DEF ArchiveWrite, Live
<1>2. PICK c : c = [room[r] EXCEPT !.isArchived = req[p].flag]  OBVIOUS
<1>3. c \in RoomRecord /\ c.type = room[r].type
  <2>1. room[r] \in RoomRecord  BY <1>0, <1>1
  <2> QED  BY <1>0, <1>2, <2>1 DEF RoomRecord
<1>4. c # NULL  BY <1>3, RecordsAssumption
<1>5. room' = [room EXCEPT ![r] = c]  BY <1>1, <1>2 DEF ArchiveWrite
<1>6. room' \in [Rooms -> RoomRecord \cup {NULL}] /\ room'[r] = c /\ \A x \in Rooms : x # r => room'[x] = room[x]
  BY <1>0, <1>3, <1>5
<1>7. Becomes(p, Idle) /\ UNCHANGED <<member, created, torn, mix>>  BY DEF ArchiveWrite
<1>8. \A x \in Rooms : /\ room[x] = NULL <=> room'[x] = NULL
                       /\ room[x] # NULL => room'[x].type = room[x].type
  BY <1>1, <1>3, <1>4, <1>6
<1> QED  BY <1>0, <1>6, <1>7, <1>8, SettingStep

-----------------------------------------------------------------------------
(* The first part of the invariant.                                        *)

\* A request that comes in keeps it.
LEMMA BeginRooms ==
  ASSUME RoomsInv, NEW p \in Reqs, Begin(p)
  PROVE  RoomsInv'
<1>0. mix.users \subseteq Users  BY StateTypes DEF RoomsInv
<1>1. CASE \E u, v \in mix.users : OpenBegin(p, u, v)
  BY <1>0, <1>1, OpenBeginStep
<1>2. CASE \E u \in mix.users, S \in SUBSET mix.users :
             CreateGroup(p, u, S) \/ OfferBegin(p, u, S) \/ \E b \in BOOLEAN : BulkBegin(p, u, S, b)
  <2>1. PICK u \in Users, S \in SUBSET Users :
               CreateGroup(p, u, S) \/ OfferBegin(p, u, S) \/ \E b \in BOOLEAN : BulkBegin(p, u, S, b)
    BY <1>0, <1>2
  <2> QED  BY <2>1, CreateGroupStep, OfferBeginStep, BulkBeginStep
<1>3. CASE \E u \in mix.users, r \in Rooms :
             \/ SendBegin(p, u, r) \/ DeleteBegin(p, u, r)
             \/ \E S \in SUBSET mix.users : AddBegin(p, u, r, S)
             \/ \E v \in mix.users : RemoveBegin(p, u, r, v)
             \/ \E kind \in {"mute", "pin"} : ToggleBegin(p, kind, u, r)
             \/ \E b \in BOOLEAN : ArchiveBegin(p, u, r, b)
  <2>1. PICK u \in Users, r \in Rooms :
               \/ SendBegin(p, u, r) \/ DeleteBegin(p, u, r)
               \/ \E S \in SUBSET Users : AddBegin(p, u, r, S)
               \/ \E v \in Users : RemoveBegin(p, u, r, v)
               \/ \E kind \in {"mute", "pin"} : ToggleBegin(p, kind, u, r)
               \/ \E b \in BOOLEAN : ArchiveBegin(p, u, r, b)
    BY <1>0, <1>3
  <2> QED  BY <2>1, SendBeginStep, DeleteBeginStep, AddBeginStep, RemoveBeginStep, ToggleBeginStep, ArchiveBeginStep
<1>4. CASE \E u \in mix.users, S \in SUBSET Rooms, b \in BOOLEAN : MuteRoomsBegin(p, u, S, b)
  BY <1>0, <1>4, MuteRoomsBeginStep
<1> QED  BY <1>1, <1>2, <1>3, <1>4 DEF Begin

\* A request that goes on keeps it.
LEMMA ProceedRooms ==
  ASSUME RoomsInv, NEW p \in Reqs, Proceed(p)
  PROVE  RoomsInv'
<1>1. CASE OpenFind(p) \/ OpenTxFind(p) \/ OpenInsert(p) \/ OpenReopenTx(p) \/ OpenReopen(p) \/ OpenReload(p)
  BY <1>1, OpenFindStep, OpenTxFindStep, OpenInsertStep, OpenReopenTxStep, OpenReopenStep, OpenReloadStep
<1>2. CASE \E v \in Users : BulkNext(p, v) \/ OfferNext(p, v) \/ AddRow(p, v) \/ UnhideRead(p, v) \/ UnhideWrite(p, v)
  BY <1>2, BulkNextStep, OfferNextStep, AddRowStep, UnhideReadStep, UnhideWriteStep
<1>3. CASE (\E r \in Rooms : BulkSend(p, r)) \/ Post(p)
  BY <1>3, BulkSendStep, PostStep
<1>4. CASE DeleteHide(p) \/ DeleteReadAll(p) \/ DeleteDrop(p) \/ DeleteLeave(p)
  BY <1>4, DeleteHideStep, DeleteReadAllStep, DeleteDropStep, DeleteLeaveStep
<1>5. CASE RemoveRow(p) \/ ToggleWrite(p) \/ MuteRoomsWrite(p) \/ ArchiveWrite(p) \/ Fail(p)
  BY <1>5, RemoveRowStep, ToggleWriteStep, MuteRoomsWriteStep, ArchiveWriteStep, FailStep
<1> QED  BY <1>1, <1>2, <1>3, <1>4, <1>5 DEF Proceed

\* Every step keeps it.
LEMMA NextRooms ==
  ASSUME RoomsInv, [Next]_vars
  PROVE  RoomsInv'
<1>1. CASE Next  BY <1>1, BeginRooms, ProceedRooms DEF Next
<1>2. CASE UNCHANGED vars
  BY <1>2 DEF vars, RoomsInv, TypeOK, Aware, Known, Finds, Sees, RoomKept, Goes, Live, Private, AllHidden,
              Members, HiddenBy
<1> QED  BY <1>1, <1>2

\* It holds at the start.
LEMMA InitRooms == Init => RoomsInv
<1> SUFFICES ASSUME Init  PROVE RoomsInv
  OBVIOUS
<1>1. \A p \in Reqs : req[p] = Idle  BY DEF Init
<1>2. \A p \in Reqs : Aware(req[p])  BY <1>1, IdleRecord, QuietAware
<1>3. TypeOK  BY IdleRecord, RoomsAssumption DEF Init, TypeOK
<1>4. \A r \in Rooms : room[r] = NULL /\ ~Live(r) /\ Members(r) = {}  BY DEF Init, Live, Members
<1> QED  BY <1>2, <1>3, <1>4 DEF RoomsInv, RoomKept, Goes

-----------------------------------------------------------------------------
(* The DIRECT chats of two users.                                          *)

\* Chats and requests of which the sizes are spoken of are finitely many.
LEMMA PairsFinite ==
  ASSUME NEW u, NEW v
  PROVE  /\ IsFiniteSet(Pair(u, v)) /\ Cardinality(Pair(u, v)) \in Nat
         /\ IsFiniteSet(Inserting(u, v)) /\ Cardinality(Inserting(u, v)) \in Nat
         /\ IsFiniteSet(Reqs) /\ Cardinality(Reqs) \in Nat
         /\ Cardinality(Inserting(u, v)) <= Cardinality(Reqs)
<1>1. IsFiniteSet(Rooms)  BY RoomsAssumption, FS_Interval DEF Rooms
<1>2. Pair(u, v) \in SUBSET Rooms /\ Inserting(u, v) \in SUBSET Reqs  BY DEF Pair, Inserting
<1>3. IsFiniteSet(Reqs)  BY FiniteAssumption
<1>4. IsFiniteSet(Pair(u, v)) /\ IsFiniteSet(Inserting(u, v)) /\ Cardinality(Inserting(u, v)) <= Cardinality(Reqs)
  BY <1>1, <1>2, <1>3, FS_Subset
<1> QED  BY <1>3, <1>4, FS_CardinalityType

\* The same after a step.
LEMMA PairsFinite2 ==
  ASSUME NEW u, NEW v
  PROVE  /\ IsFiniteSet(Pair(u, v)') /\ Cardinality(Pair(u, v)') \in Nat
         /\ IsFiniteSet(Inserting(u, v)') /\ Cardinality(Inserting(u, v)') \in Nat
         /\ Cardinality(Inserting(u, v)') <= Cardinality(Reqs)
<1>1. IsFiniteSet(Rooms)  BY RoomsAssumption, FS_Interval DEF Rooms
<1>2. Pair(u, v)' \in SUBSET Rooms /\ Inserting(u, v)' \in SUBSET Reqs  BY DEF Pair, Inserting
<1>3. IsFiniteSet(Reqs)  BY FiniteAssumption
<1>4. IsFiniteSet(Pair(u, v)') /\ IsFiniteSet(Inserting(u, v)') /\ Cardinality(Inserting(u, v)') <= Cardinality(Reqs)
  BY <1>1, <1>2, <1>3, FS_Subset
<1> QED  BY <1>3, <1>4, FS_CardinalityType

\* What a step does to the chats of two users and to the requests about to insert one: nobody
\* new; or there is no such chat, so that a request may have come to insert one; or one of those
\* requests has inserted a chat.
PairsSteps(u, v) ==
  \/ Pair(u, v)' \subseteq Pair(u, v) /\ Inserting(u, v)' \subseteq Inserting(u, v)
  \/ Pair(u, v)' = {}
  \/ \E p \in Inserting(u, v) : \E n : Pair(u, v)' \subseteq Pair(u, v) \cup {n} /\ Inserting(u, v)' \subseteq Inserting(u, v) \ {p}

\* Such a step keeps their number.
LEMMA PairsNumber ==
  ASSUME NEW u, NEW v, PairsKept(u, v), mix' = mix,
         mix.kinds \cap {"add", "remove"} = {} => PairsSteps(u, v)
  PROVE  PairsKept(u, v)'
<1> SUFFICES ASSUME mix.kinds \cap {"add", "remove"} = {}
             PROVE  Cardinality(Pair(u, v)') + Cardinality(Inserting(u, v)') <= Cardinality(Reqs)
  BY DEF PairsKept
<1> DEFINE P == Pair(u, v)
           Q == Pair(u, v)'
           I == Inserting(u, v)
           J == Inserting(u, v)'
<1>0. /\ IsFiniteSet(P) /\ Cardinality(P) \in Nat /\ IsFiniteSet(I) /\ Cardinality(I) \in Nat
      /\ IsFiniteSet(Q) /\ Cardinality(Q) \in Nat /\ IsFiniteSet(J) /\ Cardinality(J) \in Nat
      /\ Cardinality(Reqs) \in Nat /\ Cardinality(J) <= Cardinality(Reqs)
      /\ Cardinality(P) + Cardinality(I) <= Cardinality(Reqs)
  BY PairsFinite, PairsFinite2 DEF PairsKept
<1>1. \/ Q \subseteq P /\ J \subseteq I
      \/ Q = {}
      \/ \E p \in I : \E n : Q \subseteq P \cup {n} /\ J \subseteq I \ {p}
  BY DEF PairsSteps
<1> HIDE DEF P, Q, I, J
<1>2. CASE Q \subseteq P /\ J \subseteq I
  <2>1. Cardinality(Q) <= Cardinality(P) /\ Cardinality(J) <= Cardinality(I)
    BY <1>0, <1>2, FS_Subset
  <2> QED  BY <1>0, <2>1 DEF Q, J
<1>3. CASE Q = {}
  <2>1. Cardinality(Q) = 0  BY <1>3, FS_EmptySet
  <2> QED  BY <1>0, <2>1 DEF Q, J
<1>4. CASE \E p \in I : \E n : Q \subseteq P \cup {n} /\ J \subseteq I \ {p}
  <2>0. PICK p \in I : \E m : Q \subseteq P \cup {m} /\ J \subseteq I \ {p}  BY <1>4
  <2>1. PICK n : Q \subseteq P \cup {n} /\ J \subseteq I \ {p}  BY <2>0
  <2>2. IsFiniteSet(P \cup {n}) /\ Cardinality(P \cup {n}) <= Cardinality(P) + 1
    <3>1. IsFiniteSet(P) /\ Cardinality(P) \in Nat  BY <1>0
    <3>2. IsFiniteSet(P \cup {n}) /\ Cardinality(P \cup {n}) \in {Cardinality(P), Cardinality(P) + 1}
      BY <3>1, FS_AddElement
    <3> QED  BY <3>1, <3>2
  <2>3. IsFiniteSet(I \ {p}) /\ Cardinality(I \ {p}) = Cardinality(I) - 1
    BY <1>0, <2>0, FS_RemoveElement
  <2>4. Cardinality(Q) <= Cardinality(P \cup {n}) /\ Cardinality(P \cup {n}) \in Nat
    BY <2>1, <2>2, FS_Subset, FS_CardinalityType
  <2>5. Cardinality(J) <= Cardinality(I \ {p}) /\ Cardinality(I \ {p}) \in Nat
    BY <2>1, <2>3, FS_Subset, FS_CardinalityType
  <2> QED  BY <1>0, <2>2, <2>3, <2>4, <2>5 DEF Q, J
<1> QED  BY <1>1, <1>2, <1>3, <1>4

\* A step after which each DIRECT chat was one before, of the same users, and request p, unless it
\* was so before, is not about to insert one.
LEMMA PairsStay ==
  ASSUME NEW p \in Reqs, NEW u, NEW v,
         \A x \in Rooms : Live(x)' /\ room'[x].type = "DIRECT" =>
           Live(x) /\ room[x].type = "DIRECT" /\ Members(x)' = Members(x),
         \A q \in Reqs : q # p /\ req'[q].at = "insert" =>
           req[q].at = "insert" /\ req'[q].by = req[q].by /\ req'[q].with = req[q].with,
         req'[p].at = "insert" => req'[p] = req[p]
  PROVE  PairsSteps(u, v)
<1>1. Pair(u, v)' \subseteq Pair(u, v)  BY DEF Pair
<1>2. Inserting(u, v)' \subseteq Inserting(u, v)  BY DEF Inserting
<1> QED  BY <1>1, <1>2 DEF PairsSteps

\* What becomes of the slots, in any step of a request.
LEMMA Slots ==
  ASSUME RoomsInv, NEW p \in Reqs, NEW s, NEW r, NEW S \in SUBSET Users, Steps(p, s, r, S)
  PROVE  /\ req'[p] = s
         /\ \A q \in Reqs : q # p => req'[q].at = req[q].at /\ req'[q].by = req[q].by /\ req'[q].with = req[q].with
<1>0. req \in [Reqs -> ReqRecord]  BY DEF RoomsInv, TypeOK
<1>1. CASE Moves(p, s, r, S)
  <2>1. req'[p] = s  BY <1>1 DEF Moves
  <2>2. ASSUME NEW q \in Reqs, q # p
        PROVE  req'[q].at = req[q].at /\ req'[q].by = req[q].by /\ req'[q].with = req[q].with
    <3>1. req'[q] \in {req[q], [req[q] EXCEPT !.moved = @ \cup S]}  BY <1>1, <2>2 DEF Moves
    <3>2. req[q] \in ReqRecord  BY <1>0
    <3> QED  BY <3>1, <3>2 DEF ReqRecord
  <2> QED  BY <2>1, <2>2
<1>2. CASE Becomes(p, s)  BY <1>0, <1>2 DEF Becomes
<1> QED  BY <1>1, <1>2 DEF Steps

\* Steps that leave the chats and their members.
LEMMA PairsReqs ==
  ASSUME RoomsInv, NEW p \in Reqs, NEW s, Becomes(p, s), UNCHANGED <<room, member>>, s.at # "insert",
         NEW u, NEW v
  PROVE  PairsSteps(u, v)
<1>1. Steps(p, s, NULL, {})  BY DEF Steps
<1>2. /\ req'[p] = s
      /\ \A q \in Reqs : q # p => req'[q].at = req[q].at /\ req'[q].by = req[q].by /\ req'[q].with = req[q].with
  BY <1>1, Slots
<1>3. \A x \in Rooms : (Live(x)' <=> Live(x)) /\ Members(x)' = Members(x)  BY DEF Live, Members
<1> QED  BY <1>2, <1>3, PairsStay

\* A request that comes in and only reads.
LEMMA EnterPairs ==
  ASSUME RoomsInv, NEW p \in Reqs, NEW kind, NEW s, Enter(p, kind, s), UNCHANGED <<room, member, created, torn, mix>>,
         s.at # "insert", NEW u, NEW v
  PROVE  PairsSteps(u, v)
BY PairsReqs DEF Enter, Becomes

\* None of the requests that come in is about to insert a DIRECT chat.
LEMMA BeginPairs ==
  ASSUME RoomsInv, NEW p \in Reqs, Begin(p), NEW u, NEW v
  PROVE  PairsSteps(u, v)
<1>0. mix.users \subseteq Users  BY StateTypes DEF RoomsInv
<1>1. ASSUME NEW x \in Users, NEW y \in Users, OpenBegin(p, x, y)  PROVE PairsSteps(u, v)
  <2>1. PICK s : s = [Idle EXCEPT !.at = "find", !.by = x, !.with = y]  OBVIOUS
  <2>2. s.at = "find"  BY <2>1 DEF Idle
  <2> QED  BY <1>1, <2>1, <2>2, EnterPairs DEF OpenBegin
<1>2. ASSUME NEW x \in Users, NEW S \in SUBSET Users, CreateGroup(p, x, S)  PROVE PairsSteps(u, v)
  <2>1. PICK n : n = created + 1  OBVIOUS
  <2>2. NewRoom("GROUP", x, S) /\ UNCHANGED mix /\ req' = req  BY <1>2 DEF CreateGroup
  <2>3. /\ room'[n].type = "GROUP"
        /\ \A y \in Rooms : y # n => room'[y] = room[y] /\ member'[y] = member[y]
    BY <2>1, <2>2, NewRows
  <2>4. \A y \in Rooms : y # n => (Live(y)' <=> Live(y)) /\ Members(y)' = Members(y)  BY <2>3 DEF Live, Members
  <2> QED  BY <2>2, <2>3, <2>4, PairsStay
<1>3. ASSUME NEW x \in Users, NEW S \in SUBSET Users, OfferBegin(p, x, S)  PROVE PairsSteps(u, v)
  <2>1. PICK s : s = [Idle EXCEPT !.at = "offer", !.by = x, !.drivers = S]  OBVIOUS
  <2>2. s.at = "offer"  BY <2>1 DEF Idle
  <2> QED  BY <1>3, <2>1, <2>2, EnterPairs DEF OfferBegin
<1>4. ASSUME NEW x \in Users, NEW S \in SUBSET Users, NEW b \in BOOLEAN, BulkBegin(p, x, S, b)  PROVE PairsSteps(u, v)
  <2>1. PICK s : s = [Idle EXCEPT !.at = "bulk", !.by = x, !.drivers = S, !.bulk = TRUE, !.says = b]  OBVIOUS
  <2>2. s.at = "bulk"  BY <2>1 DEF Idle
  <2> QED  BY <1>4, <2>1, <2>2, EnterPairs DEF BulkBegin
<1>5. ASSUME NEW x \in Users, NEW r \in Rooms, SendBegin(p, x, r)  PROVE PairsSteps(u, v)
  <2>1. PICK s : s = Context(p, x, r, Idle)  OBVIOUS
  <2>2. s.at = "unhide"  BY <1>5, <2>1, ContextRecord, IdleRecord DEF SendBegin
  <2> QED  BY <1>5, <2>1, <2>2, EnterPairs DEF SendBegin
<1>6. ASSUME NEW x \in Users, NEW r \in Rooms, DeleteBegin(p, x, r)  PROVE PairsSteps(u, v)
  <2> DEFINE a == IF Private(r) THEN "hide" ELSE IF room[r].adminId = x THEN "drop" ELSE "leave"
  <2>1. PICK s : s = [Idle EXCEPT !.by = x, !.room = r, !.at = a]  OBVIOUS
  <2>2. Enter(p, "delete", s) /\ a # "insert"  BY <1>6, <2>1 DEF DeleteBegin
  <2> HIDE DEF a
  <2>3. s.at = a  BY <2>1 DEF Idle
  <2> QED  BY <1>6, <2>2, <2>3, EnterPairs DEF DeleteBegin
<1>7. ASSUME NEW x \in Users, NEW r \in Rooms, NEW S \in SUBSET Users, AddBegin(p, x, r, S)  PROVE PairsSteps(u, v)
  <2>1. PICK s : s = [Idle EXCEPT !.at = "add", !.by = x, !.room = r, !.left = S]  OBVIOUS
  <2>2. s.at = "add"  BY <2>1 DEF Idle
  <2> QED  BY <1>7, <2>1, <2>2, EnterPairs DEF AddBegin
<1>8. ASSUME NEW x \in Users, NEW r \in Rooms, NEW y \in Users, RemoveBegin(p, x, r, y)  PROVE PairsSteps(u, v)
  <2>1. PICK s : s = [Idle EXCEPT !.at = "remove", !.by = x, !.room = r, !.with = y]  OBVIOUS
  <2>2. s.at = "remove"  BY <2>1 DEF Idle
  <2> QED  BY <1>8, <2>1, <2>2, EnterPairs DEF RemoveBegin
<1>9. ASSUME NEW x \in Users, NEW r \in Rooms, NEW kind \in {"mute", "pin"}, ToggleBegin(p, kind, x, r)
      PROVE  PairsSteps(u, v)
  <2> DEFINE b == IF kind = "mute" THEN ~member[r][x].mute ELSE ~member[r][x].pin
  <2>1. PICK s : s = [Idle EXCEPT !.at = kind, !.by = x, !.room = r, !.flag = b]  OBVIOUS
  <2>2. Enter(p, kind, s)  BY <1>9, <2>1 DEF ToggleBegin
  <2> HIDE DEF b
  <2>3. s.at = kind  BY <2>1 DEF Idle
  <2> QED  BY <1>9, <2>2, <2>3, EnterPairs DEF ToggleBegin
<1>10. ASSUME NEW x \in Users, NEW r \in Rooms, NEW b \in BOOLEAN, ArchiveBegin(p, x, r, b)  PROVE PairsSteps(u, v)
  <2>1. PICK s : s = [Idle EXCEPT !.at = "archive", !.by = x, !.room = r, !.flag = b]  OBVIOUS
  <2>2. s.at = "archive"  BY <2>1 DEF Idle
  <2> QED  BY <1>10, <2>1, <2>2, EnterPairs DEF ArchiveBegin
<1>11. ASSUME NEW x \in Users, NEW S \in SUBSET Rooms, NEW b \in BOOLEAN, MuteRoomsBegin(p, x, S, b)
       PROVE  PairsSteps(u, v)
  <2>1. PICK s : s = [Idle EXCEPT !.at = "muteRooms", !.by = x, !.rooms = S, !.flag = b]  OBVIOUS
  <2>2. s.at = "muteRooms"  BY <2>1 DEF Idle
  <2> QED  BY <1>11, <2>1, <2>2, EnterPairs DEF MuteRoomsBegin
<1>12. CASE \E x, y \in mix.users : OpenBegin(p, x, y)  BY <1>0, <1>1, <1>12
<1>13. CASE \E x \in mix.users, S \in SUBSET mix.users :
              CreateGroup(p, x, S) \/ OfferBegin(p, x, S) \/ \E b \in BOOLEAN : BulkBegin(p, x, S, b)
  <2>1. PICK x \in Users, S \in SUBSET Users :
              CreateGroup(p, x, S) \/ OfferBegin(p, x, S) \/ \E b \in BOOLEAN : BulkBegin(p, x, S, b)
    BY <1>0, <1>13
  <2> QED  BY <1>2, <1>3, <1>4, <2>1
<1>14. CASE \E x \in mix.users, r \in Rooms :
              \/ SendBegin(p, x, r) \/ DeleteBegin(p, x, r)
              \/ \E S \in SUBSET mix.users : AddBegin(p, x, r, S)
              \/ \E y \in mix.users : RemoveBegin(p, x, r, y)
              \/ \E kind \in {"mute", "pin"} : ToggleBegin(p, kind, x, r)
              \/ \E b \in BOOLEAN : ArchiveBegin(p, x, r, b)
  <2>1. PICK x \in Users, r \in Rooms :
              \/ SendBegin(p, x, r) \/ DeleteBegin(p, x, r)
              \/ \E S \in SUBSET Users : AddBegin(p, x, r, S)
              \/ \E y \in Users : RemoveBegin(p, x, r, y)
              \/ \E kind \in {"mute", "pin"} : ToggleBegin(p, kind, x, r)
              \/ \E b \in BOOLEAN : ArchiveBegin(p, x, r, b)
    BY <1>0, <1>14
  <2> QED  BY <1>5, <1>6, <1>7, <1>8, <1>9, <1>10, <2>1
<1>15. CASE \E x \in mix.users, S \in SUBSET Rooms, b \in BOOLEAN : MuteRoomsBegin(p, x, S, b)
  BY <1>0, <1>11, <1>15
<1> QED  BY <1>12, <1>13, <1>14, <1>15 DEF Begin

\* A step that leaves the types of the chats and who is a member.
LEMMA PairsRows ==
  ASSUME RoomsInv, NEW p \in Reqs, NEW s, NEW r, NEW S \in SUBSET Users, Steps(p, s, r, S), s.at # "insert",
         \A x \in Rooms : Live(x)' /\ room'[x].type = "DIRECT" =>
           Live(x) /\ room[x].type = "DIRECT" /\ Members(x)' = Members(x),
         NEW u, NEW v
  PROVE  PairsSteps(u, v)
<1>1. /\ req'[p] = s
      /\ \A q \in Reqs : q # p => req'[q].at = req[q].at /\ req'[q].by = req[q].by /\ req'[q].with = req[q].with
  BY Slots
<1> QED  BY <1>1, PairsStay

\* The steps of createChatRoom() and of bulk requests, but for the two that matter.
LEMMA OpenPairs ==
  ASSUME RoomsInv, NEW p \in Reqs, NEW u, NEW v,
         OpenFind(p) \/ OpenReload(p) \/ Post(p) \/ Fail(p)
           \/ (\E y \in Users : BulkNext(p, y)) \/ (\E y \in Users : UnhideRead(p, y)) \/ (\E r \in Rooms : BulkSend(p, r))
  PROVE  PairsSteps(u, v)
<1>0. req[p] \in ReqRecord /\ Aware(req[p]) /\ TypeOK  BY RequestTypes DEF RoomsInv
<1>1. CASE OpenFind(p)
  <2>1. PICK s \in {[req[p] EXCEPT !.at = "txFind"],
                    [req[p] EXCEPT !.at = "reopen", !.room = FindDirect(req[p].by, req[p].with)]} : Becomes(p, s)
    BY <1>1 DEF OpenFind
  <2>2. s.at # "insert"  BY <1>0, <2>1 DEF ReqRecord
  <2> QED  BY <1>1, <2>1, <2>2, PairsReqs DEF OpenFind
<1>2. CASE OpenReload(p)
  <2>1. (IF Live(req[p].room) THEN {req[p].room} ELSE {}) \in SUBSET Rooms  BY DEF Live
  <2>2. PICK s : Becomes(p, s) /\ s = Rest(p, IF Live(req[p].room) THEN {req[p].room} ELSE {})
    BY <1>2 DEF OpenReload
  <2>3. req[p].at # "idle"  BY <1>2 DEF OpenReload
  <2>4. s.at \in {"idle", "bulk"}  BY <2>1, <2>2, <2>3, RestRecord
  <2> QED  BY <1>2, <2>2, <2>4, PairsReqs DEF OpenReload
<1>3. CASE Post(p) \/ Fail(p)
  <2>1. PICK s \in {Idle, Rest(p, {})} : Becomes(p, s)  BY <1>3 DEF Post, Fail
  <2>2. req[p].at # "idle" /\ {} \in SUBSET Rooms  BY <1>3 DEF Post, Fail
  <2>3. s.at \in {"idle", "bulk"}  BY <2>1, <2>2, RestRecord, IdleRecord
  <2> QED  BY <1>3, <2>1, <2>3, PairsReqs DEF Post, Fail
<1>4. CASE \E y \in Users : BulkNext(p, y)
  <2>1. PICK y \in Users : BulkNext(p, y)  BY <1>4
  <2> DEFINE r == FindDirect(req[p].by, y)
             t == [req[p] EXCEPT !.drivers = @ \ {y}]
  <2>2. req[p].at = "bulk"  BY <2>1 DEF BulkNext
  <2>3. t.at = "bulk" /\ t \in ReqRecord
    <3>1. req[p].drivers \ {y} \in SUBSET Users  BY <1>0 DEF ReqRecord
    <3>2. t \in ReqRecord  BY <1>0, <3>1, FieldTypes
    <3> QED  BY <1>0, <2>2, <3>2 DEF ReqRecord
  <2>4. PICK s \in {[t EXCEPT !.at = "find", !.with = y], [t EXCEPT !.rooms = @ \cup {r}], Idle, t} : Becomes(p, s)
    BY <2>1 DEF BulkNext
  <2> HIDE DEF r, t
  <2>5. s.at # "insert"  BY <2>3, <2>4, IdleRecord DEF ReqRecord
  <2> QED  BY <2>1, <2>4, <2>5, PairsReqs DEF BulkNext
<1>5. CASE \E y \in Users : UnhideRead(p, y)
  <2>1. PICK y \in Users : UnhideRead(p, y)  BY <1>5
  <2> DEFINE f == IF y \in HiddenBy(req[p].room) THEN req[p].found \cup {y} ELSE req[p].found
  <2>2. PICK s : Becomes(p, s) /\ s = [req[p] EXCEPT !.left = @ \ {y}, !.found = f]
    BY <2>1 DEF UnhideRead
  <2> HIDE DEF f
  <2>3. s.at = "unhide"  BY <1>0, <2>1, <2>2 DEF UnhideRead, ReqRecord
  <2> QED  BY <2>1, <2>2, <2>3, PairsReqs DEF UnhideRead
<1>6. CASE \E r \in Rooms : BulkSend(p, r)
  <2>1. PICK r \in Rooms : BulkSend(p, r)  BY <1>6
  <2> DEFINE t == [req[p] EXCEPT !.rooms = @ \ {r}]
  <2>2. req[p].at = "bulk" /\ req[p].by \in Users  BY <1>0, <2>1 DEF BulkSend, Aware, Known
  <2>3. t.at = "bulk" /\ t \in ReqRecord
    <3>1. req[p].rooms \ {r} \in SUBSET Rooms  BY <1>0 DEF ReqRecord
    <3>2. t \in ReqRecord  BY <1>0, <3>1, FieldTypes
    <3> QED  BY <1>0, <2>2, <3>2 DEF ReqRecord
  <2>4. PICK s : /\ Becomes(p, s)
                 /\ s = IF Live(r) /\ req[p].by \in Members(r) THEN Context(p, req[p].by, r, t)
                        ELSE IF t.rooms = {} THEN Idle ELSE t
    BY <2>1 DEF BulkSend
  <2> HIDE DEF t
  <2>5. s.at # "insert"  BY <2>2, <2>3, <2>4, ContextRecord, IdleRecord
  <2> QED  BY <2>1, <2>4, <2>5, PairsReqs DEF BulkSend
<1> QED  BY <1>1, <1>2, <1>3, <1>4, <1>5, <1>6

\* A request comes to insert a chat only when there is none.
LEMMA OpenTxFindPairs ==
  ASSUME RoomsInv, NEW p \in Reqs, NEW u, NEW v, OpenTxFind(p)
  PROVE  PairsSteps(u, v)
<1> DEFINE r == FindDirect(req[p].by, req[p].with)
<1>0. req[p] \in ReqRecord /\ TypeOK  BY RequestTypes DEF RoomsInv
<1>1. PICK s : Becomes(p, s) /\ s = IF r = NULL THEN [req[p] EXCEPT !.at = "insert"]
                                               ELSE [req[p] EXCEPT !.at = "reopenTx", !.room = r]
  BY DEF OpenTxFind
<1>2. r = NULL => Pair(req[p].by, req[p].with) = {}  BY <1>0, FindDirectFinds
<1> HIDE DEF r
<1>3. CASE r = NULL
  <2>1. s.at = "insert" /\ s.by = req[p].by /\ s.with = req[p].with  BY <1>0, <1>1, <1>3 DEF ReqRecord
  <2>2. Pair(u, v)' = Pair(u, v)  BY DEF OpenTxFind, Pair, Live, Members
  <2>3. CASE {s.by, s.with} = {u, v}
    <3>1. Pair(u, v) = {}  BY <1>2, <1>3, <2>1, <2>3 DEF Pair
    <3> QED  BY <2>2, <3>1 DEF PairsSteps
  <2>4. CASE {s.by, s.with} # {u, v}
    <3>1. Steps(p, s, NULL, {})  BY <1>1 DEF Steps
    <3>2. /\ req'[p] = s
          /\ \A q \in Reqs : q # p => req'[q].at = req[q].at /\ req'[q].by = req[q].by /\ req'[q].with = req[q].with
      BY <3>1, Slots
    <3>3. Inserting(u, v)' \subseteq Inserting(u, v)  BY <2>4, <3>2 DEF Inserting
    <3> QED  BY <2>2, <3>3 DEF PairsSteps
  <2> QED  BY <2>3, <2>4
<1>4. CASE r # NULL
  <2>1. s.at = "reopenTx"  BY <1>0, <1>1, <1>4 DEF ReqRecord
  <2> QED  BY <1>1, <2>1, PairsReqs DEF OpenTxFind
<1> QED  BY <1>3, <1>4

\* One that inserts a chat of the two is no longer about to.
LEMMA OpenInsertPairs ==
  ASSUME RoomsInv, NEW p \in Reqs, NEW u, NEW v, OpenInsert(p)
  PROVE  PairsSteps(u, v)
<1>0. req[p].at = "insert" /\ req[p].by \in Users /\ req[p].with \in Users
  BY RequestTypes DEF OpenInsert, Aware, Known
<1>1. PICK S \in SUBSET Users : S = {req[p].by, req[p].with}  BY <1>0
<1>2. {created + 1} \in SUBSET Rooms
  <2>1. created < mix.rooms  BY DEF OpenInsert, NewRoom
  <2> QED  BY <2>1, StateTypes DEF RoomsInv, Rooms
<1>3. PICK s : Becomes(p, s) /\ s = Rest(p, {created + 1})  BY DEF OpenInsert
<1>4. s.at \in {"idle", "bulk"}  BY <1>0, <1>2, <1>3, RestRecord
<1>5. PICK n : n = created + 1  OBVIOUS
<1>6. NewRoom("DIRECT", NULL, S) /\ UNCHANGED mix  BY <1>1 DEF OpenInsert
<1>7. /\ Members(n)' = S
      /\ \A x \in Rooms : x # n => room'[x] = room[x] /\ member'[x] = member[x]
  BY <1>5, <1>6, NewRows
<1>8. \A x \in Rooms : x # n => (Live(x)' <=> Live(x)) /\ Members(x)' = Members(x)  BY <1>7 DEF Live, Members
<1>9. Steps(p, s, NULL, {})  BY <1>3 DEF Steps
<1>10. /\ req'[p] = s
       /\ \A q \in Reqs : q # p => req'[q].at = req[q].at /\ req'[q].by = req[q].by /\ req'[q].with = req[q].with
  BY <1>9, Slots
<1>11. CASE S = {u, v}
  <2>1. p \in Inserting(u, v)  BY <1>0, <1>1, <1>11 DEF Inserting
  <2>2. Inserting(u, v)' \subseteq Inserting(u, v) \ {p}  BY <1>4, <1>10 DEF Inserting
  <2>3. Pair(u, v)' \subseteq Pair(u, v) \cup {n}  BY <1>7, <1>8 DEF Pair
  <2> QED  BY <2>1, <2>2, <2>3 DEF PairsSteps
<1>12. CASE S # {u, v}
  <2>1. Inserting(u, v)' \subseteq Inserting(u, v)  BY <1>4, <1>10 DEF Inserting
  <2>2. Pair(u, v)' \subseteq Pair(u, v)  BY <1>7, <1>8, <1>12 DEF Pair
  <2> QED  BY <2>1, <2>2 DEF PairsSteps
<1> QED  BY <1>11, <1>12

\* The steps that set isHidden leave the members.
LEMMA HidePairs ==
  ASSUME RoomsInv, NEW p \in Reqs, NEW u, NEW v,
         OpenReopenTx(p) \/ OpenReopen(p) \/ (\E y \in Users : UnhideWrite(p, y)) \/ DeleteHide(p)
  PROVE  PairsSteps(u, v)
<1>0. req[p] \in ReqRecord /\ Aware(req[p]) /\ TypeOK  BY RequestTypes DEF RoomsInv
<1>1. ASSUME NEW s, NEW x \in Rooms, NEW S \in SUBSET Users, NEW b \in BOOLEAN, SetHidden(x, S, b),
             Moves(p, s, x, S), UNCHANGED room, s.at # "insert"
      PROVE  PairsSteps(u, v)
  <2>1. Steps(p, s, x, S)  BY <1>1 DEF Steps
  <2>2. \A y \in Rooms : Members(y)' = Members(y)  BY <1>0, <1>1, HiddenSets
  <2>3. \A y \in Rooms : Live(y)' <=> Live(y)  BY <1>1 DEF Live
  <2> QED  BY <1>1, <2>1, <2>2, <2>3, PairsRows
<1>2. CASE OpenReopenTx(p)
  <2>1. req[p].at = "reopenTx" /\ req[p].room \in Rooms /\ Users \in SUBSET Users
    BY <1>0, <1>2 DEF OpenReopenTx, Aware, Known
  <2>2. (IF Live(req[p].room) THEN {req[p].room} ELSE {}) \in SUBSET Rooms  BY <2>1
  <2>3. PICK x \in Rooms : x = req[p].room  BY <2>1
  <2>4. PICK s : Moves(p, s, x, Users) /\ s = Rest(p, IF Live(req[p].room) THEN {req[p].room} ELSE {})
    BY <1>2, <2>3 DEF OpenReopenTx
  <2>5. s.at \in {"idle", "bulk"}  BY <2>1, <2>2, <2>4, RestRecord
  <2>6. SetHidden(x, Users, FALSE) /\ UNCHANGED room  BY <1>2, <2>3 DEF OpenReopenTx
  <2> QED  BY <1>1, <2>1, <2>4, <2>5, <2>6
<1>3. CASE OpenReopen(p)
  <2>1. req[p].at = "reopen" /\ req[p].room \in Rooms /\ Users \in SUBSET Users
    BY <1>0, <1>3 DEF OpenReopen, Aware, Known
  <2>2. PICK x \in Rooms : x = req[p].room  BY <2>1
  <2>3. PICK s : Moves(p, s, x, Users) /\ s = [req[p] EXCEPT !.at = "reload", !.moved = {}]
    BY <1>3, <2>2 DEF OpenReopen
  <2>4. s.at = "reload"  BY <1>0, <2>3 DEF ReqRecord
  <2>5. SetHidden(x, Users, FALSE) /\ UNCHANGED room  BY <1>3, <2>2 DEF OpenReopen
  <2> QED  BY <1>1, <2>1, <2>3, <2>4, <2>5
<1>4. CASE \E y \in Users : UnhideWrite(p, y)
  <2>0. PICK y \in Users : UnhideWrite(p, y)  BY <1>4
  <2>1. req[p].at = "unhide" /\ req[p].room \in Rooms /\ {y} \in SUBSET Users
    BY <1>0, <2>0 DEF UnhideWrite, Aware, Known
  <2>2. PICK x \in Rooms : x = req[p].room  BY <2>1
  <2>3. PICK s : Moves(p, s, x, {y}) /\ s = [req[p] EXCEPT !.found = @ \ {y}]
    BY <2>0, <2>2 DEF UnhideWrite
  <2>4. s.at = "unhide"  BY <1>0, <2>1, <2>3 DEF ReqRecord
  <2>5. SetHidden(x, {y}, FALSE) /\ UNCHANGED room  BY <2>0, <2>2 DEF UnhideWrite
  <2> QED  BY <1>1, <2>1, <2>3, <2>4, <2>5
<1>5. CASE DeleteHide(p)
  <2>1. req[p].at = "hide" /\ req[p].room \in Rooms /\ req[p].by \in Users
    BY <1>0, <1>5 DEF DeleteHide, Aware, Known
  <2>2. PICK x \in Rooms : x = req[p].room  BY <2>1
  <2>3. PICK S \in SUBSET Users : S = {req[p].by}  BY <2>1
  <2>4. PICK s : Moves(p, s, x, S) /\ s = [req[p] EXCEPT !.at = "readAll"]
    BY <1>5, <2>2, <2>3 DEF DeleteHide
  <2>5. s.at = "readAll"  BY <1>0, <2>4 DEF ReqRecord
  <2>6. SetHidden(x, S, TRUE) /\ UNCHANGED room  BY <1>5, <2>2, <2>3 DEF DeleteHide
  <2> QED  BY <1>1, <2>1, <2>4, <2>5, <2>6
<1> QED  BY <1>2, <1>3, <1>4, <1>5

\* The other steps.
LEMMA OtherPairs ==
  ASSUME RoomsInv, NEW p \in Reqs, NEW u, NEW v,
         DeleteReadAll(p) \/ DeleteDrop(p) \/ DeleteLeave(p) \/ ToggleWrite(p) \/ MuteRoomsWrite(p)
           \/ ArchiveWrite(p) \/ (\E y \in Users : OfferNext(p, y))
  PROVE  PairsSteps(u, v)
<1>0. /\ req[p] \in ReqRecord /\ Aware(req[p]) /\ TypeOK /\ Idle.at # "insert"
      /\ room \in [Rooms -> RoomRecord \cup {NULL}]
      /\ member \in [Rooms -> [Users -> MemberRecord \cup {NULL}]]
  BY RequestTypes, StateTypes, IdleRecord DEF RoomsInv
<1>i. Becomes(p, Idle) => Steps(p, Idle, NULL, {})  BY DEF Steps
<1>1. CASE DeleteReadAll(p)
  <2>1. PICK s \in {Idle, [req[p] EXCEPT !.at = "drop", !.moved = {}]} : Becomes(p, s)
    BY <1>1 DEF DeleteReadAll
  <2>2. s.at # "insert"  BY <1>0, <2>1 DEF ReqRecord
  <2> QED  BY <1>1, <2>1, <2>2, PairsReqs DEF DeleteReadAll
<1>2. CASE DeleteDrop(p)
  <2>1. PICK r \in Rooms : r = req[p].room  BY <1>2 DEF DeleteDrop, Live
  <2>2. PICK f : f = [y \in Users |-> NULL]  OBVIOUS
  <2>3. room' = [room EXCEPT ![r] = NULL] /\ member' = [member EXCEPT ![r] = f] /\ Becomes(p, Idle)
    BY <1>2, <2>1, <2>2 DEF DeleteDrop, DeleteRoom
  <2>4. room'[r] = NULL /\ \A x \in Rooms : x # r => room'[x] = room[x] /\ member'[x] = member[x]
    BY <1>0, <2>3
  <2>5. \A x \in Rooms : Live(x)' => Live(x) /\ room'[x] = room[x] /\ Members(x)' = Members(x)
    BY <2>4 DEF Live, Members
  <2> QED  BY <1>0, <1>i, <2>3, <2>5, PairsRows
<1>3. CASE DeleteLeave(p)
  <2>1. req[p].at = "leave" /\ req[p].by \in Users /\ req[p].room \in Rooms
    BY <1>0, <1>3 DEF DeleteLeave, Aware, Known
  <2>2. PICK r \in Rooms : r = req[p].room  BY <2>1
  <2>3. Live(r) => ~Private(r)  BY <1>0, <2>1, <2>2 DEF Aware, Finds
  <2>4. PICK y \in Users : y = req[p].by  BY <2>1
  <2>5. member' = [member EXCEPT ![r][y] = NULL] /\ Becomes(p, Idle) /\ UNCHANGED room
    BY <1>3, <2>2, <2>4 DEF DeleteLeave
  <2>6. \A x \in Rooms : x # r => member'[x] = member[x]  BY <1>0, <2>5
  <2>7. \A x \in Rooms : x # r => (Live(x)' <=> Live(x)) /\ Members(x)' = Members(x)  BY <2>5, <2>6 DEF Live, Members
  <2>8. Live(r)' => room'[r].type # "DIRECT"  BY <2>3, <2>5 DEF Live, Private
  <2> QED  BY <1>0, <1>i, <2>5, <2>7, <2>8, PairsRows
<1>4. CASE ToggleWrite(p)
  <2>1. req[p].at \in {"mute", "pin"} /\ req[p].by \in Users /\ req[p].room \in Rooms /\ req[p].flag \in BOOLEAN
    BY <1>0, <1>4 DEF ToggleWrite, Aware, Known, ReqRecord
  <2>2. PICK r \in Rooms : r = req[p].room  BY <2>1
  <2>3. PICK y \in Users : y = req[p].by  BY <2>1
  <2>4. member[r][y] \in MemberRecord /\ member[r][y] # NULL
    BY <1>0, <1>4, <2>2, <2>3 DEF ToggleWrite, Members
  <2>5. PICK m : /\ member' = [member EXCEPT ![r][y] = m]
                 /\ m = IF req[p].at = "mute" THEN [member[r][y] EXCEPT !.mute = req[p].flag]
                                              ELSE [member[r][y] EXCEPT !.pin = req[p].flag]
    BY <1>0, <1>4, <2>2, <2>3 DEF ToggleWrite
  <2>6. m \in MemberRecord  BY <2>1, <2>4, <2>5, SetRow
  <2>7. m # NULL  BY <2>6, RecordsAssumption
  <2>8. /\ member'[r][y] = m
        /\ \A x \in Rooms, z \in Users : (x # r \/ z # y) => member'[x][z] = member[x][z]
    BY <1>0, <2>5
  <2>9. \A x \in Rooms : Members(x)' = Members(x)  BY <2>4, <2>7, <2>8 DEF Members
  <2>10. Becomes(p, Idle) /\ UNCHANGED room  BY <1>4 DEF ToggleWrite
  <2>11. \A x \in Rooms : Live(x)' <=> Live(x)  BY <2>10 DEF Live
  <2> QED  BY <1>0, <1>i, <2>9, <2>10, <2>11, PairsRows
<1>5. CASE MuteRoomsWrite(p)
  <2>1. req[p].at = "muteRooms" /\ req[p].by \in Users /\ req[p].flag \in BOOLEAN
    BY <1>0, <1>5 DEF MuteRoomsWrite, Aware, Known, ReqRecord
  <2>2. PICK y \in Users : y = req[p].by  BY <2>1
  <2>3. PICK T : T = ToMute(y, req[p].rooms, req[p].flag)  OBVIOUS
  <2>4. \A x \in T : y \in Members(x)  BY <2>3 DEF ToMute
  <2>5. member' = [x \in Rooms |-> IF x \in T THEN [member[x] EXCEPT ![y] = [@ EXCEPT !.mute = req[p].flag]] ELSE member[x]]
    BY <1>5, <2>2, <2>3 DEF MuteRoomsWrite
  <2>6. ASSUME NEW x \in Rooms  PROVE Members(x)' = Members(x)
    <3>1. CASE x \in T
      <4>1. member[x][y] \in MemberRecord /\ member[x][y] # NULL  BY <1>0, <2>4, <3>1 DEF Members
      <4>2. PICK m : m = [member[x][y] EXCEPT !.mute = req[p].flag]  OBVIOUS
      <4>3. m \in MemberRecord  BY <2>1, <4>1, <4>2, SetRow
      <4>4. m # NULL  BY <4>3, RecordsAssumption
      <4>5. member'[x] = [member[x] EXCEPT ![y] = m]  BY <2>5, <3>1, <4>2
      <4>6. member[x] \in [Users -> MemberRecord \cup {NULL}]  BY <1>0
      <4>7. member'[x][y] = m /\ \A z \in Users : z # y => member'[x][z] = member[x][z]  BY <4>5, <4>6
      <4> QED  BY <4>1, <4>4, <4>7 DEF Members
    <3>2. CASE x \notin T
      <4>1. member'[x] = member[x]  BY <2>5, <3>2
      <4> QED  BY <4>1 DEF Members
    <3> QED  BY <3>1, <3>2
  <2>7. Becomes(p, Idle) /\ UNCHANGED room  BY <1>5 DEF MuteRoomsWrite
  <2>8. \A x \in Rooms : Live(x)' <=> Live(x)  BY <2>7 DEF Live
  <2> QED  BY <1>0, <1>i, <2>6, <2>7, <2>8, PairsRows
<1>6. CASE ArchiveWrite(p)
  <2>1. PICK r \in Rooms : r = req[p].room /\ room[r] # NULL  BY <1>6 DEF ArchiveWrite, Live
  <2>2. PICK c : c = [room[r] EXCEPT !.isArchived = req[p].flag]  OBVIOUS
  <2>3. c.type = room[r].type
    <3>1. room[r] \in RoomRecord  BY <1>0, <2>1
    <3> QED  BY <2>2, <3>1 DEF RoomRecord
  <2>4. room' = [room EXCEPT ![r] = c]  BY <1>6, <2>1, <2>2 DEF ArchiveWrite
  <2>5. room'[r] = c /\ \A x \in Rooms : x # r => room'[x] = room[x]  BY <1>0, <2>4
  <2>6. \A x \in Rooms : Live(x)' => Live(x) /\ room'[x].type = room[x].type
    BY <2>1, <2>3, <2>5 DEF Live
  <2>7. Becomes(p, Idle) /\ member' = member  BY <1>6 DEF ArchiveWrite
  <2>8. \A x \in Rooms : Members(x)' = Members(x)  BY <2>7 DEF Members
  <2> QED  BY <1>0, <1>i, <2>6, <2>7, <2>8, PairsRows
<1>7. CASE \E y \in Users : OfferNext(p, y)
  <2>0. PICK y \in Users : OfferNext(p, y)  BY <1>7
  <2> DEFINE d == req[p].drivers \ {y}
  <2>1. req[p].at = "offer" /\ req[p].by \in Users  BY <1>0, <2>0 DEF OfferNext, Aware, Known
  <2>2. PICK S \in SUBSET Users : S = {req[p].by, y}  BY <2>1
  <2>3. PICK s \in {Idle, [req[p] EXCEPT !.drivers = d]} : Becomes(p, s)
    BY <2>0 DEF OfferNext
  <2> HIDE DEF d
  <2>4. s.at # "insert"  BY <1>0, <2>1, <2>3 DEF ReqRecord
  <2>5. PICK n : n = created + 1  OBVIOUS
  <2>6. NewRoom("OFFER", NULL, S) /\ UNCHANGED mix  BY <2>0, <2>2 DEF OfferNext
  <2>7. room'[n].type = "OFFER" /\ \A x \in Rooms : x # n => room'[x] = room[x] /\ member'[x] = member[x]
    <3>1. NewRoom("OFFER", NULL, S) /\ UNCHANGED mix /\ NULL \in Users \cup {NULL}  BY <2>6
    <3>2. "OFFER" \in {"DIRECT", "OFFER", "GROUP"}  OBVIOUS
    <3>3. room'[n].type = "OFFER"
      BY ONLY RoomsInv, S \in SUBSET Users, <2>5, <3>1, <3>2, NewRows
    <3>4. ASSUME NEW x \in Rooms, x # n  PROVE room'[x] = room[x] /\ member'[x] = member[x]
      <4>1. room \in [Rooms -> RoomRecord \cup {NULL}] /\ member \in [Rooms -> [Users -> MemberRecord \cup {NULL}]]
        BY <1>0
      <4>2. PICK c, f : room' = [room EXCEPT ![created + 1] = c] /\ member' = [member EXCEPT ![created + 1] = f]
        BY <3>1 DEF NewRoom
      <4> QED  BY ONLY <2>5, <3>4, <4>1, <4>2
    <3> QED  BY <3>3, <3>4
  <2>8. \A x \in Rooms : x # n => (Live(x)' <=> Live(x)) /\ Members(x)' = Members(x)  BY <2>7 DEF Live, Members
  <2>9. Steps(p, s, NULL, {})  BY <2>3 DEF Steps
  <2> QED  BY <2>4, <2>7, <2>8, <2>9, PairsRows
<1> QED  BY <1>1, <1>2, <1>3, <1>4, <1>5, <1>6, <1>7

\* Without requests that add or remove members, a step does to the chats of two users what
\* PairsSteps says.
LEMMA ProceedPairs ==
  ASSUME RoomsInv, NEW p \in Reqs, Proceed(p), mix.kinds \cap {"add", "remove"} = {}, NEW u, NEW v
  PROVE  PairsSteps(u, v)
<1>1. ~RemoveRow(p) /\ \A y \in Users : ~AddRow(p, y)
  BY RequestTypes DEF RemoveRow, AddRow, Aware, Known
<1>2. CASE OpenFind(p) \/ OpenReload(p) \/ Post(p) \/ Fail(p) \/ (\E r \in Rooms : BulkSend(p, r))
  BY <1>2, OpenPairs
<1>3. CASE OpenTxFind(p) \/ OpenInsert(p)  BY <1>3, OpenTxFindPairs, OpenInsertPairs
<1>4. CASE OpenReopenTx(p) \/ OpenReopen(p) \/ DeleteHide(p)  BY <1>4, HidePairs
<1>5. CASE \E y \in Users : BulkNext(p, y) \/ OfferNext(p, y) \/ UnhideRead(p, y) \/ UnhideWrite(p, y)
  BY <1>5, OpenPairs, OtherPairs, HidePairs
<1>6. CASE DeleteReadAll(p) \/ DeleteDrop(p) \/ DeleteLeave(p) \/ ToggleWrite(p) \/ MuteRoomsWrite(p) \/ ArchiveWrite(p)
  BY <1>6, OtherPairs
<1> QED  BY <1>1, <1>2, <1>3, <1>4, <1>5, <1>6 DEF Proceed

-----------------------------------------------------------------------------
(* The theorems.                                                           *)

\* The invariant holds at the start: there is no chat and no request.
LEMMA InitInv == Init => IInv
<1> SUFFICES ASSUME Init  PROVE IInv
  OBVIOUS
<1>1. RoomsInv  BY InitRooms
<1>2. ASSUME NEW u \in Users, NEW v \in Users  PROVE PairsKept(u, v)
  <2>1. Pair(u, v) = {}  BY DEF Init, Pair, Live
  <2>2. Cardinality(Pair(u, v)) = 0  BY <2>1, FS_EmptySet
  <2> QED  BY <2>2, PairsFinite DEF PairsKept
<1> QED  BY <1>1, <1>2 DEF IInv

\* Every step keeps it.
LEMMA NextInv == IInv /\ [Next]_vars => IInv'
<1> SUFFICES ASSUME IInv, [Next]_vars  PROVE IInv'
  OBVIOUS
<1>1. RoomsInv /\ RoomsInv'  BY NextRooms DEF IInv
<1>2. ASSUME NEW u \in Users, NEW v \in Users  PROVE PairsKept(u, v)'
  <2>1. PairsKept(u, v)  BY DEF IInv
  <2>2. CASE Next
    <3>1. PICK p \in Reqs : Begin(p) \/ Proceed(p)  BY <2>2 DEF Next
    <3>2. mix' = mix
      <4>1. CASE Begin(p)
        BY <4>1 DEF Begin, OpenBegin, CreateGroup, OfferBegin, BulkBegin, SendBegin, DeleteBegin, AddBegin, RemoveBegin,
                    ToggleBegin, ArchiveBegin, MuteRoomsBegin
      <4>2. CASE Proceed(p)
        BY <4>2 DEF Proceed, OpenFind, OpenTxFind, OpenInsert, OpenReopenTx, OpenReopen, OpenReload, BulkNext, OfferNext,
                    AddRow, UnhideRead, UnhideWrite, BulkSend, Post, DeleteHide, DeleteReadAll, DeleteDrop, DeleteLeave,
                    RemoveRow, ToggleWrite, MuteRoomsWrite, ArchiveWrite, Fail
      <4> QED  BY <3>1, <4>1, <4>2
    <3>3. mix.kinds \cap {"add", "remove"} = {} => PairsSteps(u, v)
      BY <1>1, <3>1, BeginPairs, ProceedPairs
    <3> QED  BY <2>1, <3>2, <3>3, PairsNumber
  <2>3. CASE UNCHANGED vars
    <3>1. Pair(u, v)' = Pair(u, v) /\ Inserting(u, v)' = Inserting(u, v) /\ mix' = mix
      BY <2>3 DEF vars, Pair, Inserting, Live, Members
    <3> QED  BY <2>1, <3>1 DEF PairsKept
  <2> QED  BY <2>2, <2>3
<1> QED  BY <1>1, <1>2 DEF IInv

\* It is kept throughout.
LEMMA Invariance == Spec => []IInv
BY InitInv, NextInv, PTL DEF Spec

\* Rooms, participants and requests keep their shape (chat-rooms.service.ts), a DIRECT or OFFER
\* chat that all its members have hidden goes with the deletion that hid it last, and two users
\* have no more DIRECT chats than there are requests, whatever the requests, users and chats.
THEOREM ChatsStayBounded == Spec => []ChatsBounded
<1>1. IInv => ChatsBounded
  <2> SUFFICES ASSUME IInv  PROVE ChatsBounded
    OBVIOUS
  <2>1. TypeOK /\ HiddenByAllGoes  BY DEF IInv, RoomsInv, Goes, HiddenByAllGoes
  <2>2. ASSUME mix.kinds \cap {"add", "remove"} = {}, NEW u \in Users, NEW v \in Users
        PROVE  Cardinality(Pair(u, v)) <= Cardinality(Reqs)
    <3>1. Cardinality(Pair(u, v)) + Cardinality(Inserting(u, v)) <= Cardinality(Reqs)  BY <2>2 DEF IInv, PairsKept
    <3> QED  BY <3>1, PairsFinite
  <2> QED  BY <2>1, <2>2 DEF ChatsBounded, DuplicatesBounded
<1> QED  BY <1>1, Invariance, PTL

\* deleteChatRoom() deletes no DIRECT or OFFER chat under a member who shows it but for those to
\* whom it came back after the deletion had looked; a message that was sent is hidden only from
\* who hid the chat meanwhile, and a chat that was opened from nobody else.
THEOREM ChatsShown == Spec => ShownToMembers
<1>1. ASSUME IInv, NEW p \in Reqs  PROVE DropJustified(p) /\ PostSeen(p) /\ OpenSeen(p)
  <2>1. req[p] \in ReqRecord /\ Aware(req[p])  BY <1>1, RequestTypes DEF IInv
  <2>2. DropJustified(p)  BY <2>1 DEF DropJustified, DeleteDrop, Aware, Sees
  <2>3. PostSeen(p)  BY <2>1 DEF PostSeen, Post, Aware, Sees
  <2>4. OpenSeen(p)
    <3> SUFFICES ASSUME OpenReload(p), Live(req[p].room), NEW u \in Members(req[p].room) \ req[p].moved,
                        ~room[req[p].room].isArchived
                 PROVE  req[p].room \in Listed(u)
      BY DEF OpenSeen
    <3>1. HiddenBy(req[p].room) \subseteq req[p].moved  BY <2>1 DEF OpenReload, Aware, Sees
    <3> QED  BY <3>1 DEF Listed, Live
  <2> QED  BY <2>2, <2>3, <2>4
<1>2. IInv => [\A p \in Reqs : DropJustified(p) /\ PostSeen(p) /\ OpenSeen(p)]_vars
  BY <1>1
<1> QED  BY <1>2, Invariance, PTL DEF ShownToMembers

=============================================================================
