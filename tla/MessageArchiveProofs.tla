------------------------- MODULE MessageArchiveProofs -------------------------
(***************************************************************************)
(* The archive of old messages, for every set of rooms, days and jobs and  *)
(* every mix of them: what is in the database, the objects and the jobs    *)
(* stays well formed (TypeCorrect), what a job uploads holds all it will   *)
(* delete (JobsWhole), no message is lost but on the occasions that Kept   *)
(* names (NothingLost), and a room that goes takes with it only what came  *)
(* after the last look at it (RoomsGoLate).                                *)
(*                                                                         *)
(* The argument follows one job and the day it is at work on.  Whoever     *)
(* takes on a day finds no object of it and nobody else at work there, or  *)
(* the day is blurred from then on (Alone, Absent).  On a day that is not  *)
(* blurred the temporary file, the upload and the object are the job's own *)
(* and hold what it has read (Written, SentWhole, Stored) when it deletes  *)
(* that.  Every step of a job is reduced to Step, which says what it does  *)
(* to the job and to the rest; the invariants are preserved by any Step.   *)
(***************************************************************************)
EXTENDS MessageArchive, WellFoundedInduction, TLAPS

-----------------------------------------------------------------------------
\* A message of the room and the day, on the server's clock or in UTC.
Fits(m, r, d) == Room(m) = r /\ d \in {Local(m), Utc(m)}

\* A job knows what it is about at each of its stages.
Sound(s) ==
  /\ s.msgs \subseteq 1..posted /\ s.got \subseteq 1..posted /\ s.batch \subseteq 1..posted
  /\ s.sent \subseteq 1..posted /\ s.seen <= posted
  /\ s.at \notin {"idle", "rooms", "purge"} => s.room \in Rooms
  /\ s.at \in {"check", "read", "write", "put", "verify", "delete", "drop"} => s.day \in Days
  /\ s.at \in {"check", "write", "put", "verify", "delete"} => \A m \in s.got : Fits(m, s.room, s.day)
  /\ s.at = "put" => \A m \in s.sent : Fits(m, s.room, s.day)
  /\ s.at = "write" => s.batch \subseteq s.got
  /\ s.at \in {"rooms", "look", "check", "read"} => s.batch = {}
  /\ s.at = "look" => s.got = {}
  /\ s.at = "load" => s.days # {}
  /\ s.at \in {"load", "insert"} => "restore" \in mix.kinds
  /\ s.at = "purge" => (\A d \in s.days : d <= expired) /\ (s.days # {} => s.room \in Rooms)

\* The objects and the temporary files hold messages of their room and day.
Filed ==
  \A s \in Slots :
    /\ object[s] # NULL => \A m \in object[s] : Fits(m, s[1], s[2])
    /\ file[s] # NULL => \A m \in file[s] : Fits(m, s[1], s[2])

TypeInv ==
  /\ TypeOK /\ posted <= Len(mix.posts) /\ Filed
  /\ \A j \in Jobs : Sound(job[j])

Takes(j) == job[j].at \in {"read", "write", "put", "verify", "delete"}

\* Two jobs are at work on one day only if it is blurred.
Alone ==
  \A j, k \in Jobs : j # k /\ Takes(j) /\ Takes(k) /\ Slot(j) = Slot(k) => Slot(j) \in blurred

\* Until a job has stored its day there is no object of it.
Absent(j) ==
  job[j].at \in {"read", "write", "put"} => object[Slot(j)] = NULL \/ Slot(j) \in blurred

\* The temporary file holds what the job has written, unless another job has removed it.
Written(j) ==
  job[j].at = "write" =>
    Slot(j) \in blurred \/ file[Slot(j)] = NULL \/ job[j].batch \subseteq file[Slot(j)]

\* What a job is about to delete is in the object of the day, unless that is past its year.
Stored(j) ==
  job[j].at \in {"verify", "delete"} =>
    \/ Slot(j) \in blurred \/ job[j].day <= expired
    \/ object[Slot(j)] # NULL /\ job[j].got \subseteq object[Slot(j)]

\* A full archive found nothing before it deletes the room.
Emptied(j) ==
  job[j].at = "gone" /\ "restore" \notin mix.kinds => \A m \in InRoom(job[j].room) : m > job[j].seen

DaysInv == Alone /\ SentWhole /\ \A j \in Jobs : Absent(j) /\ Written(j) /\ Stored(j)

IInv == TypeInv /\ DaysInv /\ Kept /\ \A j \in Jobs : Emptied(j)

-----------------------------------------------------------------------------
\* A nonempty set of naturals has a least element, and Min finds it (the first
\* day of a room, the day a restore reads next).
LEMMA LeastNat ==
  ASSUME NEW S, S \subseteq Nat, S # {}
  PROVE  Min(S) \in S /\ \A y \in S : Min(S) <= y
<1> DEFINE Less == {ss \in Nat \X Nat : ss[1] < ss[2]}
<1>1. IsWellFoundedOn(Less, Nat)
  BY NatLessThanWellFounded DEF OpToRel
<1> HIDE DEF Less
<1>2. PICK x \in S : \A y \in S : ~(<<y, x>> \in Less)
  BY <1>1, WFMin
<1>3. \A y \in S : x <= y
  <2> SUFFICES ASSUME NEW y \in S, y < x PROVE FALSE
    OBVIOUS
  <2>1. <<y, x>> \in Less
    BY DEF Less
  <2> QED
    BY <2>1, <1>2
<1> QED
  BY <1>3 DEF Min

\* A nonempty set of naturals with a bound has a greatest element, and Max finds
\* it (the latest message, the next day to be purged).
LEMMA GreatestNat ==
  ASSUME NEW S, S \subseteq Nat, S # {}, NEW n \in Nat, \A y \in S : y <= n
  PROVE  Max(S) \in S /\ \A y \in S : Max(S) >= y
<1> DEFINE B == {b \in Nat : \A y \in S : y <= b}
<1>1. B \subseteq Nat /\ n \in B
  OBVIOUS
<1> HIDE DEF B
<1>2. Min(B) \in B /\ \A y \in B : Min(B) <= y
  BY <1>1, LeastNat
<1> USE DEF B
<1>3. PICK b \in Nat : b = Min(B) /\ b \in B /\ \A c \in B : b <= c
  BY <1>1, <1>2
<1>4. b \in S
  <2>0. \A y \in S : y <= b
    BY <1>3
  <2> HIDE DEF B
  <2>1. CASE b = 0
    <3>1. PICK y \in S : TRUE
      OBVIOUS
    <3>2. y = 0
      BY <2>0, <2>1
    <3> QED
      BY <3>1, <3>2, <2>1
  <2>2. CASE b # 0
    <3>1. b - 1 \in Nat /\ b - 1 \notin B
      BY <2>2, <1>3
    <3>2. PICK y \in S : ~(y <= b - 1)
      BY <3>1 DEF B
    <3>3. y = b
      BY <3>2, <2>0, <2>2
    <3> QED
      BY <3>3
  <2> QED
    BY <2>1, <2>2
<1>5. \E x \in S : \A y \in S : x >= y
  <2>1. \A y \in S : b >= y
    BY <1>3
  <2> QED
    BY <2>1, <1>4
<1> QED
  BY <1>5 DEF Max

-----------------------------------------------------------------------------
\* The stages at which a job is at work on a day, and those at which it holds none.
Taking == {"read", "write", "put", "verify", "delete"}
Resting ==
  {"idle", "rooms", "check", "look", "drop", "load", "insert", "purge"}

\* How job j comes to be t: it takes on a day only after the check; it writes,
\* uploads, verifies and deletes the same day, in that order.
Moves(j, t) ==
  /\ t.at \in Taking =>
       /\ t.room = job[j].room /\ t.day = job[j].day
       /\ job[j].at \in Taking \cup {"check"}
  /\ t.at \in Taking /\ job[j].at = "check" =>
       (object[Slot(j)] # NULL \/ TakenBy(Slot(j)) # {} => Slot(j) \in blurred')
  /\ t.at = "read" => job[j].at = "check"
  /\ t.at = "write" =>
       \/ job[j].at \in {"check", "read"} /\ t.batch = {}
       \/ job[j].at = "write" /\ file'[Slot(j)] = t.batch
  /\ t.at = "put" =>
       \/ job[j].at = "check" /\ t.sent = t.got
       \/ /\ job[j].at = "write" /\ t.got = job[j].batch
          /\ file[Slot(j)] # NULL /\ t.sent = file[Slot(j)]
  /\ t.at \in {"verify", "delete"} =>
       /\ t.got = job[j].got
       /\ \/ job[j].at = "put" /\ object'[Slot(j)] = job[j].sent
          \/ t.at = "delete" /\ job[j].at = "verify" /\ object' = object
  /\ t.at = "gone" =>
       InRoom(t.room) = {} /\ t.seen = posted /\ db' = db

\* What becomes of the objects: job j stores what it sent and is done with
\* storing, or an object past its year goes.
ObjectStep(j, t) ==
  /\ object' \in [Slots -> (SUBSET (1..posted)) \cup {NULL}]
  /\ \A s \in Slots :
       \/ object'[s] = object[s]
       \/ object'[s] = NULL /\ s[2] <= expired
       \/ /\ job[j].at = "put" /\ s = Slot(j) /\ object'[s] = job[j].sent
          /\ t.at \notin {"read", "write", "put"}

\* What becomes of the temporary files: job j writes that of its day, or some go.
FileStep(j, t) ==
  /\ file' \in [Slots -> (SUBSET (1..posted)) \cup {NULL}]
  /\ \A s \in Slots :
       \/ file'[s] = file[s]
       \/ file'[s] = NULL
       \/ /\ job[j].at = "write" /\ t.at = "write" /\ s = Slot(j)
          /\ file'[s] = t.batch /\ t.got = job[j].got

\* What becomes of the rooms and the messages: those that go were dropped, are in
\* an object, or are what job j has read and stored.
DbStep(j) ==
  /\ rooms' \subseteq rooms /\ db' \subseteq 1..posted
  /\ removed' = removed /\ dropped \subseteq dropped' /\ dropped' \subseteq 1..posted
  /\ blurred \subseteq blurred' /\ blurred' \subseteq Slots
  /\ db' \subseteq db \/ "restore" \in mix.kinds
  /\ \A m \in db \ db' :
       \/ m \in dropped'
       \/ InObject(m) /\ object' = object
       \/ job[j].at = "delete" /\ m \in job[j].got /\ object' = object
  /\ \A r \in rooms \ rooms' : job[j].at = "gone" /\ job[j].room = r

\* A step of job j, which becomes t.
Step(j, t) ==
  /\ t \in JobRecord /\ Sound(t) /\ Goes(j, t) /\ Moves(j, t)
  /\ ObjectStep(j, t) /\ FileStep(j, t) /\ DbStep(j)
  /\ UNCHANGED <<clock, mix>>

\* The assumption on NULL for sets of posted messages (an object is not "none").
LEMMA NullIsNoSet ==
  ASSUME TypeInv, NEW S, S \subseteq 1..posted
  PROVE  S # NULL
<1>1. posted \in 0..MaxPosts /\ MaxPosts \in Nat
  BY BoundsAssumption DEF TypeInv, TypeOK
<1>2. S \in SUBSET (1..MaxPosts)
  BY <1>1
<1> QED
  BY <1>2, NullAssumption

\* Every message posted has a room and a day on each clock.
LEMMA MessageTypes ==
  ASSUME TypeInv, NEW m \in 1..posted
  PROVE  Room(m) \in Rooms /\ Local(m) \in Days /\ Utc(m) \in Days
<1> DEFINE P == mix.posts
<1> DEFINE M == [room : Rooms, local : Days, utc : Days]
<1>1. P \in Seq(M)
  BY MixesAssumption DEF TypeInv, TypeOK
<1> HIDE DEF P, M
<1>2. posted \in Nat /\ posted <= Len(P) /\ Len(P) \in Nat
  BY <1>1, BoundsAssumption DEF TypeInv, TypeOK, P
<1>3. m \in 1..Len(P)
  BY <1>2
<1>4. P[m] \in M
  BY <1>1, <1>3
<1>5. P[m].room \in Rooms /\ P[m].local \in Days /\ P[m].utc \in Days
  BY <1>4 DEF M
<1> QED
  BY <1>5 DEF Room, Local, Utc, P

\* The bounds on what has been posted and on the day objects are purged to.
LEMMA Clocks ==
  ASSUME TypeInv
  PROVE  /\ posted \in Nat /\ posted <= MaxPosts /\ MaxPosts \in Nat
         /\ old \in 0..posted /\ expired \in Nat /\ Days \subseteq Nat
         /\ 1..posted \subseteq Msgs /\ posted \in 0..MaxPosts
BY BoundsAssumption DEF TypeInv, TypeOK, Msgs

\* What the messages in the database of a room are.
LEMMA RoomTypes ==
  ASSUME TypeInv, NEW r
  PROVE  /\ InRoom(r) \subseteq 1..posted /\ \A c : OldIn(r, c) \subseteq InRoom(r)
         /\ \A m \in InRoom(r) : m \in db /\ Room(m) = r
BY DEF TypeInv, TypeOK, InRoom, OldIn

\* A job as the invariant knows it.
LEMMA JobTypes ==
  ASSUME TypeInv, NEW j \in Jobs
  PROVE  job[j] \in JobRecord /\ Sound(job[j])
BY DEF TypeInv, TypeOK

\* The fields of a job, one by one.
LEMMA Fields ==
  ASSUME NEW s \in JobRecord
  PROVE  /\ s.kind \in Kinds /\ s.at \in Stages /\ s.cutoff \in 0..MaxPosts
         /\ s.rooms \subseteq Rooms /\ s.room \in Rooms \cup {NULL}
         /\ s.day \in Days \cup {NULL} /\ s.days \subseteq Days
         /\ s.msgs \subseteq Msgs /\ s.got \subseteq Msgs /\ s.batch \subseteq Msgs
         /\ s.sent \subseteq Msgs /\ s.files \subseteq Slots /\ s.seen \in 0..MaxPosts
BY DEF JobRecord

\* A job whose fields are of their types, after a change of one of them.
LEMMA FieldTypes ==
  ASSUME NEW s \in JobRecord
  PROVE  /\ \A v \in Kinds : [s EXCEPT !.kind = v] \in JobRecord
         /\ \A v \in Stages : [s EXCEPT !.at = v] \in JobRecord
         /\ \A v \in 0..MaxPosts : [s EXCEPT !.cutoff = v] \in JobRecord
         /\ \A v \in SUBSET Rooms : [s EXCEPT !.rooms = v] \in JobRecord
         /\ \A v \in Rooms \cup {NULL} : [s EXCEPT !.room = v] \in JobRecord
         /\ \A v \in Days \cup {NULL} : [s EXCEPT !.day = v] \in JobRecord
         /\ \A v \in SUBSET Days : [s EXCEPT !.days = v] \in JobRecord
         /\ \A v \in SUBSET Msgs : [s EXCEPT !.msgs = v] \in JobRecord
         /\ \A v \in SUBSET Msgs : [s EXCEPT !.got = v] \in JobRecord
         /\ \A v \in SUBSET Msgs : [s EXCEPT !.batch = v] \in JobRecord
         /\ \A v \in SUBSET Msgs : [s EXCEPT !.sent = v] \in JobRecord
         /\ \A v \in SUBSET Slots : [s EXCEPT !.files = v] \in JobRecord
         /\ \A v \in 0..MaxPosts : [s EXCEPT !.seen = v] \in JobRecord
BY DEF JobRecord

\* A job that is idle is sound.
LEMMA IdleSound ==
  ASSUME TypeInv
  PROVE  Idle \in JobRecord /\ Sound(Idle) /\ Idle.at = "idle"
<1>1. Idle.at = "idle" /\ Idle.msgs = {} /\ Idle.got = {} /\ Idle.batch = {}
      /\ Idle.sent = {} /\ Idle.seen = 0 /\ Idle.days = {}
  BY DEF Idle
<1>2. Idle \in JobRecord
  BY Clocks DEF Idle, JobRecord, Kinds, Stages
<1>3. 0 <= posted
  BY Clocks
<1> HIDE DEF Idle
<1> QED
  BY <1>1, <1>2, <1>3 DEF Sound

\* A job at work on a day or at the check is at a slot.
LEMMA SlotTypes ==
  ASSUME TypeInv, NEW j \in Jobs,
         job[j].at \in Taking \cup {"check", "drop"}
  PROVE  /\ job[j].room \in Rooms /\ job[j].day \in Days /\ Slot(j) \in Slots
         /\ Slot(j)[1] = job[j].room /\ Slot(j)[2] = job[j].day
<1>1. job[j].room \in Rooms /\ job[j].day \in Days
  BY JobTypes DEF Sound, Taking
<1> QED
  BY <1>1 DEF Slot, Slots

\* A job that comes to rest has nothing to answer for.
LEMMA RestingMoves ==
  ASSUME NEW j, NEW t, t.at \in Resting
  PROVE  Moves(j, t)
BY DEF Moves, Resting, Taking

\* A step that leaves the objects, the files and the messages alone.
LEMMA QuietStep ==
  ASSUME TypeInv, NEW j, NEW t,
         UNCHANGED <<rooms, db, object, file, removed, dropped>>,
         blurred \subseteq blurred', blurred' \subseteq Slots
  PROVE  ObjectStep(j, t) /\ FileStep(j, t) /\ DbStep(j)
BY DEF ObjectStep, FileStep, DbStep, TypeInv, TypeOK

\* A step that leaves the messages alone.
LEMMA SameMessages ==
  ASSUME TypeInv, NEW j, UNCHANGED <<rooms, db, removed, dropped, blurred>>
  PROVE  DbStep(j)
BY DEF DbStep, TypeInv, TypeOK

\* A step that leaves the objects alone.
LEMMA SameObjects ==
  ASSUME TypeInv, NEW j, NEW t, UNCHANGED object
  PROVE  ObjectStep(j, t)
BY DEF ObjectStep, TypeInv, TypeOK

\* A step that leaves the temporary files alone.
LEMMA SameFiles ==
  ASSUME TypeInv, NEW j, NEW t, UNCHANGED file
  PROVE  FileStep(j, t)
BY DEF FileStep, TypeInv, TypeOK

\* A step that leaves all but the jobs alone.
LEMMA SilentStep ==
  ASSUME TypeInv, NEW j, NEW t \in JobRecord, Sound(t), Goes(j, t), Moves(j, t),
         UNCHANGED <<rooms, db, clock, object, file, ghosts, mix>>
  PROVE  Step(j, t)
<1>1. UNCHANGED <<rooms, db, object, file, removed, dropped, blurred, clock, mix>>
  BY DEF ghosts
<1>2. blurred \subseteq Slots
  BY DEF TypeInv, TypeOK
<1>3. ObjectStep(j, t) /\ FileStep(j, t) /\ DbStep(j)
  BY <1>1, <1>2, QuietStep
<1> QED
  BY <1>1, <1>3 DEF Step

-----------------------------------------------------------------------------
\* The day of the first of some messages is the day of one of them.
LEMMA FirstDay ==
  ASSUME TypeInv, NEW H, H \subseteq 1..posted, H # {}
  PROVE  /\ Min({Local(m) : m \in H}) \in Days
         /\ \E m \in H : Local(m) = Min({Local(m2) : m2 \in H})
<1> DEFINE L == {Local(m) : m \in H}
<1>1. L \subseteq Nat /\ L # {} /\ L \subseteq Days
  BY MessageTypes, Clocks
<1>2. Min(L) \in L
  <2> HIDE DEF L
  <2> QED
    BY <1>1, LeastNat
<1> QED
  BY <1>1, <1>2

\* After its day a job rests: it is over, or looks for the next day or room.
LEMMA NextDayRests ==
  ASSUME TypeInv, NEW j \in Jobs, NEW D, job[j].room \in Rooms,
         NEW t, t = NextDay(j, D)
  PROVE  t \in JobRecord /\ Sound(t) /\ t.at \in {"look", "check", "idle", "rooms"}
<1> DEFINE s == job[j]
           left == s.msgs \ D
           here == {m \in left : Room(m) = s.room}
           d == Min({Local(m) : m \in here})
           done0 == [s EXCEPT !.got = {}]
           done1 == [done0 EXCEPT !.batch = {}]
           done2 == [done1 EXCEPT !.sent = {}]
           done == [done2 EXCEPT !.day = NULL]
<1>1. s \in JobRecord /\ Sound(s) /\ s.room \in Rooms
  BY JobTypes
<1>2. s.msgs \subseteq 1..posted /\ s.seen <= posted /\ 1..posted \subseteq Msgs
  BY <1>1, Clocks DEF Sound
<1> HIDE DEF s
<1>3. done0 \in JobRecord
  BY <1>1, FieldTypes
<1>4. done1 \in JobRecord
  BY <1>3, FieldTypes
<1>5. done2 \in JobRecord
  BY <1>4, FieldTypes
<1>6. /\ done \in JobRecord /\ done.got = {} /\ done.batch = {} /\ done.sent = {}
      /\ done.day = NULL /\ done.room = s.room /\ done.msgs = s.msgs
      /\ done.seen = s.seen /\ done.at = s.at /\ done.rooms = s.rooms
  <2>1. done \in JobRecord
    BY <1>5, FieldTypes
  <2> QED
    BY <1>1, <2>1 DEF JobRecord
<1>7. t = CASE s.kind = "full" -> [done EXCEPT !.at = "look", !.msgs = {}]
            [] s.kind # "full" /\ here # {} ->
                 [done EXCEPT !.at = "check", !.msgs = left, !.day = d,
                              !.got = {m \in here : Local(m) = d}]
            [] OTHER ->
                 [done EXCEPT !.at = IF s.rooms = {} THEN "idle" ELSE "rooms",
                              !.msgs = left, !.room = NULL]
  BY DEF NextDay, s
<1> HIDE DEF done, done0, done1, done2
<1>8. CASE s.kind = "full"
  <2>1. t = [done EXCEPT !.at = "look", !.msgs = {}]
    BY <1>7, <1>8
  <2> DEFINE u1 == [done EXCEPT !.at = "look"]
  <2>2. u1 \in JobRecord
    BY <1>6, FieldTypes DEF Stages
  <2>3. t \in JobRecord
    <3>1. t = [u1 EXCEPT !.msgs = {}]
      BY <2>1
    <3> HIDE DEF u1
    <3> QED
      BY <3>1, <2>2, FieldTypes
  <2>4. /\ t.at = "look" /\ t.msgs = {} /\ t.got = {} /\ t.batch = {} /\ t.sent = {}
        /\ t.room = s.room /\ t.seen = s.seen
    BY <2>1, <1>6 DEF JobRecord
  <2> QED
    BY <2>3, <2>4, <1>1, <1>2 DEF Sound
<1>9. CASE s.kind # "full" /\ here # {}
  <2>0. left \subseteq 1..posted /\ here \subseteq 1..posted
    BY <1>2
  <2> DEFINE got == {m \in here : Local(m) = d}
  <2>1. d \in Days
    BY <2>0, <1>9, FirstDay
  <2>2. t = [done EXCEPT !.at = "check", !.msgs = left, !.day = d, !.got = got]
    BY <1>7, <1>9
  <2>3. got \subseteq 1..posted /\ \A m \in got : Room(m) = s.room /\ Local(m) = d
    BY <2>0
  <2> HIDE DEF d, got, left, here
  <2> DEFINE u1 == [done EXCEPT !.at = "check"]
             u2 == [u1 EXCEPT !.msgs = left]
             u3 == [u2 EXCEPT !.day = d]
  <2>4. u1 \in JobRecord
    BY <1>6, FieldTypes DEF Stages
  <2>5. u2 \in JobRecord
    <3> HIDE DEF u1
    <3> QED
      BY <2>4, <2>0, <1>2, FieldTypes
  <2>6. u3 \in JobRecord
    <3> HIDE DEF u2
    <3> QED
      BY <2>5, <2>1, FieldTypes
  <2>7. t \in JobRecord
    <3>1. t = [u3 EXCEPT !.got = got]
      BY <2>2
    <3> HIDE DEF u3
    <3> QED
      BY <3>1, <2>6, <2>3, <1>2, FieldTypes
  <2>8. /\ t.at = "check" /\ t.msgs = left /\ t.got = got /\ t.batch = {}
        /\ t.sent = {} /\ t.room = s.room /\ t.seen = s.seen /\ t.day = d
    BY <2>2, <1>6 DEF JobRecord
  <2> QED
    BY <2>7, <2>8, <2>0, <2>1, <2>3, <1>1, <1>2 DEF Sound, Fits
<1>10. CASE ~(s.kind = "full") /\ ~(s.kind # "full" /\ here # {})
  <2>0. left \subseteq 1..posted
    BY <1>2
  <2>1. PICK a \in {"idle", "rooms"} : a = IF s.rooms = {} THEN "idle" ELSE "rooms"
    OBVIOUS
  <2>2. t = [done EXCEPT !.at = a, !.msgs = left, !.room = NULL]
    BY <1>7, <1>10, <2>1
  <2> HIDE DEF left, here
  <2> DEFINE u1 == [done EXCEPT !.at = a]
             u2 == [u1 EXCEPT !.msgs = left]
  <2>3. u1 \in JobRecord
    BY <1>6, FieldTypes DEF Stages
  <2>4. u2 \in JobRecord
    <3> HIDE DEF u1
    <3> QED
      BY <2>3, <2>0, <1>2, FieldTypes
  <2>5. t \in JobRecord
    <3>1. t = [u2 EXCEPT !.room = NULL]
      BY <2>2
    <3> HIDE DEF u2
    <3> QED
      BY <3>1, <2>4, FieldTypes
  <2>6. /\ t.at = a /\ t.msgs = left /\ t.got = {} /\ t.batch = {} /\ t.sent = {}
        /\ t.seen = s.seen
    BY <2>2, <1>6 DEF JobRecord
  <2> QED
    BY <2>1, <2>5, <2>6, <2>0, <1>2 DEF Sound
<1> QED
  BY <1>8, <1>9, <1>10

\* The same when a job that is over is cleared away.
LEMMA SettledRests ==
  ASSUME TypeInv, NEW j \in Jobs, NEW D, job[j].room \in Rooms,
         NEW t, t = Settled(NextDay(j, D))
  PROVE  t \in JobRecord /\ Sound(t) /\ t.at \in {"look", "check", "idle", "rooms"}
<1>1. PICK u : u = NextDay(j, D)
  OBVIOUS
<1>2. t = u \/ t = Idle
  BY <1>1 DEF Settled
<1> QED
  BY <1>1, <1>2, NextDayRests, IdleSound

\* The next batch is of the messages that are left.
LEMMA BatchLeft ==
  ASSUME NEW s PROVE NextBatch(s) \subseteq s.got \ s.batch
BY DEF NextBatch

\* A job that begins: of its fields only what its kind needs is set.
LEMMA BeginStep ==
  ASSUME TypeInv, NEW j \in Jobs, NEW t \in JobRecord,
         t.at \in {"rooms", "look", "load", "purge"}, t.msgs \subseteq 1..posted,
         t.got = {}, t.batch = {}, t.sent = {}, t.seen = 0,
         t.at \in {"look", "load"} => t.room \in Rooms,
         t.at = "load" => t.days # {} /\ "restore" \in mix.kinds,
         t.at # "load" => t.days = {},
         Goes(j, t), UNCHANGED <<rooms, db, clock, object, file, ghosts, mix>>
  PROVE  \E u : Step(j, u)
<1>1. 0 <= posted
  BY Clocks
<1>2. Sound(t)
  BY <1>1 DEF Sound
<1>3. Moves(j, t)
  BY RestingMoves DEF Resting
<1> QED
  BY <1>2, <1>3, SilentStep

\* startArchive() and archiveOldMessages(): a job with rooms to go through.
LEMMA StepOldBegin ==
  ASSUME TypeInv, NEW j \in Jobs, DailyBegin(j) \/ WeeklyBegin(j)
  PROVE  \E t : Step(j, t)
<1> DEFINE F == {r \in rooms : OldIn(r, old) # {}}
           W == UNION {OldIn(r, old) : r \in F}
<1>1. F \subseteq Rooms /\ old \in 0..MaxPosts /\ 0 \in 0..MaxPosts
  BY Clocks DEF TypeInv, TypeOK
<1>2. W \subseteq 1..posted /\ 1..posted \subseteq Msgs
  BY RoomTypes, Clocks
<1>3. CASE DailyBegin(j)
  <2>1. PICK t : t = [Idle EXCEPT !.at = "rooms", !.cutoff = old, !.rooms = F]
    OBVIOUS
  <2>2. Goes(j, t) /\ UNCHANGED <<rooms, db, clock, object, file, ghosts, mix>>
    BY <1>3, <2>1 DEF DailyBegin
  <2> HIDE DEF F
  <2>3. t = [kind |-> "daily", at |-> "rooms", cutoff |-> old, rooms |-> F,
             room |-> NULL, day |-> NULL, days |-> {}, msgs |-> {}, got |-> {},
             batch |-> {}, sent |-> {}, files |-> {}, seen |-> 0]
    BY <2>1 DEF Idle
  <2>4. t \in JobRecord
    BY <2>3, <1>1 DEF JobRecord, Kinds, Stages
  <2> QED
    BY <2>2, <2>3, <2>4, BeginStep
<1>4. CASE WeeklyBegin(j)
  <2>1. PICK t : t = [Idle EXCEPT !.kind = "weekly", !.at = "rooms", !.cutoff = old,
                                  !.rooms = F, !.msgs = W]
    OBVIOUS
  <2>2. Goes(j, t) /\ UNCHANGED <<rooms, db, clock, object, file, ghosts, mix>>
    BY <1>4, <2>1 DEF WeeklyBegin
  <2> HIDE DEF F, W
  <2>3. t = [kind |-> "weekly", at |-> "rooms", cutoff |-> old, rooms |-> F,
             room |-> NULL, day |-> NULL, days |-> {}, msgs |-> W, got |-> {},
             batch |-> {}, sent |-> {}, files |-> {}, seen |-> 0]
    BY <2>1 DEF Idle
  <2>4. t \in JobRecord
    BY <2>3, <1>1, <1>2 DEF JobRecord, Kinds, Stages
  <2> QED
    BY <2>2, <2>3, <2>4, <1>2, BeginStep
<1> QED
  BY <1>3, <1>4

\* startFullArchiveAndDelete(), a restore and a cleanup begin.
LEMMA StepRoomBegin ==
  ASSUME TypeInv, NEW j \in Jobs, NEW r \in Rooms,
         FullBegin(j, r) \/ RestoreBegin(j, r) \/ CleanupBegin(j)
  PROVE  \E t : Step(j, t)
<1> DEFINE D == {d \in Days : object[<<r, d>>] # NULL}
<1>1. rooms \subseteq Rooms /\ posted \in 0..MaxPosts /\ 0 \in 0..MaxPosts
  BY Clocks DEF TypeInv, TypeOK
<1>2. CASE FullBegin(j, r)
  <2>1. PICK t : t = [Idle EXCEPT !.kind = "full", !.at = "look", !.room = r,
                                  !.cutoff = posted]
    OBVIOUS
  <2>2. Goes(j, t) /\ UNCHANGED <<rooms, db, clock, object, file, ghosts, mix>>
    BY <1>2, <2>1 DEF FullBegin
  <2>3. t = [kind |-> "full", at |-> "look", cutoff |-> posted, rooms |-> {},
             room |-> r, day |-> NULL, days |-> {}, msgs |-> {}, got |-> {},
             batch |-> {}, sent |-> {}, files |-> {}, seen |-> 0]
    BY <2>1 DEF Idle
  <2>4. t \in JobRecord
    BY <2>3, <1>1 DEF JobRecord, Kinds, Stages
  <2> QED
    BY <2>2, <2>3, <2>4, BeginStep
<1>3. CASE RestoreBegin(j, r)
  <2>1. PICK t : t = [Idle EXCEPT !.kind = "restore", !.at = "load", !.room = r,
                                  !.days = D]
    OBVIOUS
  <2>2. /\ Goes(j, t) /\ UNCHANGED <<rooms, db, clock, object, file, ghosts, mix>>
        /\ "restore" \in mix.kinds /\ D # {} /\ D \subseteq Days
    BY <1>3, <2>1 DEF RestoreBegin
  <2> HIDE DEF D
  <2>3. t = [kind |-> "restore", at |-> "load", cutoff |-> 0, rooms |-> {},
             room |-> r, day |-> NULL, days |-> D, msgs |-> {}, got |-> {},
             batch |-> {}, sent |-> {}, files |-> {}, seen |-> 0]
    BY <2>1 DEF Idle
  <2>4. t \in JobRecord
    BY <2>2, <2>3, <1>1 DEF JobRecord, Kinds, Stages
  <2> QED
    BY <2>2, <2>3, <2>4, BeginStep
<1>4. CASE CleanupBegin(j)
  <2>1. PICK t : t = [Idle EXCEPT !.kind = "cleanup", !.at = "purge", !.rooms = rooms]
    OBVIOUS
  <2>2. Goes(j, t) /\ UNCHANGED <<rooms, db, clock, object, file, ghosts, mix>>
    BY <1>4, <2>1 DEF CleanupBegin
  <2>3. t = [kind |-> "cleanup", at |-> "purge", cutoff |-> 0, rooms |-> rooms,
             room |-> NULL, day |-> NULL, days |-> {}, msgs |-> {}, got |-> {},
             batch |-> {}, sent |-> {}, files |-> {}, seen |-> 0]
    BY <2>1 DEF Idle
  <2>4. t \in JobRecord
    BY <2>3, <1>1 DEF JobRecord, Kinds, Stages
  <2> QED
    BY <2>2, <2>3, <2>4, BeginStep
<1> QED
  BY <1>2, <1>3, <1>4

\* The next room of a daily or weekly job.
LEMMA StepNextRoom ==
  ASSUME TypeInv, NEW j \in Jobs, NEW r, NextRoom(j, r)
  PROVE  \E t : Step(j, t)
<1> DEFINE s == job[j]
           a1 == [s EXCEPT !.room = r]
           a2 == [a1 EXCEPT !.rooms = @ \ {r}]
           M == IF s.kind = "daily" THEN OldIn(r, s.cutoff) ELSE s.msgs
           H == {m \in M : Room(m) = r}
           d == Min({Local(m) : m \in H})
           G == {m \in H : Local(m) = d}
           v == [a2 EXCEPT !.room = NULL,
                           !.at = IF a2.rooms = {} THEN "idle" ELSE "rooms"]
           c1 == [a2 EXCEPT !.at = "check"]
           c2 == [c1 EXCEPT !.msgs = M]
           c3 == [c2 EXCEPT !.day = d]
           c4 == [c3 EXCEPT !.got = G]
<1>1. s \in JobRecord /\ Sound(s) /\ s.at = "rooms" /\ r \in s.rooms
  BY JobTypes DEF NextRoom
<1>2. /\ Goes(j, IF H = {} THEN Settled(v) ELSE c4)
      /\ UNCHANGED <<rooms, db, clock, object, file, ghosts, mix>>
  BY DEF NextRoom
<1>3. M \subseteq 1..posted
  BY <1>1, RoomTypes DEF Sound
<1> HIDE DEF s, M
<1>4. r \in Rooms /\ s.rooms \subseteq Rooms /\ s.batch = {} /\ s.seen <= posted
      /\ s.msgs \subseteq 1..posted /\ s.got \subseteq 1..posted /\ s.sent \subseteq 1..posted
  BY <1>1 DEF JobRecord, Sound
<1>5. a1 \in JobRecord /\ a1.rooms = s.rooms
  BY <1>1, <1>4 DEF JobRecord
<1>6. a2 \in JobRecord
  <2> HIDE DEF a1
  <2> QED
    BY <1>4, <1>5, FieldTypes
<1>7. /\ a2.room = r /\ a2.batch = {} /\ a2.seen = s.seen /\ a2.sent = s.sent
      /\ a2.got = s.got /\ a2.msgs = s.msgs
  BY <1>1, <1>4 DEF JobRecord
<1> HIDE DEF a2
<1>8. CASE H = {}
  <2>1. PICK a \in {"idle", "rooms"} : a = IF a2.rooms = {} THEN "idle" ELSE "rooms"
    OBVIOUS
  <2>2. v \in JobRecord
    BY <1>6, <2>1, FieldTypes DEF Stages
  <2>3. v.at = a /\ v.batch = {} /\ v.seen = s.seen /\ v.sent = s.sent /\ v.got = s.got /\ v.msgs = s.msgs
    BY <1>6, <1>7, <2>1 DEF JobRecord
  <2> HIDE DEF v
  <2>4. Sound(v)
    BY <2>3, <2>1, <1>4 DEF Sound
  <2>5. PICK t : t = Settled(v)
    OBVIOUS
  <2>6. t \in JobRecord /\ Sound(t) /\ t.at \in {"idle", "rooms"}
    BY <2>1, <2>2, <2>3, <2>4, <2>5, IdleSound DEF Settled
  <2> QED
    BY <1>2, <1>8, <2>5, <2>6, RestingMoves, SilentStep DEF Resting
<1>9. CASE H # {}
  <2>1. H \subseteq 1..posted /\ 1..posted \subseteq Msgs
    BY <1>3, Clocks
  <2>2. d \in Days
    BY <2>1, <1>9, FirstDay
  <2>3. G \subseteq 1..posted /\ \A m \in G : Room(m) = r /\ Local(m) = d
    BY <2>1
  <2> HIDE DEF d, G
  <2>4. c1 \in JobRecord
    BY <1>6, FieldTypes DEF Stages
  <2>5. c2 \in JobRecord
    <3> HIDE DEF c1
    <3> QED
      BY <2>1, <2>4, <1>3, FieldTypes
  <2>6. c3 \in JobRecord
    <3> HIDE DEF c2
    <3> QED
      BY <2>2, <2>5, FieldTypes
  <2>7. c4 \in JobRecord
    <3> HIDE DEF c3
    <3> QED
      BY <2>1, <2>3, <2>6, FieldTypes
  <2>8. /\ c4.at = "check" /\ c4.msgs = M /\ c4.got = G /\ c4.day = d /\ c4.room = r
        /\ c4.batch = {} /\ c4.sent = s.sent /\ c4.seen = s.seen
    BY <1>6, <1>7 DEF JobRecord
  <2> HIDE DEF c4
  <2>9. Sound(c4)
    BY <2>2, <2>3, <2>8, <1>3, <1>4 DEF Sound, Fits
  <2>10. PICK t : t = c4
    OBVIOUS
  <2> QED
    BY <1>2, <1>9, <2>7, <2>8, <2>9, <2>10, RestingMoves, SilentStep DEF Resting
<1> QED
  BY <1>8, <1>9

\* A check after which the day is skipped, or is to be dropped.
LEMMA StepCheckFound ==
  ASSUME TypeInv, NEW j \in Jobs, NEW answers \in BOOLEAN, Check(j, answers),
         object[Slot(j)] # NULL /\ answers
  PROVE  \E t : Step(j, t)
<1> DEFINE s == job[j]
           v == At(j, "drop")
<1>1. s \in JobRecord /\ Sound(s) /\ s.at = "check"
  BY JobTypes DEF Check
<1>2. /\ Goes(j, IF s.kind = "full" THEN v ELSE Settled(NextDay(j, s.got)))
      /\ UNCHANGED <<rooms, db, clock, object, file, ghosts, mix>>
  BY DEF Check, ghosts
<1>3. PICK t : t = IF s.kind = "full" THEN v ELSE Settled(NextDay(j, s.got))
  OBVIOUS
<1>4. CASE s.kind = "full"
  <2>1. v = [s EXCEPT !.at = "drop"]
    BY DEF At
  <2> HIDE DEF s
  <2>2. v \in JobRecord
    BY <1>1, <2>1, FieldTypes DEF Stages
  <2>3. /\ v.at = "drop" /\ v.msgs = s.msgs /\ v.got = s.got /\ v.batch = s.batch
        /\ v.sent = s.sent /\ v.seen = s.seen /\ v.room = s.room /\ v.day = s.day
    BY <1>1, <2>1 DEF JobRecord
  <2> HIDE DEF v
  <2>4. Sound(v)
    BY <1>1, <2>3 DEF Sound
  <2> QED
    BY <1>2, <1>3, <1>4, <2>2, <2>3, <2>4, RestingMoves, SilentStep DEF Resting
<1>5. CASE s.kind # "full"
  <2>1. s.room \in Rooms
    BY <1>1 DEF Sound
  <2>2. t \in JobRecord /\ Sound(t) /\ t.at \in {"look", "check", "idle", "rooms"}
    BY <1>3, <1>5, <2>1, SettledRests
  <2> QED
    BY <1>2, <1>3, <2>2, RestingMoves, SilentStep DEF Resting
<1> QED
  BY <1>4, <1>5

\* A check after which the day is taken on: from then on it is blurred if it has an
\* object or another job is at it.
LEMMA StepCheckTaken ==
  ASSUME TypeInv, NEW j \in Jobs, NEW answers \in BOOLEAN, Check(j, answers),
         ~(object[Slot(j)] # NULL /\ answers)
  PROVE  \E t : Step(j, t)
<1> DEFINE s == job[j]
           v == [s EXCEPT !.at = "put", !.sent = s.got]
           w == [s EXCEPT !.at = "write"]
           z == [s EXCEPT !.at = "read"]
<1>1. s \in JobRecord /\ Sound(s) /\ s.at = "check"
  BY JobTypes DEF Check
<1>2. /\ Goes(j, v) \/ Goes(j, w) \/ Goes(j, z)
      /\ UNCHANGED <<rooms, db, clock, object, file, removed, dropped, mix>>
      /\ blurred' = IF object[Slot(j)] # NULL \/ TakenBy(Slot(j)) # {}
                    THEN blurred \cup {Slot(j)} ELSE blurred
  BY DEF Check
<1>3. Slot(j) \in Slots /\ blurred \subseteq Slots
  BY <1>1, SlotTypes DEF TypeInv, TypeOK
<1>4. /\ blurred \subseteq blurred' /\ blurred' \subseteq Slots
      /\ (object[Slot(j)] # NULL \/ TakenBy(Slot(j)) # {} => Slot(j) \in blurred')
  BY <1>2, <1>3
<1>5. /\ s.msgs \subseteq 1..posted /\ s.got \subseteq 1..posted /\ s.batch = {}
      /\ s.sent \subseteq 1..posted /\ s.seen <= posted /\ s.room \in Rooms
      /\ s.day \in Days /\ (\A m \in s.got : Fits(m, s.room, s.day))
      /\ 1..posted \subseteq Msgs
  BY <1>1, Clocks DEF Sound
<1>6. ASSUME NEW t \in JobRecord, Goes(j, t), t.at \in {"read", "write", "put"},
             t.got = s.got, t.batch = {}, t.msgs = s.msgs, t.seen = s.seen,
             t.room = s.room, t.day = s.day, t.sent \subseteq 1..posted,
             t.at = "put" => t.sent = t.got
      PROVE  \E u : Step(j, u)
  <2>1. Sound(t)
    BY <1>5, <1>6 DEF Sound
  <2>2. Moves(j, t)
    BY <1>1, <1>4, <1>6 DEF Moves, Taking
  <2>3. ObjectStep(j, t) /\ FileStep(j, t) /\ DbStep(j)
    BY <1>2, <1>4, QuietStep
  <2> QED
    BY <1>2, <1>6, <2>1, <2>2, <2>3 DEF Step
<1> HIDE DEF s
<1>7. CASE Goes(j, v)
  <2>1. v \in JobRecord
    BY <1>1, <1>5 DEF JobRecord, Stages
  <2>2. /\ v.at = "put" /\ v.msgs = s.msgs /\ v.got = s.got /\ v.batch = s.batch
        /\ v.sent = s.got /\ v.seen = s.seen /\ v.room = s.room /\ v.day = s.day
    BY <1>1 DEF JobRecord
  <2>3. PICK t : t = v
    OBVIOUS
  <2> HIDE DEF v
  <2> QED
    BY <1>5, <1>6, <1>7, <2>1, <2>2, <2>3
<1>8. CASE Goes(j, w)
  <2>1. w \in JobRecord
    BY <1>1, FieldTypes DEF Stages
  <2>2. /\ w.at = "write" /\ w.msgs = s.msgs /\ w.got = s.got /\ w.batch = s.batch
        /\ w.sent = s.sent /\ w.seen = s.seen /\ w.room = s.room /\ w.day = s.day
    BY <1>1 DEF JobRecord
  <2>3. PICK t : t = w
    OBVIOUS
  <2> HIDE DEF w
  <2> QED
    BY <1>5, <1>6, <1>8, <2>1, <2>2, <2>3
<1>9. CASE Goes(j, z)
  <2>1. z \in JobRecord
    BY <1>1, FieldTypes DEF Stages
  <2>2. /\ z.at = "read" /\ z.msgs = s.msgs /\ z.got = s.got /\ z.batch = s.batch
        /\ z.sent = s.sent /\ z.seen = s.seen /\ z.room = s.room /\ z.day = s.day
    BY <1>1 DEF JobRecord
  <2>3. PICK t : t = z
    OBVIOUS
  <2> HIDE DEF z
  <2> QED
    BY <1>5, <1>6, <1>9, <2>1, <2>2, <2>3
<1> QED
  BY <1>2, <1>7, <1>8, <1>9

\* A batch goes to the temporary file of the day.
LEMMA StepWrite ==
  ASSUME TypeInv, NEW j \in Jobs, Write(j)
  PROVE  \E t : Step(j, t)
<1> DEFINE s == job[j]
           B == s.batch \cup NextBatch(s)
           v1 == [s EXCEPT !.batch = B]
           v == [v1 EXCEPT !.files = @ \cup {Slot(j)}]
<1>1. s \in JobRecord /\ Sound(s) /\ s.at = "write"
  BY JobTypes DEF Write
<1>2. /\ Goes(j, v) /\ file' = [file EXCEPT ![Slot(j)] = B]
      /\ UNCHANGED <<rooms, db, clock, object, ghosts, mix>>
  BY DEF Write
<1>3. Slot(j) \in Slots
  BY <1>1, SlotTypes DEF Taking
<1>4. B \subseteq s.got /\ s.got \subseteq 1..posted /\ 1..posted \subseteq Msgs
  BY <1>1, BatchLeft, Clocks DEF Sound
<1>5. PICK t : t = v
  OBVIOUS
<1> HIDE DEF s, B
<1>6. v1 \in JobRecord /\ v1.files = s.files /\ s.files \subseteq Slots
  BY <1>1, <1>4 DEF JobRecord
<1>7. v \in JobRecord
  <2> HIDE DEF v1
  <2> QED
    BY <1>3, <1>6, FieldTypes
<1>8. /\ v.at = "write" /\ v.msgs = s.msgs /\ v.got = s.got /\ v.batch = B
      /\ v.sent = s.sent /\ v.seen = s.seen /\ v.room = s.room /\ v.day = s.day
  BY <1>1 DEF JobRecord
<1> HIDE DEF v
<1>9. Sound(t)
  BY <1>1, <1>4, <1>5, <1>8 DEF Sound
<1>10. /\ file' \in [Slots -> (SUBSET (1..posted)) \cup {NULL}] /\ file'[Slot(j)] = B
       /\ \A x \in Slots : x # Slot(j) => file'[x] = file[x]
  BY <1>2, <1>3, <1>4 DEF TypeInv, TypeOK
<1>11. Moves(j, t)
  BY <1>1, <1>5, <1>8, <1>10 DEF Moves, Taking, s
<1>12. FileStep(j, t)
  BY <1>1, <1>5, <1>8, <1>10 DEF FileStep, s
<1>13. ObjectStep(j, t) /\ DbStep(j)
  BY <1>2, SameObjects, SameMessages DEF ghosts
<1> QED
  BY <1>2, <1>5, <1>7, <1>9, <1>11, <1>12, <1>13 DEF Step

\* The file is read for the upload.
LEMMA StepSend ==
  ASSUME TypeInv, NEW j \in Jobs, Send(j)
  PROVE  \E t : Step(j, t)
<1> DEFINE s == job[j]
           S == file[Slot(j)]
           v == [s EXCEPT !.at = "put", !.sent = S]
<1>1. s \in JobRecord /\ Sound(s) /\ s.at = "write" /\ s.batch = s.got /\ S # NULL
  BY JobTypes DEF Send
<1>2. Goes(j, v) /\ UNCHANGED <<rooms, db, clock, object, file, ghosts, mix>>
  BY DEF Send
<1>3. Slot(j) \in Slots /\ s.room = Slot(j)[1] /\ s.day = Slot(j)[2]
  BY <1>1, SlotTypes DEF Taking
<1>4. S \subseteq 1..posted /\ \A m \in S : Fits(m, s.room, s.day)
  BY <1>1, <1>3 DEF TypeInv, TypeOK, Filed
<1>5. 1..posted \subseteq Msgs
  BY Clocks
<1>6. PICK t : t = v
  OBVIOUS
<1> HIDE DEF s, S
<1>7. v \in JobRecord
  BY <1>1, <1>4, <1>5 DEF JobRecord, Stages
<1>8. /\ v.at = "put" /\ v.msgs = s.msgs /\ v.got = s.got /\ v.batch = s.batch
      /\ v.sent = S /\ v.seen = s.seen /\ v.room = s.room /\ v.day = s.day
  BY <1>1 DEF JobRecord
<1> HIDE DEF v
<1>9. Sound(t)
  BY <1>1, <1>4, <1>6, <1>8 DEF Sound
<1>10. Moves(j, t)
  BY <1>1, <1>6, <1>8 DEF Moves, Taking, s, S
<1> QED
  BY <1>2, <1>6, <1>7, <1>9, <1>10, SilentStep

\* The object is stored.
LEMMA StepPut ==
  ASSUME TypeInv, NEW j \in Jobs, Put(j)
  PROVE  \E t : Step(j, t)
<1> DEFINE s == job[j]
<1>1. s \in JobRecord /\ Sound(s) /\ s.at = "put"
  BY JobTypes DEF Put
<1>2. PICK a \in {"verify", "delete"} : a = IF s.kind = "weekly" THEN "verify" ELSE "delete"
  OBVIOUS
<1>3. PICK t : t = [s EXCEPT !.at = a]
  OBVIOUS
<1>4. /\ Goes(j, t) /\ object' = [object EXCEPT ![Slot(j)] = s.sent]
      /\ file' = file \/ file' = [file EXCEPT ![Slot(j)] = NULL]
      /\ UNCHANGED <<rooms, db, clock, ghosts, mix>>
  BY <1>2, <1>3 DEF Put, At
<1>5. Slot(j) \in Slots
  BY <1>1, SlotTypes DEF Taking
<1> HIDE DEF s
<1>6. t \in JobRecord
  BY <1>1, <1>3, FieldTypes DEF Stages
<1>7. /\ t.at = a /\ t.msgs = s.msgs /\ t.got = s.got /\ t.batch = s.batch
      /\ t.sent = s.sent /\ t.seen = s.seen /\ t.room = s.room /\ t.day = s.day
  BY <1>1, <1>3 DEF JobRecord
<1>8. Sound(t)
  BY <1>1, <1>7 DEF Sound
<1>9. /\ object' \in [Slots -> (SUBSET (1..posted)) \cup {NULL}] /\ object'[Slot(j)] = s.sent
      /\ \A x \in Slots : x # Slot(j) => object'[x] = object[x]
  BY <1>1, <1>4, <1>5 DEF TypeInv, TypeOK, Sound
<1>10. /\ file' \in [Slots -> (SUBSET (1..posted)) \cup {NULL}]
       /\ \A x \in Slots : file'[x] = file[x] \/ file'[x] = NULL
  BY <1>4, <1>5 DEF TypeInv, TypeOK
<1>11. Moves(j, t)
  BY <1>1, <1>7, <1>9 DEF Moves, Taking, s
<1>12. ObjectStep(j, t) /\ FileStep(j, t)
  BY <1>1, <1>7, <1>9, <1>10 DEF ObjectStep, FileStep, s
<1>13. DbStep(j)
  BY <1>4, SameMessages DEF ghosts
<1> QED
  BY <1>4, <1>6, <1>8, <1>11, <1>12, <1>13 DEF Step

\* The object of the weekly job is there.
LEMMA StepVerify ==
  ASSUME TypeInv, NEW j \in Jobs, Verify(j)
  PROVE  \E t : Step(j, t)
<1> DEFINE s == job[j]
<1>1. s \in JobRecord /\ Sound(s) /\ s.at = "verify"
  BY JobTypes DEF Verify
<1>2. PICK t : t = [s EXCEPT !.at = "delete"]
  OBVIOUS
<1>3. Goes(j, t) /\ UNCHANGED <<rooms, db, clock, object, file, ghosts, mix>>
  BY <1>2 DEF Verify, At
<1> HIDE DEF s
<1>4. t \in JobRecord
  BY <1>1, <1>2, FieldTypes DEF Stages
<1>5. /\ t.at = "delete" /\ t.msgs = s.msgs /\ t.got = s.got /\ t.batch = s.batch
      /\ t.sent = s.sent /\ t.seen = s.seen /\ t.room = s.room /\ t.day = s.day
  BY <1>1, <1>2 DEF JobRecord
<1>6. Sound(t)
  BY <1>1, <1>5 DEF Sound
<1>7. Moves(j, t)
  BY <1>1, <1>3, <1>5 DEF Moves, Taking, s
<1> QED
  BY <1>3, <1>4, <1>6, <1>7, SilentStep

\* The messages of the day go.
LEMMA StepDeleteDay ==
  ASSUME TypeInv, NEW j \in Jobs, DeleteDay(j)
  PROVE  \E t : Step(j, t)
<1>1. PICK t : t = Settled(NextDay(j, job[j].got))
  OBVIOUS
<1>2. job[j].at = "delete" /\ job[j].room \in Rooms
  BY JobTypes DEF DeleteDay, Sound
<1>3. /\ Goes(j, t) /\ db' = db \ job[j].got
      /\ UNCHANGED <<rooms, clock, object, file, ghosts, mix>>
  BY <1>1 DEF DeleteDay
<1>4. t \in JobRecord /\ Sound(t) /\ t.at \in Resting
  BY <1>1, <1>2, SettledRests DEF Resting
<1>5. DbStep(j)
  BY <1>2, <1>3 DEF DbStep, TypeInv, TypeOK, ghosts
<1> QED
  BY <1>3, <1>4, <1>5, RestingMoves, SameObjects, SameFiles DEF Step

\* A step throws: an upload may have been stored, files go.
LEMMA StepFail ==
  ASSUME TypeInv, NEW j \in Jobs, NEW stored \in BOOLEAN, Fail(j, stored)
  PROVE  \E t : Step(j, t)
<1> DEFINE s == job[j]
           mine == IF s.kind = "daily" THEN s.files
                   ELSE IF s.kind = "full" /\ s.at \in {"write", "put", "delete"}
                   THEN {Slot(j)} ELSE {}
           D == {m \in s.msgs : Room(m) = s.room}
<1>1. PICK t : t = IF s.kind = "weekly" THEN Settled(NextDay(j, D)) ELSE Idle
  OBVIOUS
<1>2. /\ s \in JobRecord /\ Sound(s) /\ s.at \notin {"idle", "check", "load", "purge"}
      /\ s.at = "rooms" => s.kind = "daily"
      /\ stored => s.at = "put"
  BY JobTypes DEF Fail
<1>3. /\ Goes(j, t) /\ UNCHANGED <<rooms, db, clock, ghosts, mix>>
      /\ object' = IF stored THEN [object EXCEPT ![Slot(j)] = s.sent] ELSE object
      /\ file' = [f \in Slots |-> IF f \in mine THEN NULL ELSE file[f]]
  BY <1>1 DEF Fail
<1> HIDE DEF mine, D
<1>4. t \in JobRecord /\ Sound(t) /\ t.at \in {"look", "check", "idle", "rooms"}
  <2>1. CASE s.kind = "weekly"
    <3>1. s.room \in Rooms
      BY <2>1, <1>2 DEF Sound
    <3> QED
      BY <2>1, <3>1, <1>1, SettledRests
  <2>2. CASE s.kind # "weekly"
    BY <2>2, <1>1, IdleSound
  <2> QED
    BY <2>1, <2>2
<1>5. FileStep(j, t)
  BY <1>3 DEF FileStep, TypeInv, TypeOK
<1>6. ObjectStep(j, t)
  <2>1. CASE stored
    <3>1. s.at = "put" /\ s.sent \subseteq 1..posted
      BY <2>1, <1>2 DEF Sound
    <3>2. Slot(j) \in Slots
      BY <3>1, SlotTypes DEF Taking
    <3>3. /\ object' \in [Slots -> (SUBSET (1..posted)) \cup {NULL}]
          /\ object'[Slot(j)] = s.sent
          /\ \A x \in Slots : x # Slot(j) => object'[x] = object[x]
      BY <2>1, <3>1, <3>2, <1>3 DEF TypeInv, TypeOK
    <3> QED
      BY <3>1, <3>3, <1>4 DEF ObjectStep
  <2>2. CASE ~stored
    BY <2>2, <1>3, SameObjects
  <2> QED
    BY <2>1, <2>2
<1>7. DbStep(j)
  BY <1>3, SameMessages DEF ghosts
<1>8. Moves(j, t)
  BY <1>4, RestingMoves DEF Resting
<1> QED
  BY <1>3, <1>4, <1>5, <1>6, <1>7, <1>8 DEF Step

\* The latest message of the room tells the next day; without one the room goes next.
LEMMA StepLook ==
  ASSUME TypeInv, NEW j \in Jobs, Look(j)
  PROVE  \E t : Step(j, t)
<1> DEFINE s == job[j]
           H == InRoom(s.room)
           d == Utc(Max(H))
           v == [s EXCEPT !.at = "gone", !.seen = posted]
           w == [s EXCEPT !.at = "check", !.day = d]
<1>1. s \in JobRecord /\ Sound(s) /\ s.at = "look"
  BY JobTypes DEF Look
<1>2. /\ Goes(j, IF H = {} THEN v ELSE w)
      /\ UNCHANGED <<rooms, db, clock, object, file, ghosts, mix>>
  BY DEF Look
<1>3. H \subseteq 1..posted /\ posted \in 0..MaxPosts /\ posted <= posted /\ posted \in Nat
  BY RoomTypes, Clocks
<1> HIDE DEF s, H
<1>4. CASE H = {}
  <2>1. PICK t : t = v
    OBVIOUS
  <2>2. t \in JobRecord
    BY <2>1, <1>1, <1>3 DEF JobRecord, Stages
  <2>3. /\ t.at = "gone" /\ t.msgs = s.msgs /\ t.got = s.got /\ t.batch = s.batch
        /\ t.sent = s.sent /\ t.seen = posted /\ t.room = s.room /\ t.days = s.days
    BY <2>1, <1>1 DEF JobRecord
  <2>4. Sound(t)
    BY <2>3, <1>1, <1>3 DEF Sound
  <2>5. Moves(j, t)
    BY <2>3, <1>2, <1>4 DEF Moves, Taking, H
  <2> QED
    BY <2>1, <2>2, <2>4, <2>5, <1>2, <1>4, SilentStep
<1>5. CASE H # {}
  <2>1. H \subseteq Nat /\ \A y \in H : y <= posted
    BY <1>3
  <2>2. Max(H) \in H
    BY <2>1, <1>3, <1>5, GreatestNat
  <2>3. d \in Days
    BY <2>2, <1>3, MessageTypes
  <2>4. PICK t : t = w
    OBVIOUS
  <2> HIDE DEF d
  <2>5. t \in JobRecord
    BY <2>3, <2>4, <1>1 DEF JobRecord, Stages
  <2>6. /\ t.at = "check" /\ t.msgs = s.msgs /\ t.got = s.got /\ t.batch = s.batch
        /\ t.sent = s.sent /\ t.seen = s.seen /\ t.room = s.room /\ t.day = d
    BY <2>4, <1>1 DEF JobRecord
  <2>7. Sound(t)
    BY <2>3, <2>6, <1>1 DEF Sound
  <2>8. Moves(j, t)
    BY <2>6, RestingMoves DEF Resting
  <2> QED
    BY <2>4, <2>5, <2>7, <2>8, <1>2, <1>5, SilentStep
<1> QED
  BY <1>4, <1>5

\* A full archive reads the messages of the day.
LEMMA StepReadDay ==
  ASSUME TypeInv, NEW j \in Jobs, ReadDay(j)
  PROVE  \E t : Step(j, t)
<1> DEFINE s == job[j]
           H == {m \in InRoom(s.room) : Utc(m) = s.day}
           w == [s EXCEPT !.at = "write", !.got = H]
<1>1. s \in JobRecord /\ Sound(s) /\ s.at = "read"
  BY JobTypes DEF ReadDay
<1>2. /\ Goes(j, IF H = {} THEN NextDay(j, {}) ELSE w)
      /\ UNCHANGED <<rooms, db, clock, object, file, ghosts, mix>>
  BY DEF ReadDay
<1>3. H \subseteq 1..posted /\ 1..posted \subseteq Msgs /\ \A m \in H : Fits(m, s.room, s.day)
  BY RoomTypes, Clocks DEF Fits
<1>4. s.room \in Rooms /\ s.batch = {}
  BY <1>1 DEF Sound
<1>5. CASE H = {}
  <2>1. PICK t : t = NextDay(j, {})
    OBVIOUS
  <2>2. t \in JobRecord /\ Sound(t) /\ t.at \in Resting
    BY <2>1, <1>4, NextDayRests DEF Resting
  <2> QED
    BY <2>1, <2>2, <1>2, <1>5, RestingMoves, SilentStep
<1> HIDE DEF s, H
<1>6. CASE H # {}
  <2>1. PICK t : t = w
    OBVIOUS
  <2>2. t \in JobRecord
    BY <2>1, <1>1, <1>3 DEF JobRecord, Stages
  <2>3. /\ t.at = "write" /\ t.msgs = s.msgs /\ t.got = H /\ t.batch = s.batch
        /\ t.sent = s.sent /\ t.seen = s.seen /\ t.room = s.room /\ t.day = s.day
    BY <2>1, <1>1 DEF JobRecord
  <2>4. Sound(t)
    BY <2>3, <1>1, <1>3, <1>4 DEF Sound
  <2>5. Moves(j, t)
    BY <2>3, <1>1, <1>4 DEF Moves, Taking, s
  <2> QED
    BY <2>1, <2>2, <2>4, <2>5, <1>2, <1>6, SilentStep
<1> QED
  BY <1>5, <1>6

\* A message of the room that is not among the unarchived is in its object.
LEMMA ArchivedOrNot ==
  ASSUME TypeInv, NEW r, NEW m \in InRoom(r), r \in Rooms
  PROVE  m \in Unarchived(r) \/ InObject(m)
<1>1. Room(m) = r
  BY RoomTypes
<1> SUFFICES ASSUME m \notin Unarchived(r) PROVE InObject(m)
  OBVIOUS
<1>2. PICK d \in Days : object[<<r, d>>] # NULL /\ m \in object[<<r, d>>]
  BY DEF Unarchived
<1>3. <<r, d>> \in Slots /\ <<r, d>>[2] = d /\ <<r, d>>[1] = r
  BY DEF Slots
<1>4. Fits(m, r, d)
  <2>1. \A x \in Slots : object[x] # NULL => \A n \in object[x] : Fits(n, x[1], x[2])
    BY DEF TypeInv, Filed
  <2>2. Fits(m, <<r, d>>[1], <<r, d>>[2])
    BY <2>1, <1>2, <1>3
  <2> QED
    BY <2>2
<1> QED
  BY <1>1, <1>2, <1>4 DEF InObject, Fits

\* The day has an object: its messages go.
LEMMA StepDropDay ==
  ASSUME TypeInv, NEW j \in Jobs, DropDay(j)
  PROVE  \E t : Step(j, t)
<1> DEFINE r == job[j].room
           H == {m \in InRoom(r) : Utc(m) = job[j].day}
<1>1. PICK t : t = NextDay(j, {})
  OBVIOUS
<1>2. r \in Rooms
  BY JobTypes DEF DropDay, Sound
<1>3. /\ Goes(j, t) /\ db' = db \ H /\ dropped' = dropped \cup (H \cap Unarchived(r))
      /\ UNCHANGED <<rooms, clock, object, file, removed, blurred, mix>>
  BY <1>1 DEF DropDay
<1>4. t \in JobRecord /\ Sound(t) /\ t.at \in Resting
  BY <1>1, <1>2, NextDayRests DEF Resting
<1>5. H \subseteq InRoom(r) /\ H \subseteq 1..posted
  BY RoomTypes
<1> HIDE DEF H
<1>6. \A m \in H : m \in Unarchived(r) \/ InObject(m)
  BY <1>2, <1>5, ArchivedOrNot
<1>7. DbStep(j)
  BY <1>3, <1>5, <1>6 DEF DbStep, TypeInv, TypeOK
<1> QED
  BY <1>3, <1>4, <1>7, RestingMoves, SameObjects, SameFiles DEF Step

\* The room goes, with its messages.
LEMMA StepDeleteRoom ==
  ASSUME TypeInv, NEW j \in Jobs, DeleteRoom(j)
  PROVE  \E t : Step(j, t)
<1> DEFINE r == job[j].room
<1>1. /\ job[j].at = "gone" /\ rooms' = rooms \ {r} /\ db' = db \ InRoom(r)
      /\ dropped' = dropped \cup Unarchived(r) /\ Goes(j, Idle)
      /\ UNCHANGED <<clock, object, file, removed, blurred, mix>>
  BY DEF DeleteRoom
<1>2. r \in Rooms
  BY <1>1, JobTypes DEF Sound
<1>3. InRoom(r) \subseteq 1..posted /\ Unarchived(r) \subseteq 1..posted
  BY RoomTypes DEF Unarchived
<1>4. \A m \in InRoom(r) : m \in Unarchived(r) \/ InObject(m)
  BY <1>2, ArchivedOrNot
<1>5. DbStep(j)
  BY <1>1, <1>3, <1>4 DEF DbStep, TypeInv, TypeOK
<1>6. PICK t : t = Idle
  OBVIOUS
<1>7. t \in JobRecord /\ Sound(t) /\ t.at \in Resting
  BY <1>6, IdleSound DEF Resting
<1> QED
  BY <1>1, <1>5, <1>6, <1>7, RestingMoves, SameObjects, SameFiles DEF Step

\* A restore reads the next object of the room.
LEMMA StepLoad ==
  ASSUME TypeInv, NEW j \in Jobs, NEW answers \in BOOLEAN, Load(j, answers)
  PROVE  \E t : Step(j, t)
<1> DEFINE s == job[j]
           d == Min(s.days)
           found == IF answers /\ object[<<s.room, d>>] # NULL
                    THEN object[<<s.room, d>>] ELSE {}
           r1 == [s EXCEPT !.days = @ \ {d}]
           read == [r1 EXCEPT !.got = @ \cup found]
           v == [read EXCEPT !.at = "insert"]
<1>1. s \in JobRecord /\ Sound(s) /\ s.at = "load"
  BY JobTypes DEF Load
<1>2. /\ Goes(j, IF read.days # {} THEN read ELSE IF read.got = {} THEN Idle ELSE v)
      /\ UNCHANGED <<rooms, db, clock, object, file, ghosts, mix>>
  BY DEF Load
<1>3. /\ s.days # {} /\ s.days \subseteq Days /\ Days \subseteq Nat /\ s.room \in Rooms
      /\ s.got \subseteq 1..posted /\ 1..posted \subseteq Msgs /\ "restore" \in mix.kinds
  BY <1>1, Clocks, Fields DEF Sound
<1>4. d \in Days
  BY <1>3, LeastNat
<1>5. found \subseteq 1..posted
  <2>1. <<s.room, d>> \in Slots
    BY <1>3, <1>4 DEF Slots
  <2> HIDE DEF d, s
  <2> QED
    BY <2>1 DEF TypeInv, TypeOK
<1> HIDE DEF s, d, found
<1>6. r1 \in JobRecord /\ r1.got = s.got
  BY <1>1, <1>3 DEF JobRecord
<1>7. read \in JobRecord
  <2> HIDE DEF r1
  <2> QED
    BY <1>3, <1>5, <1>6, FieldTypes
<1>8. /\ read.at = "load" /\ read.msgs = s.msgs /\ read.got = s.got \cup found
      /\ read.batch = s.batch /\ read.sent = s.sent /\ read.seen = s.seen
      /\ read.room = s.room
  BY <1>1 DEF JobRecord
<1> HIDE DEF read
<1>9. v \in JobRecord
  BY <1>7, FieldTypes DEF Stages
<1>10. /\ v.at = "insert" /\ v.msgs = s.msgs /\ v.got = s.got \cup found
       /\ v.batch = s.batch /\ v.sent = s.sent /\ v.seen = s.seen /\ v.room = s.room
  BY <1>7, <1>8 DEF JobRecord
<1> HIDE DEF v
<1>11. PICK t : t = IF read.days # {} THEN read ELSE IF read.got = {} THEN Idle ELSE v
  OBVIOUS
<1>12. t \in JobRecord /\ Sound(t) /\ t.at \in Resting
  <2>1. CASE t = Idle
    BY <2>1, IdleSound DEF Resting
  <2>2. CASE t = read /\ read.days # {}
    BY <2>2, <1>1, <1>3, <1>5, <1>7, <1>8 DEF Sound, Resting
  <2>3. CASE t = v
    BY <2>3, <1>1, <1>3, <1>5, <1>9, <1>10 DEF Sound, Resting
  <2> QED
    BY <1>11, <2>1, <2>2, <2>3
<1> QED
  BY <1>2, <1>11, <1>12, RestingMoves, SilentStep

\* A restore inserts the next chunk of what it has read.
LEMMA StepInsert ==
  ASSUME TypeInv, NEW j \in Jobs, Insert(j)
  PROVE  \E t : Step(j, t)
<1> DEFINE s == job[j]
           C == NextBatch(s)
           done == [s EXCEPT !.batch = @ \cup C]
<1>1. s \in JobRecord /\ Sound(s) /\ s.at = "insert"
  BY JobTypes DEF Insert
<1>2. /\ db' = db \cup C /\ Goes(j, IF done.batch = s.got THEN Idle ELSE done)
      /\ UNCHANGED <<rooms, clock, object, file, ghosts, mix>>
  BY DEF Insert
<1>3. C \subseteq s.got
  BY BatchLeft
<1>4. /\ s.got \subseteq 1..posted /\ 1..posted \subseteq Msgs /\ s.batch \subseteq 1..posted
      /\ s.batch \subseteq Msgs /\ "restore" \in mix.kinds
  BY <1>1, Clocks, Fields DEF Sound
<1>5. DbStep(j)
  BY <1>2, <1>3, <1>4 DEF DbStep, TypeInv, TypeOK, ghosts
<1> HIDE DEF s, C
<1>6. done \in JobRecord
  BY <1>1, <1>3, <1>4, FieldTypes
<1>7. /\ done.at = "insert" /\ done.msgs = s.msgs /\ done.got = s.got
      /\ done.batch = s.batch \cup C /\ done.sent = s.sent /\ done.seen = s.seen
      /\ done.room = s.room
  BY <1>1 DEF JobRecord
<1> HIDE DEF done
<1>8. PICK t : t = IF done.batch = s.got THEN Idle ELSE done
  OBVIOUS
<1>9. t \in JobRecord /\ Sound(t) /\ t.at \in Resting
  <2>1. CASE t = Idle
    BY <2>1, IdleSound DEF Resting
  <2>2. CASE t = done
    BY <2>2, <1>1, <1>3, <1>4, <1>6, <1>7 DEF Sound, Resting
  <2> QED
    BY <1>8, <2>1, <2>2
<1> QED
  BY <1>2, <1>5, <1>8, <1>9, RestingMoves, SameObjects, SameFiles DEF Step

\* A cleanup lists the objects of the next room.
LEMMA StepCleanup ==
  ASSUME TypeInv, NEW j \in Jobs, NEW r \in Rooms, NEW answers \in BOOLEAN,
         CleanupList(j, r, answers)
  PROVE  \E t : Step(j, t)
<1> DEFINE s == job[j]
           D == {d \in Days : d <= expired /\ object[<<r, d>>] # NULL}
           E == IF answers THEN D ELSE {}
           u1 == [s EXCEPT !.rooms = @ \ {r}]
           u2 == [u1 EXCEPT !.room = r]
           v == [u2 EXCEPT !.days = E]
<1>1. s \in JobRecord /\ Sound(s)
  BY JobTypes
<1>2. /\ Goes(j, v) /\ s.at = "purge"
      /\ UNCHANGED <<rooms, db, clock, object, file, ghosts, mix>>
  BY DEF CleanupList
<1>3. E \subseteq Days /\ \A d \in E : d <= expired
  OBVIOUS
<1> HIDE DEF s, E
<1>4. u1 \in JobRecord
  BY <1>1, FieldTypes, Fields
<1>5. u2 \in JobRecord
  <2> HIDE DEF u1
  <2> QED
    BY <1>4, FieldTypes
<1>6. v \in JobRecord
  <2> HIDE DEF u2
  <2> QED
    BY <1>3, <1>5, FieldTypes
<1>7. /\ v.at = "purge" /\ v.msgs = s.msgs /\ v.got = s.got /\ v.batch = s.batch
      /\ v.sent = s.sent /\ v.seen = s.seen /\ v.room = r /\ v.days = E
  BY <1>1, <1>2 DEF JobRecord
<1>8. PICK t : t = v
  OBVIOUS
<1> HIDE DEF v
<1>9. Sound(t)
  BY <1>1, <1>3, <1>7, <1>8 DEF Sound
<1> QED
  BY <1>2, <1>6, <1>7, <1>8, <1>9, RestingMoves, SilentStep DEF Resting

\* An object past its year goes.
LEMMA StepPurge ==
  ASSUME TypeInv, NEW j \in Jobs, NEW deleted \in BOOLEAN, Purge(j, deleted)
  PROVE  \E t : Step(j, t)
<1> DEFINE s == job[j]
           d == Max(s.days)
           v == [s EXCEPT !.days = @ \ {d}]
<1>1. s \in JobRecord /\ Sound(s) /\ s.at = "purge" /\ s.days # {}
  BY JobTypes DEF Purge
<1>2. /\ object' = IF deleted THEN [object EXCEPT ![<<s.room, d>>] = NULL] ELSE object
      /\ Goes(j, v) /\ UNCHANGED <<rooms, db, clock, file, ghosts, mix>>
  BY DEF Purge
<1>3. /\ s.days \subseteq Nat /\ s.days \subseteq Days /\ expired \in Nat
      /\ (\A x \in s.days : x <= expired) /\ s.room \in Rooms
  BY <1>1, Clocks, Fields DEF Sound
<1>4. d \in s.days
  BY <1>1, <1>3, GreatestNat
<1> HIDE DEF s, d
<1>5. d \in Days /\ d <= expired
  BY <1>3, <1>4
<1>6. PICK x \in Slots : x = <<s.room, d>> /\ x[2] = d
  <2>1. <<s.room, d>> \in Slots /\ <<s.room, d>>[2] = d
    BY <1>3, <1>5 DEF Slots
  <2> QED
    BY <2>1
<1>7. PICK t : t = v
  OBVIOUS
<1>8. t \in JobRecord
  BY <1>1, <1>3, <1>7, FieldTypes
<1>9. /\ t.at = "purge" /\ t.msgs = s.msgs /\ t.got = s.got /\ t.batch = s.batch
      /\ t.sent = s.sent /\ t.seen = s.seen /\ t.room = s.room /\ t.days = s.days \ {d}
  BY <1>1, <1>7 DEF JobRecord
<1>10. Sound(t)
  BY <1>1, <1>3, <1>9 DEF Sound
<1>11. ObjectStep(j, t)
  <2>1. CASE deleted
    <3>1. object' = [object EXCEPT ![x] = NULL]
      BY <2>1, <1>2, <1>6
    <3>2. /\ object' \in [Slots -> (SUBSET (1..posted)) \cup {NULL}] /\ object'[x] = NULL
          /\ \A y \in Slots : y # x => object'[y] = object[y]
      BY <3>1 DEF TypeInv, TypeOK
    <3> QED
      BY <3>2, <1>5, <1>6 DEF ObjectStep
  <2>2. CASE ~deleted
    BY <2>2, <1>2, SameObjects
  <2> QED
    BY <2>1, <2>2
<1>12. DbStep(j)
  BY <1>2, SameMessages DEF ghosts
<1>13. Moves(j, t)
  BY <1>9, RestingMoves DEF Resting
<1>14. FileStep(j, t) /\ Goes(j, t) /\ UNCHANGED <<clock, mix>>
  BY <1>2, <1>7, SameFiles
<1> QED
  BY <1>8, <1>10, <1>11, <1>12, <1>13, <1>14 DEF Step

\* Whatever a job does is a Step of it.
LEMMA JobSteps ==
  ASSUME TypeInv, NEW j \in Jobs, Begins(j) \/ Works(j)
  PROVE  \E t : Step(j, t)
<1> DEFINE Q == \E t : Step(j, t)
<1> SUFFICES Q
  OBVIOUS
<1> HIDE DEF Q
<1>1. CASE Begins(j)
  <2>1. ASSUME DailyBegin(j) \/ WeeklyBegin(j)  PROVE Q
    BY <2>1, StepOldBegin DEF Q
  <2>2. ASSUME CleanupBegin(j)  PROVE Q
    <3>1. PICK r \in Rooms : TRUE
      BY <2>2 DEF CleanupBegin, TypeInv, TypeOK
    <3> QED
      BY <2>2, <3>1, StepRoomBegin DEF Q
  <2>3. ASSUME NEW r \in Rooms, FullBegin(j, r) \/ RestoreBegin(j, r)  PROVE Q
    BY <2>3, StepRoomBegin DEF Q
  <2> QED
    BY <1>1, <2>1, <2>2, <2>3 DEF Begins
<1>2. CASE Works(j)
  <2>1. ASSUME NEW r \in Rooms, NextRoom(j, r)  PROVE Q
    BY <2>1, StepNextRoom DEF Q
  <2>2. ASSUME NEW answers \in BOOLEAN, Check(j, answers)  PROVE Q
    BY <2>2, StepCheckFound, StepCheckTaken DEF Q
  <2>3. ASSUME NEW answers \in BOOLEAN, Load(j, answers)  PROVE Q
    BY <2>3, StepLoad DEF Q
  <2>4. ASSUME Write(j) \/ Send(j) \/ Put(j) \/ Verify(j)  PROVE Q
    BY <2>4, StepWrite, StepSend, StepPut, StepVerify DEF Q
  <2>5. ASSUME DeleteDay(j) \/ Look(j) \/ ReadDay(j)  PROVE Q
    BY <2>5, StepDeleteDay, StepLook, StepReadDay DEF Q
  <2>6. ASSUME DropDay(j) \/ DeleteRoom(j) \/ Insert(j)  PROVE Q
    BY <2>6, StepDropDay, StepDeleteRoom, StepInsert DEF Q
  <2>7. ASSUME NEW r \in Rooms, NEW answers \in BOOLEAN, CleanupList(j, r, answers)  PROVE Q
    BY <2>7, StepCleanup DEF Q
  <2>8. ASSUME CleanupEnd(j)  PROVE Q
    <3>1. PICK t : t = Idle
      OBVIOUS
    <3>2. Goes(j, t) /\ UNCHANGED <<rooms, db, clock, object, file, ghosts, mix>>
      BY <2>8, <3>1 DEF CleanupEnd
    <3> QED
      BY <3>1, <3>2, IdleSound, RestingMoves, SilentStep DEF Q, Resting
  <2>9. ASSUME NEW b \in BOOLEAN, Purge(j, b) \/ Fail(j, b)  PROVE Q
    BY <2>9, StepPurge, StepFail DEF Q
  <2> QED
    BY <1>2, <2>1, <2>2, <2>3, <2>4, <2>5, <2>6, <2>7, <2>8, <2>9 DEF Works
<1> QED
  BY <1>1, <1>2

-----------------------------------------------------------------------------
\* What a job is about stays so while messages come in and days expire.
LEMMA SoundKept ==
  ASSUME TypeInv, NEW s, Sound(s), mix' = mix, posted' \in Nat, posted <= posted',
         expired' \in Nat, expired <= expired', s \in JobRecord
  PROVE  Sound(s)'
<1>1. 1..posted \subseteq 1..posted'
  BY Clocks
<1>2. \A m, r, d : Fits(m, r, d)' <=> Fits(m, r, d)
  BY DEF Fits, Room, Local, Utc
<1>3. s.seen <= posted'
  BY Clocks, Fields DEF Sound
<1>4. s.days \subseteq Nat /\ \A d \in s.days : d <= expired => d <= expired'
  BY Clocks, Fields
<1> QED
  BY <1>1, <1>2, <1>3, <1>4 DEF Sound

\* The jobs after a step of one of them.
LEMMA Others ==
  ASSUME TypeInv, NEW j \in Jobs, NEW t \in JobRecord, Goes(j, t)
  PROVE  /\ job' \in [Jobs -> JobRecord] /\ job'[j] = t
         /\ \A k \in Jobs : k # j => job'[k] = job[k]
BY DEF Goes, TypeInv, TypeOK

\* TypeInv once its parts are known; the room at hand follows from Sound.
LEMMA TypeAfter ==
  ASSUME TypeInv, mix' = mix, rooms' \subseteq Rooms,
         posted' \in 0..MaxPosts, old' \in 0..posted', expired' \in Days \cup {0},
         db' \subseteq 1..posted', removed' \subseteq 1..posted', dropped' \subseteq 1..posted',
         object' \in [Slots -> (SUBSET (1..posted')) \cup {NULL}],
         file' \in [Slots -> (SUBSET (1..posted')) \cup {NULL}],
         job' \in [Jobs -> JobRecord], blurred' \subseteq Slots,
         posted' <= Len(mix.posts), Filed', \A k \in Jobs : Sound(job[k])'
  PROVE  TypeInv'
<1>1. mix' \in Mixes /\ posted' <= Len(mix'.posts)
  BY DEF TypeInv, TypeOK
<1>2. \A k \in Jobs : job'[k].at \notin {"idle", "rooms", "purge"} => job'[k].room # NULL
  BY NullAssumption DEF Sound
<1> QED
  BY <1>1, <1>2 DEF TypeInv, TypeOK

\* A step of a job keeps everything well formed.
LEMMA StepType ==
  ASSUME TypeInv, NEW j \in Jobs, NEW t, Step(j, t)
  PROVE  TypeInv'
<1>1. /\ t \in JobRecord /\ Sound(t) /\ Goes(j, t) /\ Moves(j, t)
      /\ ObjectStep(j, t) /\ FileStep(j, t) /\ DbStep(j)
      /\ posted' = posted /\ old' = old /\ expired' = expired /\ mix' = mix
  BY DEF Step, clock
<1>2. \A k \in Jobs : Sound(job[k])'
  <2>1. ASSUME NEW k \in Jobs  PROVE Sound(job[k])'
    <3>1. PICK s : s = IF k = j THEN t ELSE job[k]
      OBVIOUS
    <3>2. s \in JobRecord /\ Sound(s) /\ job'[k] = s
      BY <1>1, <3>1, Others, JobTypes
    <3>3. Sound(s)'
      BY <1>1, <3>2, SoundKept, Clocks
    <3> QED
      BY <3>2, <3>3 DEF Sound
  <2> QED
    BY <2>1
<1>3. \A m, r, d : Fits(m, r, d)' <=> Fits(m, r, d)
  BY <1>1 DEF Fits, Room, Local, Utc
<1>4. \A s \in Slots : object'[s] # NULL => \A m \in object'[s] : Fits(m, s[1], s[2])
  <2>1. ASSUME NEW s \in Slots, object'[s] # NULL, object'[s] # object[s],
               NEW m \in object'[s]
        PROVE  Fits(m, s[1], s[2])
    <3>1. job[j].at = "put" /\ s = Slot(j) /\ object'[s] = job[j].sent
      BY <1>1, <2>1 DEF ObjectStep
    <3>2. Fits(m, job[j].room, job[j].day)
      BY <2>1, <3>1, JobTypes DEF Sound
    <3>3. s[1] = job[j].room /\ s[2] = job[j].day
      BY <3>1, SlotTypes DEF Taking
    <3> QED
      BY <3>2, <3>3
  <2>2. \A s \in Slots : object[s] # NULL => \A m \in object[s] : Fits(m, s[1], s[2])
    BY DEF TypeInv, Filed
  <2> QED
    BY <2>1, <2>2
<1>5. \A s \in Slots : file'[s] # NULL => \A m \in file'[s] : Fits(m, s[1], s[2])
  <2>1. ASSUME NEW s \in Slots, file'[s] # NULL, file'[s] # file[s], NEW m \in file'[s]
        PROVE  Fits(m, s[1], s[2])
    <3>1. job[j].at = "write" /\ t.at = "write" /\ s = Slot(j) /\ file'[s] = t.batch
      BY <1>1, <2>1 DEF FileStep
    <3>2. t.batch \subseteq t.got /\ \A n \in t.got : Fits(n, t.room, t.day)
      BY <1>1, <3>1 DEF Sound
    <3>3. t.room = job[j].room /\ t.day = job[j].day
      BY <1>1, <3>1 DEF Moves, Taking
    <3>4. s[1] = job[j].room /\ s[2] = job[j].day
      BY <3>1, SlotTypes DEF Taking
    <3> QED
      BY <2>1, <3>1, <3>2, <3>3, <3>4
  <2>2. \A s \in Slots : file[s] # NULL => \A m \in file[s] : Fits(m, s[1], s[2])
    BY DEF TypeInv, Filed
  <2> QED
    BY <2>1, <2>2
<1>6. Filed'
  BY <1>3, <1>4, <1>5 DEF Filed
<1>7. /\ rooms' \subseteq Rooms /\ db' \subseteq 1..posted' /\ removed' \subseteq 1..posted'
      /\ dropped' \subseteq 1..posted' /\ blurred' \subseteq Slots
  BY <1>1 DEF DbStep, TypeInv, TypeOK
<1>8. /\ object' \in [Slots -> (SUBSET (1..posted')) \cup {NULL}]
      /\ file' \in [Slots -> (SUBSET (1..posted')) \cup {NULL}]
  BY <1>1 DEF ObjectStep, FileStep
<1>9. /\ posted' \in 0..MaxPosts /\ old' \in 0..posted' /\ expired' \in Days \cup {0}
      /\ posted' <= Len(mix.posts)
  BY <1>1 DEF TypeInv, TypeOK
<1> QED
  BY <1>1, <1>2, <1>6, <1>7, <1>8, <1>9, Others, TypeAfter

\* What the users and the clock do to the rest: nothing goes but what they delete.
Outside ==
  /\ UNCHANGED <<rooms, object, file, blurred, dropped, mix>>
  /\ removed \subseteq removed' /\ db \ db' \subseteq removed'
  /\ db' \subseteq db \cup {posted + 1} /\ db' \subseteq 1..posted' /\ removed' \subseteq 1..posted'
  /\ \/ posted' = posted /\ db' \subseteq db
     \/ posted' = posted + 1 /\ posted + 1 \in db'
  /\ posted' \in 0..MaxPosts /\ posted' <= Len(mix.posts)
  /\ old' \in 0..posted' /\ expired' \in Days \cup {0} /\ expired <= expired'
  /\ job' = job \/ job' = [j \in Jobs |-> Idle]

\* Users post and delete, time passes, the process restarts: nothing else changes.
LEMMA OutsideSteps ==
  ASSUME TypeInv, Post \/ Age \/ Expire \/ Crash \/ \E m \in Msgs : Remove(m)
  PROVE  Outside
<1>1. /\ posted \in Nat /\ posted \in 0..MaxPosts /\ old \in 0..posted /\ expired \in Nat
      /\ expired \in Days \cup {0} /\ Days \subseteq Nat /\ db \subseteq 1..posted
      /\ removed \subseteq 1..posted /\ posted <= Len(mix.posts) /\ MaxPosts \in Nat
  BY Clocks DEF TypeInv, TypeOK
<1>2. CASE Post
  <2>1. /\ posted < Len(mix.posts) /\ posted' = posted + 1 /\ db' = db \cup {posted + 1}
        /\ UNCHANGED <<rooms, old, expired, object, file, job, removed, blurred, dropped, mix>>
    BY <1>2 DEF Post, ghosts
  <2>2. Len(mix.posts) <= MaxPosts /\ Len(mix.posts) \in Nat
    BY MixesAssumption DEF TypeInv, TypeOK
  <2>3. posted' \in 0..MaxPosts /\ posted' <= Len(mix.posts) /\ old' \in 0..posted'
    BY <1>1, <2>1, <2>2
  <2>4. db' \subseteq 1..posted' /\ removed' \subseteq 1..posted' /\ expired <= expired'
    BY <1>1, <2>1
  <2> QED
    BY <1>1, <2>1, <2>3, <2>4 DEF Outside
<1>3. CASE Age
  <2>1. /\ old < posted /\ old' = old + 1
        /\ UNCHANGED <<rooms, db, posted, expired, object, file, job, removed, blurred, dropped, mix>>
    BY <1>3 DEF Age, ghosts
  <2>2. old' \in 0..posted' /\ expired <= expired'
    BY <1>1, <2>1
  <2> QED
    BY <1>1, <2>1, <2>2 DEF Outside
<1>4. CASE Expire
  <2>1. /\ expired' \in Days /\ expired' > expired
        /\ UNCHANGED <<rooms, db, posted, old, object, file, job, removed, blurred, dropped, mix>>
    BY <1>4 DEF Expire, ghosts
  <2>2. expired <= expired'
    BY <1>1, <2>1
  <2> QED
    BY <1>1, <2>1, <2>2 DEF Outside
<1>5. CASE Crash
  <2>1. /\ job' = [j \in Jobs |-> Idle]
        /\ UNCHANGED <<rooms, db, posted, old, expired, object, file, removed, blurred, dropped, mix>>
    BY <1>5 DEF Crash, ghosts, clock
  <2>2. expired <= expired'
    BY <1>1, <2>1
  <2> QED
    BY <1>1, <2>1, <2>2 DEF Outside
<1>6. ASSUME NEW m \in Msgs, Remove(m)  PROVE Outside
  <2>1. /\ m \in db /\ db' = db \ {m} /\ removed' = removed \cup {m}
        /\ UNCHANGED <<rooms, posted, old, expired, object, file, job, blurred, dropped, mix>>
    BY <1>6 DEF Remove, clock
  <2>2. expired <= expired'
    BY <1>1, <2>1
  <2> QED
    BY <1>1, <2>1, <2>2 DEF Outside
<1> QED
  BY <1>2, <1>3, <1>4, <1>5, <1>6

\* Users, time and restarts keep everything well formed.
LEMMA OutsideType ==
  ASSUME TypeInv, Outside
  PROVE  TypeInv'
<1>1. /\ posted' \in Nat /\ posted <= posted' /\ expired' \in Nat /\ expired <= expired'
      /\ mix' = mix /\ 1..posted \subseteq 1..posted'
  BY Clocks DEF Outside
<1>2. \A k \in Jobs : job'[k] \in JobRecord /\ Sound(job'[k]) /\ job' \in [Jobs -> JobRecord]
  BY JobTypes, IdleSound DEF Outside, TypeInv, TypeOK
<1>3. \A k \in Jobs : Sound(job[k])'
  <2>1. ASSUME NEW k \in Jobs  PROVE Sound(job[k])'
    <3>1. PICK s : s = job'[k]
      OBVIOUS
    <3>2. Sound(s)'
      BY <1>1, <1>2, <3>1, SoundKept
    <3> QED
      BY <3>1, <3>2 DEF Sound
  <2> QED
    BY <2>1
<1>4. Filed'
  BY <1>1 DEF Filed, Fits, Room, Local, Utc, Outside, TypeInv
<1>5. /\ object' \in [Slots -> (SUBSET (1..posted')) \cup {NULL}]
      /\ file' \in [Slots -> (SUBSET (1..posted')) \cup {NULL}]
  BY <1>1 DEF Outside, TypeInv, TypeOK
<1>6. /\ rooms' \subseteq Rooms /\ dropped' \subseteq 1..posted' /\ blurred' \subseteq Slots
  BY <1>1 DEF Outside, TypeInv, TypeOK
<1>7. job' \in [Jobs -> JobRecord]
  BY IdleSound DEF Outside, TypeInv, TypeOK
<1> QED
  BY <1>1, <1>3, <1>4, <1>5, <1>6, <1>7, TypeAfter DEF Outside

-----------------------------------------------------------------------------
\* The parts of a step, one by one.
LEMMA StepParts ==
  ASSUME TypeInv, NEW j \in Jobs, NEW t, Step(j, t)
  PROVE  /\ t \in JobRecord /\ Sound(t) /\ Moves(j, t) /\ job'[j] = t
         /\ (\A k \in Jobs : k # j => job'[k] = job[k])
         /\ ObjectStep(j, t) /\ FileStep(j, t) /\ DbStep(j) /\ blurred \subseteq blurred'
         /\ posted' = posted /\ old' = old /\ expired' = expired /\ mix' = mix
BY Others DEF Step, clock, DbStep

\* A job at work on a day after a step was there before, or has just checked it.
LEMMA SlotStep ==
  ASSUME TypeInv, NEW j \in Jobs, NEW t, Step(j, t), NEW k \in Jobs,
         job'[k].at \in Taking
  PROVE  /\ job'[k].room = job[k].room /\ job'[k].day = job[k].day
         /\ Slot(k)' = Slot(k) /\ Slot(k) \in Slots
         /\ job[k].at \in Taking \/ (k = j /\ job[j].at = "check")
<1>1. /\ job'[k].room = job[k].room /\ job'[k].day = job[k].day
      /\ job[k].at \in Taking \/ (k = j /\ job[j].at = "check")
  BY StepParts DEF Moves
<1>2. job[k].at \in Taking \cup {"check", "drop"}
  BY <1>1
<1>3. Slot(k) \in Slots
  BY <1>2, SlotTypes
<1> QED
  BY <1>1, <1>3 DEF Slot

\* Two jobs at work on one day: one was there when the other came, and blurred it.
LEMMA AloneStep ==
  ASSUME TypeInv, NEW j \in Jobs, NEW t, Step(j, t), Alone
  PROVE  Alone'
<1>1. ASSUME NEW k \in Jobs, NEW l \in Jobs, k # l, job'[k].at \in Taking,
             job'[l].at \in Taking, Slot(k) = Slot(l), l # j
      PROVE  Slot(k) \in blurred'
  <2>1. job[l].at \in Taking
    BY <1>1, SlotStep
  <2>2. CASE job[k].at \in Taking
    BY <1>1, <2>1, <2>2, StepParts DEF Alone, Takes, Taking
  <2>3. CASE k = j /\ job[j].at = "check"
    <3>1. l \in TakenBy(Slot(j))
      BY <1>1, <2>1, <2>3 DEF TakenBy, Taking
    <3>2. job'[j] = t /\ Moves(j, t)
      BY StepParts
    <3> QED
      BY <1>1, <2>3, <3>1, <3>2 DEF Moves
  <2> QED
    BY <1>1, <2>2, <2>3, SlotStep
<1>2. ASSUME NEW k \in Jobs, NEW l \in Jobs, k # l, Takes(k)', Takes(l)', Slot(k)' = Slot(l)'
      PROVE  Slot(k)' \in blurred'
  <2>1. job'[k].at \in Taking /\ job'[l].at \in Taking
    BY <1>2 DEF Takes, Taking
  <2>2. Slot(k)' = Slot(k) /\ Slot(l)' = Slot(l)
    BY <2>1, SlotStep
  <2> QED
    BY <1>1, <1>2, <2>1, <2>2
<1> QED
  BY <1>2 DEF Alone

\* Another job that stores at or writes the day of job k finds it blurred.
LEMMA NotMine ==
  ASSUME Alone, NEW j \in Jobs, NEW k \in Jobs, j # k,
         job[j].at \in Taking, job[k].at \in Taking, Slot(j) = Slot(k)
  PROVE  Slot(k) \in blurred
BY DEF Alone, Takes, Taking

\* No object appears on a day at which a job is still at work, but its own.
LEMMA AbsentStep ==
  ASSUME TypeInv, NEW j \in Jobs, NEW t, Step(j, t), Alone,
         \A k \in Jobs : Absent(k), NEW k \in Jobs
  PROVE  Absent(k)'
<1> SUFFICES ASSUME job'[k].at \in {"read", "write", "put"}
             PROVE  object'[Slot(k)] = NULL \/ Slot(k) \in blurred'
  BY SlotStep DEF Absent, Taking
<1>1. /\ Slot(k) \in Slots
      /\ job[k].at \in Taking \/ (k = j /\ job[j].at = "check")
      /\ Slot(k) \in Slots
  BY SlotStep DEF Taking
<1>2. /\ job'[j] = t /\ Moves(j, t) /\ ObjectStep(j, t) /\ blurred \subseteq blurred'
      /\ \A l \in Jobs : l # j => job'[l] = job[l]
  BY StepParts
<1>3. object[Slot(k)] = NULL \/ Slot(k) \in blurred'
  <2>1. CASE k # j
    BY <2>1, <1>2 DEF Absent
  <2>2. CASE k = j /\ job[j].at = "check"
    BY <2>2, <1>2 DEF Moves, Taking
  <2>3. CASE k = j /\ job[j].at # "check"
    <3>1. job[j].at \in {"read", "write"}
      BY <2>3, <1>2 DEF Moves
    <3> QED
      BY <2>3, <3>1, <1>2 DEF Absent
  <2> QED
    BY <2>1, <2>2, <2>3
<1>4. CASE object'[Slot(k)] = object[Slot(k)] \/ object'[Slot(k)] = NULL
  BY <1>3, <1>4
<1>5. CASE job[j].at = "put" /\ Slot(k) = Slot(j) /\ t.at \notin {"read", "write", "put"}
  <2>1. k # j
    BY <1>2, <1>5
  <2>2. job[k].at \in Taking
    BY <2>1, <1>1
  <2> QED
    BY <2>1, <2>2, <1>2, <1>5, NotMine DEF Taking
<1> QED
  BY <1>1, <1>2, <1>4, <1>5 DEF ObjectStep

\* The temporary file holds what its job has written.
LEMMA WrittenStep ==
  ASSUME TypeInv, NEW j \in Jobs, NEW t, Step(j, t), Alone,
         \A k \in Jobs : Written(k), NEW k \in Jobs
  PROVE  Written(k)'
<1> SUFFICES ASSUME job'[k].at = "write"
             PROVE  \/ Slot(k) \in blurred' \/ file'[Slot(k)] = NULL
                    \/ job'[k].batch \subseteq file'[Slot(k)]
  BY SlotStep DEF Written, Taking
<1>1. Slot(k) \in Slots /\ (k # j => job[k].at \in Taking)
  BY SlotStep DEF Taking
<1>2. /\ job'[j] = t /\ Moves(j, t) /\ FileStep(j, t) /\ blurred \subseteq blurred'
      /\ \A l \in Jobs : l # j => job'[l] = job[l]
  BY StepParts
<1>3. CASE k = j
  <2>1. \/ job[j].at \in {"check", "read"} /\ t.batch = {}
        \/ job[j].at = "write" /\ file'[Slot(j)] = t.batch
    BY <1>2, <1>3 DEF Moves
  <2> QED
    BY <2>1, <1>2, <1>3
<1>4. CASE k # j
  <2>1. job'[k] = job[k]
    BY <1>2, <1>4
  <2>2. Slot(k) \in blurred \/ file[Slot(k)] = NULL \/ job[k].batch \subseteq file[Slot(k)]
    BY <2>1 DEF Written
  <2>3. CASE job[j].at = "write" /\ Slot(k) = Slot(j)
    BY <2>3, <1>1, <1>2, <1>4, NotMine DEF Taking
  <2>4. CASE file'[Slot(k)] = file[Slot(k)] \/ file'[Slot(k)] = NULL
    BY <2>1, <2>2, <2>4, <1>2
  <2> QED
    BY <2>3, <2>4, <1>1, <1>2 DEF FileStep
<1> QED
  BY <1>3, <1>4

\* What is uploaded holds what will be deleted.
LEMMA SentStep ==
  ASSUME TypeInv, NEW j \in Jobs, NEW t, Step(j, t), SentWhole,
         \A k \in Jobs : Written(k)
  PROVE  SentWhole'
<1>1. /\ job'[j] = t /\ Moves(j, t) /\ blurred \subseteq blurred'
      /\ \A l \in Jobs : l # j => job'[l] = job[l]
  BY StepParts
<1>2. ASSUME NEW k \in Jobs, job'[k].at = "put"
      PROVE  job'[k].got \subseteq job'[k].sent \/ Slot(k)' \in blurred'
  <2>1. Slot(k)' = Slot(k)
    BY <1>2, SlotStep DEF Taking
  <2>2. CASE k # j
    BY <1>1, <1>2, <2>1, <2>2 DEF SentWhole
  <2>3. CASE k = j
    <3>1. \/ job[j].at = "check" /\ t.sent = t.got
          \/ /\ job[j].at = "write" /\ t.got = job[j].batch
             /\ file[Slot(j)] # NULL /\ t.sent = file[Slot(j)]
      BY <1>1, <1>2, <2>3 DEF Moves
    <3> QED
      BY <1>1, <2>1, <2>3, <3>1 DEF Written
  <2> QED
    BY <2>2, <2>3
<1> QED
  BY <1>2 DEF SentWhole

\* What a job is about to delete is in the object of its day.
LEMMA StoredStep ==
  ASSUME TypeInv, NEW j \in Jobs, NEW t, Step(j, t), Alone, SentWhole,
         \A k \in Jobs : Stored(k), NEW k \in Jobs
  PROVE  Stored(k)'
<1> SUFFICES ASSUME job'[k].at \in {"verify", "delete"}
             PROVE  \/ Slot(k) \in blurred' \/ job[k].day <= expired
                    \/ /\ object'[Slot(k)] # NULL
                       /\ job'[k].got \subseteq object'[Slot(k)]
  <2>1. job'[k].at \in {"verify", "delete"} => Slot(k)' = Slot(k) /\ job'[k].day = job[k].day
    BY SlotStep DEF Taking
  <2>2. expired' = expired
    BY StepParts
  <2> QED
    BY <2>1, <2>2 DEF Stored
<1>1. Slot(k) \in Slots /\ (k # j => job[k].at \in Taking)
  BY SlotStep DEF Taking
<1>2. /\ job'[j] = t /\ Moves(j, t) /\ ObjectStep(j, t) /\ blurred \subseteq blurred'
      /\ \A l \in Jobs : l # j => job'[l] = job[l]
  BY StepParts
<1>3. Slot(k)[2] = job[k].day
  BY DEF Slot
<1>4. CASE k = j
  <2>1. /\ t.got = job[j].got
        /\ \/ job[j].at = "put" /\ object'[Slot(j)] = job[j].sent
           \/ t.at = "delete" /\ job[j].at = "verify" /\ object' = object
    BY <1>2, <1>4 DEF Moves
  <2>2. CASE job[j].at = "put" /\ object'[Slot(j)] = job[j].sent
    <3>1. job[j].sent # NULL
      BY <2>2, JobTypes, NullIsNoSet DEF Sound
    <3> QED
      BY <2>1, <2>2, <3>1, <1>2, <1>4 DEF SentWhole
  <2>3. CASE job[j].at = "verify" /\ object' = object
    BY <2>1, <2>3, <1>2, <1>4 DEF Stored
  <2> QED
    BY <2>1, <2>2, <2>3
<1>5. CASE k # j
  <2>1. job'[k] = job[k]
    BY <1>2, <1>5
  <2>2. \/ Slot(k) \in blurred \/ job[k].day <= expired
        \/ object[Slot(k)] # NULL /\ job[k].got \subseteq object[Slot(k)]
    BY <2>1 DEF Stored
  <2>3. CASE object'[Slot(k)] = object[Slot(k)]
    BY <2>1, <2>2, <2>3, <1>2
  <2>4. CASE object'[Slot(k)] = NULL /\ Slot(k)[2] <= expired
    BY <2>4, <1>3
  <2>5. CASE job[j].at = "put" /\ Slot(k) = Slot(j)
    BY <2>5, <1>1, <1>2, <1>5, NotMine DEF Taking
  <2> QED
    BY <2>3, <2>4, <2>5, <1>1, <1>2 DEF ObjectStep
<1> QED
  BY <1>4, <1>5

\* A room found empty holds only what came after, unless it is restored.
LEMMA EmptiedStep ==
  ASSUME TypeInv, NEW j \in Jobs, NEW t, Step(j, t), \A k \in Jobs : Emptied(k),
         NEW k \in Jobs
  PROVE  Emptied(k)'
<1>1. /\ job'[j] = t /\ Moves(j, t) /\ DbStep(j) /\ posted' = posted /\ mix' = mix
      /\ \A l \in Jobs : l # j => job'[l] = job[l]
  BY StepParts
<1> SUFFICES ASSUME job'[k].at = "gone", "restore" \notin mix.kinds
             PROVE  \A m \in InRoom(job'[k].room) : m > job'[k].seen
  <2>1. db' \subseteq db \/ "restore" \in mix.kinds
    BY <1>1 DEF DbStep
  <2>2. \A r : "restore" \notin mix.kinds => InRoom(r)' \subseteq InRoom(r)
    BY <1>1, <2>1 DEF InRoom, Room
  <2> QED
    BY <1>1, <2>2 DEF Emptied
<1>2. CASE k = j
  <2>1. InRoom(t.room) = {}
    BY <1>1, <1>2 DEF Moves
  <2> QED
    BY <1>1, <1>2, <2>1
<1>3. CASE k # j
  BY <1>1, <1>3 DEF Emptied
<1> QED
  BY <1>2, <1>3

\* Users, time and restarts leave the jobs' days as they are.
LEMMA OutsideDays ==
  ASSUME TypeInv, Outside, DaysInv
  PROVE  DaysInv'
<1>1. /\ object' = object /\ file' = file /\ blurred' = blurred
      /\ job' = job \/ \A j \in Jobs : job'[j].at = "idle"
  BY IdleSound DEF Outside
<1>2. expired \in Nat /\ expired' \in Nat /\ expired <= expired' /\ Days \subseteq Nat
  BY Clocks DEF Outside
<1>3. CASE \A j \in Jobs : job'[j].at = "idle"
  BY <1>3 DEF DaysInv, Alone, Takes, SentWhole, Absent, Written, Stored
<1>4. CASE job' = job
  <2>1. Alone' /\ SentWhole'
    BY <1>1, <1>4 DEF DaysInv, Alone, Takes, SentWhole, Slot
  <2>2. \A j \in Jobs : Absent(j)' /\ Written(j)'
    BY <1>1, <1>4 DEF DaysInv, Absent, Written, Slot
  <2>3. ASSUME NEW j \in Jobs  PROVE Stored(j)'
    <3>1. job[j].at \in {"verify", "delete"} => job[j].day \in Nat
      BY <1>2, SlotTypes DEF Taking
    <3>2. Slot(j)' = Slot(j)
      BY <1>4 DEF Slot
    <3> QED
      BY <1>1, <1>2, <1>4, <3>1, <3>2 DEF DaysInv, Stored
  <2> QED
    BY <2>1, <2>2, <2>3 DEF DaysInv
<1> QED
  BY <1>1, <1>3, <1>4

\* A new message comes after the last look at its room.
LEMMA OutsideEmptied ==
  ASSUME TypeInv, Outside, NEW k \in Jobs, Emptied(k)
  PROVE  Emptied(k)'
<1>1. mix' = mix /\ db' \subseteq db \cup {posted + 1} /\ posted \in Nat
  BY Clocks DEF Outside
<1>2. CASE job' = job
  <2>1. job[k].seen <= posted /\ job[k].seen \in Nat
    BY JobTypes, Fields DEF Sound
  <2>2. posted + 1 > job[k].seen
    BY <1>1, <2>1
  <2>3. InRoom(job[k].room)' \subseteq InRoom(job[k].room) \cup {posted + 1}
    BY <1>1, <1>2 DEF InRoom, Room
  <2> QED
    BY <1>1, <1>2, <2>2, <2>3 DEF Emptied
<1>3. CASE job' = [j \in Jobs |-> Idle]
  BY <1>3, IdleSound DEF Emptied
<1> QED
  BY <1>2, <1>3 DEF Outside

\* What Kept says of one message.
Accounted(m) ==
  \/ m \in db \cup removed \cup dropped \/ InObject(m)
  \/ Local(m) <= expired \/ Utc(m) <= expired
  \/ \E d \in {Local(m), Utc(m)} : <<Room(m), d>> \in blurred

\* A step of a job loses no message.
LEMMA KeptStep ==
  ASSUME TypeInv, NEW j \in Jobs, NEW t, Step(j, t), Kept,
         \A k \in Jobs : Absent(k), \A k \in Jobs : Stored(k)
  PROVE  Kept'
<1>1. /\ ObjectStep(j, t) /\ DbStep(j) /\ posted' = posted /\ expired' = expired /\ mix' = mix
  BY StepParts
<1>2. /\ removed' = removed /\ dropped \subseteq dropped' /\ blurred \subseteq blurred'
      /\ \A m : Room(m)' = Room(m) /\ Local(m)' = Local(m) /\ Utc(m)' = Utc(m)
  BY <1>1 DEF DbStep, Room, Local, Utc
<1>3. ASSUME NEW m \in 1..posted  PROVE Accounted(m)'
  <2>1. Accounted(m) /\ Room(m) \in Rooms /\ Local(m) \in Days /\ Utc(m) \in Days
    BY <1>3, MessageTypes DEF Kept, Accounted
  <2>2. CASE \/ m \in removed \cup dropped \/ Local(m) <= expired \/ Utc(m) <= expired
             \/ \E d \in {Local(m), Utc(m)} : <<Room(m), d>> \in blurred
    BY <1>1, <1>2, <2>2 DEF Accounted
  <2>3. CASE InObject(m)
    <3>1. PICK d \in {Local(m), Utc(m)} :
            object[<<Room(m), d>>] # NULL /\ m \in object[<<Room(m), d>>]
      BY <2>3 DEF InObject
    <3>2. PICK s \in Slots : s = <<Room(m), d>> /\ s[2] = d
      <4>1. <<Room(m), d>> \in Slots /\ <<Room(m), d>>[2] = d
        BY <2>1 DEF Slots
      <4> QED
        BY <4>1
    <3>3. CASE object'[s] = object[s]
      <4>1. object'[<<Room(m), d>>] # NULL /\ m \in object'[<<Room(m), d>>]
        BY <3>1, <3>2, <3>3
      <4>2. InObject(m)'
        BY <4>1, <1>2 DEF InObject
      <4> QED
        BY <4>2 DEF Accounted
    <3>4. CASE object'[s] = NULL /\ s[2] <= expired
      BY <3>2, <3>4, <1>1, <1>2 DEF Accounted
    <3>5. CASE job[j].at = "put" /\ s = Slot(j)
      <4>1. s \in blurred
        BY <3>1, <3>2, <3>5 DEF Absent
      <4> QED
        BY <4>1, <3>2, <1>2 DEF Accounted
    <3> QED
      BY <3>2, <3>3, <3>4, <3>5, <1>1 DEF ObjectStep
  <2>4. CASE m \in db /\ m \in db'
    BY <2>4 DEF Accounted
  <2>5. CASE m \in db /\ m \in dropped'
    BY <2>5 DEF Accounted
  <2>6. CASE InObject(m) /\ object' = object
    BY <2>6, <1>2 DEF Accounted, InObject
  <2>7. CASE job[j].at = "delete" /\ m \in job[j].got /\ object' = object
    <3>1. Fits(m, job[j].room, job[j].day)
      BY <2>7, JobTypes DEF Sound
    <3>2. \/ Slot(j) \in blurred \/ job[j].day <= expired
          \/ object[Slot(j)] # NULL /\ job[j].got \subseteq object[Slot(j)]
      BY <2>7 DEF Stored
    <3>3. \/ InObject(m) \/ Local(m) <= expired \/ Utc(m) <= expired
          \/ \E d \in {Local(m), Utc(m)} : <<Room(m), d>> \in blurred
      BY <2>7, <3>1, <3>2 DEF Slot, Fits, InObject
    <3>4. InObject(m) => InObject(m)'
      BY <2>7, <1>2 DEF InObject
    <3> QED
      BY <3>3, <3>4, <1>1, <1>2 DEF Accounted
  <2>8. m \in db => \/ m \in db' \/ m \in dropped'
                    \/ InObject(m) /\ object' = object
                    \/ job[j].at = "delete" /\ m \in job[j].got /\ object' = object
    BY <1>1 DEF DbStep
  <2> QED
    BY <2>1, <2>2, <2>3, <2>4, <2>5, <2>6, <2>7, <2>8 DEF Accounted
<1> QED
  BY <1>1, <1>3 DEF Kept, Accounted

\* Users, time and restarts lose no message but those that users delete.
LEMMA KeptOutside ==
  ASSUME TypeInv, Outside, Kept
  PROVE  Kept'
<1>1. /\ object' = object /\ dropped' = dropped /\ blurred' = blurred /\ mix' = mix
      /\ removed \subseteq removed' /\ db \ db' \subseteq removed' /\ expired <= expired'
      /\ posted' = posted \/ (posted' = posted + 1 /\ posted + 1 \in db')
      /\ expired \in Nat /\ expired' \in Nat /\ posted \in Nat
  BY Clocks DEF Outside
<1>2. \A m : /\ Room(m)' = Room(m) /\ Local(m)' = Local(m) /\ Utc(m)' = Utc(m)
             /\ InObject(m)' <=> InObject(m)
  BY <1>1 DEF Room, Local, Utc, InObject
<1>3. ASSUME NEW m \in 1..posted'  PROVE Accounted(m)'
  <2>1. CASE m \in 1..posted
    <3>1. Accounted(m) /\ Local(m) \in Nat /\ Utc(m) \in Nat
      BY <2>1, MessageTypes, Clocks DEF Kept, Accounted
    <3>2. /\ Local(m) <= expired => Local(m) <= expired'
          /\ Utc(m) <= expired => Utc(m) <= expired'
      BY <3>1, <1>1
    <3> QED
      BY <3>1, <3>2, <1>1, <1>2 DEF Accounted
  <2>2. CASE m \notin 1..posted
    <3>1. m \in db'
      BY <1>1, <1>3, <2>2
    <3> QED
      BY <3>1 DEF Accounted
  <2> QED
    BY <2>1, <2>2
<1> QED
  BY <1>3 DEF Kept, Accounted

-----------------------------------------------------------------------------
\* At the start nothing is posted, stored or at work.
LEMMA InitInv ==
  ASSUME Init
  PROVE  IInv
<1>1. /\ mix \in Mixes /\ rooms = Rooms /\ db = {} /\ posted = 0 /\ old = 0 /\ expired = 0
      /\ object = [s \in Slots |-> NULL] /\ file = [s \in Slots |-> NULL]
      /\ job = [j \in Jobs |-> Idle] /\ removed = {} /\ blurred = {} /\ dropped = {}
  BY DEF Init
<1>2. /\ Idle.at = "idle" /\ Idle.msgs = {} /\ Idle.got = {} /\ Idle.batch = {}
      /\ Idle.sent = {} /\ Idle.seen = 0
  BY DEF Idle
<1>3. Idle \in JobRecord
  BY BoundsAssumption DEF Idle, JobRecord, Kinds, Stages
<1>4. 0 <= Len(mix.posts)
  BY <1>1, MixesAssumption
<1>5. \A j \in Jobs : job[j].at = "idle"
  BY <1>1, <1>2
<1>6. \A j \in Jobs : Sound(job[j])
  BY <1>1, <1>2 DEF Sound
<1>7. TypeOK
  BY <1>1, <1>3, <1>5, BoundsAssumption DEF TypeOK
<1>8. TypeInv
  BY <1>1, <1>4, <1>6, <1>7 DEF TypeInv, Filed
<1>9. DaysInv /\ \A j \in Jobs : Emptied(j)
  BY <1>5 DEF DaysInv, Alone, Takes, SentWhole, Absent, Written, Stored, Emptied
<1>10. Kept
  BY <1>1 DEF Kept
<1> QED
  BY <1>8, <1>9, <1>10 DEF IInv

\* Every step preserves the inductive invariant.
LEMMA NextInv ==
  ASSUME IInv, [Next]_vars
  PROVE  IInv'
<1>0. /\ TypeInv /\ DaysInv /\ Alone /\ SentWhole /\ Kept
      /\ \A j \in Jobs : Absent(j) /\ Written(j) /\ Stored(j) /\ Emptied(j)
  BY DEF IInv, DaysInv
<1>1. ASSUME NEW j \in Jobs, Begins(j) \/ Works(j)  PROVE IInv'
  <2>1. PICK t : Step(j, t)
    BY <1>0, <1>1, JobSteps
  <2>2. TypeInv' /\ Alone' /\ SentWhole' /\ Kept'
    BY <1>0, <2>1, StepType, AloneStep, SentStep, KeptStep
  <2>3. \A k \in Jobs : Absent(k)' /\ Written(k)' /\ Stored(k)' /\ Emptied(k)'
    BY <1>0, <2>1, AbsentStep, WrittenStep, StoredStep, EmptiedStep
  <2> QED
    BY <2>2, <2>3 DEF IInv, DaysInv
<1>2. CASE Post \/ Age \/ Expire \/ Crash \/ \E m \in Msgs : Remove(m)
  <2>1. Outside
    BY <1>0, <1>2, OutsideSteps
  <2> QED
    BY <1>0, <2>1, OutsideType, OutsideDays, OutsideEmptied, KeptOutside DEF IInv
<1>3. CASE UNCHANGED vars
  <2>1. UNCHANGED vars
    BY <1>3
  <2>2. TypeInv'
    BY <1>0, <2>1 DEF vars, TypeInv, TypeOK, Filed, Sound, Fits, Room, Local, Utc
  <2>3. Alone' /\ SentWhole'
    BY <1>0, <2>1 DEF vars, Alone, Takes, SentWhole, Slot
  <2>4. \A k \in Jobs : Absent(k)' /\ Written(k)' /\ Stored(k)' /\ Emptied(k)'
    BY <1>0, <2>1 DEF vars, Absent, Written, Stored, Emptied, InRoom, Room, Slot
  <2>5. Kept'
    BY <1>0, <2>1 DEF vars, Kept, InObject, Room, Local, Utc
  <2> QED
    BY <2>2, <2>3, <2>4, <2>5 DEF IInv, DaysInv
<1> QED
  BY <1>1, <1>2, <1>3 DEF Next

\* The inductive invariant holds throughout.
LEMMA Inductive == Spec => []IInv
<1>1. Init => IInv
  BY InitInv
<1>2. IInv /\ [Next]_vars => IInv'
  BY NextInv
<1> QED
  BY <1>1, <1>2, PTL DEF Spec

\* The database, the objects, the files and the jobs are well formed throughout,
\* and what a job uploads holds all that it will delete.
THEOREM JobsWhole == Spec => []JobsSound
<1>1. IInv => JobsSound
  BY DEF IInv, TypeInv, DaysInv, JobsSound
<1> QED
  BY <1>1, Inductive, PTL

\* No message is lost but on the occasions that Kept names: with jobs of every kind
\* at once, failing and restarted anywhere.
THEOREM NothingLost == Spec => []Kept
<1>1. IInv => Kept
  BY DEF IInv
<1> QED
  BY <1>1, Inductive, PTL

\* A room is deleted by a full archive that has found it empty: what goes with it has
\* come since, or has been restored.
THEOREM RoomsGoLate == Spec => CascadeLate
<1>1. ASSUME IInv, [Next]_vars
      PROVE  [\A r \in rooms \ rooms' :
                \E j \in Jobs :
                  /\ job[j].at = "gone" /\ job[j].room = r
                  /\ \A m \in InRoom(r) : m > job[j].seen \/ "restore" \in mix.kinds]_vars
  <2>1. ASSUME NEW j \in Jobs, Begins(j) \/ Works(j), NEW r \in rooms \ rooms'
        PROVE  job[j].at = "gone" /\ job[j].room = r
    <3>1. PICK t : Step(j, t)
      BY <1>1, <2>1, JobSteps DEF IInv
    <3> QED
      BY <2>1, <3>1 DEF Step, DbStep
  <2>2. ASSUME NEW j \in Jobs, job[j].at = "gone"
        PROVE  \A m \in InRoom(job[j].room) : m > job[j].seen \/ "restore" \in mix.kinds
    BY <1>1, <2>2 DEF IInv, Emptied
  <2>3. Post \/ Age \/ Expire \/ Crash \/ (\E m \in Msgs : Remove(m)) \/ UNCHANGED vars
          => rooms' = rooms
    BY DEF Post, Age, Expire, Crash, Remove, vars
  <2> QED
    BY <1>1, <2>1, <2>2, <2>3 DEF Next
<1> QED
  BY <1>1, Inductive, PTL DEF CascadeLate, Spec


=============================================================================
