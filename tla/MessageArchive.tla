---------------------------- MODULE MessageArchive ----------------------------
(***************************************************************************)
(* Old messages moved from the database to one object per chat room and    *)
(* day in cloud storage: the daily background job, the weekly one, the full*)
(* archive that ends with the deletion of a LOAD chat, the restore and the *)
(* cleanup of old objects (src/src/chats/services/                         *)
(* archive-background.service.ts, messages-archive.service.ts,             *)
(* messages-archive.scheduler.ts, delete-load-chat.controller.ts).         *)
(*                                                                         *)
(* Messages are numbered by their createdAt; mix.posts says in which room  *)
(* and on which day each of them falls, on the server's clock (local) and  *)
(* in UTC.  Time is the number of messages past retention (old) and of days*)
(* past the year that objects are kept (expired).  A job in progress is a  *)
(* record of job; an action is what it does between two awaits.  There is  *)
(* no lock: the jobs and the users run at once.                            *)
(***************************************************************************)
EXTENDS Naturals, FiniteSets, Sequences, FiniteSetsExt

CONSTANTS
  Rooms, Days,
  MaxPosts,    \* bounds the messages ever posted
  Batch,       \* messages written to the temporary file at once
  Jobs,        \* slots for jobs in progress
  Mixes,       \* the mixes of jobs, posts and failures looked at
  NULL

ASSUME BoundsAssumption ==
  Days \subseteq Nat /\ MaxPosts \in Nat /\ Batch \in Nat \ {0}
ASSUME NullAssumption ==
  NULL \notin Rooms \cup Days /\ \A S \in SUBSET (1..MaxPosts) : NULL # S
ASSUME MixesAssumption ==
  \A m \in Mixes :
    /\ m.posts \in Seq([room : Rooms, local : Days, utc : Days])
    /\ Len(m.posts) <= MaxPosts
    /\ \A i, j \in 1..Len(m.posts) :
         i <= j => /\ m.posts[i].local <= m.posts[j].local
                   /\ m.posts[i].utc <= m.posts[j].utc

VARIABLES
  rooms,     \* chat_rooms
  db,        \* messages in the database
  posted,    \* how many messages have been posted
  old,       \* how many of them are older than the retention period
  expired,   \* the days up to which objects are older than a year
  object,    \* the objects archive/chat-rooms/<room>/<day>.json, or NULL
  file,      \* the temporary files archive-<room>-<day>.json, or NULL
  job,       \* jobs in progress
  removed,   \* messages deleted by users
  blurred,   \* rooms and days that two jobs took on at once, or that a failed
             \* HEAD request made appear to have no object
  dropped,   \* messages that a full archive deleted without an object of theirs
  mix        \* the jobs and failures that occur, and the messages

vars == <<rooms, db, posted, old, expired, object, file, job, removed, blurred,
          dropped, mix>>
clock == <<posted, old, expired>>
ghosts == <<removed, blurred, dropped>>

-----------------------------------------------------------------------------
Msgs == 1..MaxPosts
Room(m) == mix.posts[m].room
Local(m) == mix.posts[m].local
Utc(m) == mix.posts[m].utc
Slots == Rooms \X Days

Kinds == {"daily", "weekly", "full", "restore", "cleanup"}
Stages ==
  {"idle", "rooms", "check", "write", "put", "verify", "delete", "look", "gone",
   "drop", "read", "load", "insert", "purge"}

\* rooms, room, day: rooms and days still to be done and those at hand; msgs:
\* messages read and still to be done; got: those of the day at hand; batch:
\* those already in the temporary file; sent: what is being uploaded; files:
\* temporary files written; cutoff: what was past retention (for a full archive,
\* what was posted) when the job began; seen: what was posted at the last look.
JobRecord ==
  [kind : Kinds, at : Stages, cutoff : 0..MaxPosts, rooms : SUBSET Rooms,
   room : Rooms \cup {NULL}, day : Days \cup {NULL}, days : SUBSET Days,
   msgs : SUBSET Msgs, got : SUBSET Msgs, batch : SUBSET Msgs,
   sent : SUBSET Msgs, files : SUBSET Slots, seen : 0..MaxPosts]

Idle ==
  [kind |-> "daily", at |-> "idle", cutoff |-> 0, rooms |-> {}, room |-> NULL,
   day |-> NULL, days |-> {}, msgs |-> {}, got |-> {}, batch |-> {}, sent |-> {},
   files |-> {}, seen |-> 0]

Busy(j) == job[j].at # "idle"
Slot(j) == <<job[j].room, job[j].day>>
InRoom(r) == {m \in db : Room(m) = r}
OldIn(r, cutoff) == {m \in InRoom(r) : m <= cutoff}

\* Writing, uploading or deleting the day of slot s, with no regard to others.
TakenBy(s) ==
  {j \in Jobs : /\ job[j].at \in {"read", "write", "put", "verify", "delete"}
                /\ Slot(j) = s}

Goes(j, s) == job' = [job EXCEPT ![j] = s]
At(j, stage) == [job[j] EXCEPT !.at = stage]

\* The next batch of the day's messages, oldest first.
NextBatch(s) ==
  LET left == s.got \ s.batch
  IN {m \in left : Cardinality({n \in left : n < m}) < Batch}

-----------------------------------------------------------------------------
\* The job is done with its day (or, the set D, with those messages) and looks
\* for the next one of the room, for the next room, or for its latest message.
NextDay(j, D) ==
  LET s == job[j]
      left == s.msgs \ D
      here == {m \in left : Room(m) = s.room}
      done == [s EXCEPT !.got = {}, !.batch = {}, !.sent = {}, !.day = NULL]
  IN CASE s.kind = "full" -> [done EXCEPT !.at = "look", !.msgs = {}]
       [] s.kind # "full" /\ here # {} ->
            LET d == Min({Local(m) : m \in here})
            IN [done EXCEPT !.at = "check", !.msgs = left, !.day = d,
                            !.got = {m \in here : Local(m) = d}]
       [] OTHER ->
            [done EXCEPT !.at = IF s.rooms = {} THEN "idle" ELSE "rooms",
                         !.msgs = left, !.room = NULL]

\* Jobs that are over keep nothing that matters to others.
Settled(s) == IF s.at = "idle" THEN Idle ELSE s

\* startArchive(): the rooms with messages past retention.
DailyBegin(j) ==
  LET found == {r \in rooms : OldIn(r, old) # {}}
  IN /\ ~Busy(j) /\ "daily" \in mix.kinds /\ found # {}
     /\ Goes(j, [Idle EXCEPT !.at = "rooms", !.cutoff = old, !.rooms = found])
     /\ UNCHANGED <<rooms, db, clock, object, file, ghosts, mix>>

\* archiveOldMessages(): the rooms and all their old messages at once.
WeeklyBegin(j) ==
  LET found == {r \in rooms : OldIn(r, old) # {}}
  IN /\ ~Busy(j) /\ "weekly" \in mix.kinds /\ found # {}
     /\ Goes(j, [Idle EXCEPT !.kind = "weekly", !.at = "rooms", !.cutoff = old,
                             !.rooms = found,
                             !.msgs = UNION {OldIn(r, old) : r \in found}])
     /\ UNCHANGED <<rooms, db, clock, object, file, ghosts, mix>>

\* The next room: the daily job reads its messages now, the weekly one has them.
NextRoom(j, r) ==
  LET s == job[j]
      at == [s EXCEPT !.room = r, !.rooms = @ \ {r}]
      msgs == IF s.kind = "daily" THEN OldIn(r, s.cutoff) ELSE s.msgs
      here == {m \in msgs : Room(m) = r}
      day == Min({Local(m) : m \in here})
  IN /\ s.at = "rooms" /\ r \in s.rooms
     /\ Goes(j, IF here = {}
                THEN Settled([at EXCEPT !.room = NULL,
                                        !.at = IF at.rooms = {} THEN "idle" ELSE "rooms"])
                ELSE [at EXCEPT !.at = "check", !.msgs = msgs, !.day = day,
                                !.got = {m \in here : Local(m) = day}])
     /\ UNCHANGED <<rooms, db, clock, object, file, ghosts, mix>>

\* hasArchivedMessages(): a HEAD request whose failure counts as "no".  With an
\* object the day is skipped, or deleted by a full archive; without one it is
\* archived, whoever else is at it.
Check(j, answers) ==
  LET s == job[j]
      exists == object[Slot(j)] # NULL
      after == IF s.kind = "weekly" THEN [s EXCEPT !.at = "put", !.sent = s.got]
               ELSE IF s.kind = "daily" THEN [s EXCEPT !.at = "write"]
               ELSE [s EXCEPT !.at = "read"]
  IN /\ s.at = "check"
     /\ ~answers => mix.heads
     /\ IF exists /\ answers
        THEN /\ Goes(j, IF s.kind = "full" THEN At(j, "drop")
                        ELSE Settled(NextDay(j, s.got)))
             /\ UNCHANGED blurred
        ELSE /\ Goes(j, after)
             /\ blurred' = IF exists \/ TakenBy(Slot(j)) # {}
                           THEN blurred \cup {Slot(j)} ELSE blurred
     /\ UNCHANGED <<rooms, db, clock, object, file, removed, dropped, mix>>

WriteLast(j) ==
  LET s == job[j]
      batch == s.batch \cup NextBatch(s)
  IN /\ s.at = "write" /\ s.batch # s.got
     /\ file' = [file EXCEPT ![Slot(j)] = NextBatch(s)]
     /\ Goes(j, [s EXCEPT !.batch = batch, !.files = @ \cup {Slot(j)}])
     /\ UNCHANGED <<rooms, db, clock, object, ghosts, mix>>

\* processDayArchive(): the file is written whole after each batch, and read
\* back for the upload in the same step as the last one.
Write(j) ==
  LET s == job[j]
      batch == s.batch \cup NextBatch(s)
  IN /\ s.at = "write" /\ s.batch # s.got
     /\ file' = [file EXCEPT ![Slot(j)] = batch]
     /\ Goes(j, [s EXCEPT !.batch = batch, !.files = @ \cup {Slot(j)}])
     /\ UNCHANGED <<rooms, db, clock, object, ghosts, mix>>

\* uploadArchiveFromFile() reads the file; without it the day fails.
Send(j) ==
  LET s == job[j]
  IN /\ s.at = "write" /\ s.batch = s.got /\ file[Slot(j)] # NULL
     /\ Goes(j, [s EXCEPT !.at = "put", !.sent = file[Slot(j)]])
     /\ UNCHANGED <<rooms, db, clock, object, file, ghosts, mix>>

\* The object is stored; the background job then unlinks its file, and fails
\* when another one has done so.
Put(j) ==
  LET s == job[j]
  IN /\ s.at = "put"
     /\ s.kind = "weekly" \/ file[Slot(j)] # NULL
     /\ object' = [object EXCEPT ![Slot(j)] = s.sent]
     /\ file' = IF s.kind = "weekly" THEN file ELSE [file EXCEPT ![Slot(j)] = NULL]
     /\ Goes(j, At(j, IF s.kind = "weekly" THEN "verify" ELSE "delete"))
     /\ UNCHANGED <<rooms, db, clock, ghosts, mix>>

Verify(j) ==
  /\ job[j].at = "verify" /\ object[Slot(j)] # NULL
  /\ Goes(j, At(j, "delete"))
  /\ UNCHANGED <<rooms, db, clock, object, file, ghosts, mix>>

DeleteDayByDate(j) ==
  /\ job[j].at = "delete"
  /\ db' = db \ {m \in OldIn(job[j].room, old) : Local(m) = job[j].day}
  /\ Goes(j, Settled(NextDay(j, job[j].got)))
  /\ UNCHANGED <<rooms, clock, object, file, ghosts, mix>>

\* The messages of the day go, by the ids that were read.
DeleteDay(j) ==
  /\ job[j].at = "delete"
  /\ db' = db \ job[j].got
  /\ Goes(j, Settled(NextDay(j, job[j].got)))
  /\ UNCHANGED <<rooms, clock, object, file, ghosts, mix>>

\* A step throws.  The weekly job goes on with the next room.  The others end;
\* the file of the day goes, and with the daily job those of its earlier days,
\* whoever writes them now.  An upload may have succeeded all the same.
Fail(j, stored) ==
  LET s == job[j]
      mine == IF s.kind = "daily" THEN s.files
              ELSE IF s.kind = "full" /\ s.at \in {"write", "put", "delete"}
              THEN {Slot(j)} ELSE {}
  IN /\ s.at \notin {"idle", "check", "load", "purge"}
     /\ s.at = "rooms" => s.kind = "daily"
     /\ \/ mix.fails
        \/ s.kind # "weekly" /\ s.at = "put" /\ file[Slot(j)] = NULL /\ stored
        \/ s.at = "write" /\ s.batch = s.got /\ file[Slot(j)] = NULL
        \/ s.at = "verify" /\ (object[Slot(j)] = NULL \/ mix.heads)
        \/ s.at \in {"insert", "gone"} /\ s.room \notin rooms
     /\ stored => s.at = "put"
     /\ object' = IF stored THEN [object EXCEPT ![Slot(j)] = s.sent] ELSE object
     /\ file' = [f \in Slots |-> IF f \in mine THEN NULL ELSE file[f]]
     /\ Goes(j, IF s.kind = "weekly"
                THEN Settled(NextDay(j, {m \in s.msgs : Room(m) = s.room})) ELSE Idle)
     /\ UNCHANGED <<rooms, db, clock, ghosts, mix>>

-----------------------------------------------------------------------------
\* startFullArchiveAndDelete(): not while this process archives the room so.
FullBegin(j, r) ==
  /\ ~Busy(j) /\ "full" \in mix.kinds /\ r \in rooms
  /\ ~\E k \in Jobs : Busy(k) /\ job[k].kind = "full" /\ job[k].room = r
  /\ Goes(j, [Idle EXCEPT !.kind = "full", !.at = "look", !.room = r,
                          !.cutoff = posted])
  /\ UNCHANGED <<rooms, db, clock, object, file, ghosts, mix>>

LookOld(j) ==
  LET s == job[j]
      here == OldIn(s.room, old)
  IN /\ s.at = "look"
     /\ Goes(j, IF here = {} THEN [s EXCEPT !.at = "gone", !.seen = posted]
                ELSE [s EXCEPT !.at = "check", !.day = Utc(Max(here))])
     /\ UNCHANGED <<rooms, db, clock, object, file, ghosts, mix>>

\* The latest message tells the day to be archived next; without one the room
\* is to be deleted.
Look(j) ==
  LET s == job[j]
      here == InRoom(s.room)
  IN /\ s.at = "look"
     /\ Goes(j, IF here = {} THEN [s EXCEPT !.at = "gone", !.seen = posted]
                ELSE [s EXCEPT !.at = "check", !.day = Utc(Max(here))])
     /\ UNCHANGED <<rooms, db, clock, object, file, ghosts, mix>>

ReadDay(j) ==
  LET s == job[j]
      here == {m \in InRoom(s.room) : Utc(m) = s.day}
  IN /\ s.at = "read"
     /\ Goes(j, IF here = {} THEN NextDay(j, {})
                ELSE [s EXCEPT !.at = "write", !.got = here])
     /\ UNCHANGED <<rooms, db, clock, object, file, ghosts, mix>>

\* Messages of which the room has no object.
Unarchived(r) ==
  {m \in InRoom(r) : \A d \in Days : object[<<r, d>>] = NULL \/ m \notin object[<<r, d>>]}

DropNoDay(j) ==
  /\ job[j].at = "drop"
  /\ Goes(j, NextDay(j, {}))
  /\ UNCHANGED <<rooms, db, clock, object, file, ghosts, mix>>

\* The day has an object: all its messages go without being read.
DropDay(j) ==
  LET s == job[j]
      here == {m \in InRoom(s.room) : Utc(m) = s.day}
  IN /\ s.at = "drop"
     /\ db' = db \ here
     /\ dropped' = dropped \cup (here \cap Unarchived(s.room))
     /\ Goes(j, NextDay(j, {}))
     /\ UNCHANGED <<rooms, clock, object, file, removed, blurred, mix>>

\* The room goes with whatever has come in since the last look.
DeleteRoom(j) ==
  LET r == job[j].room
  IN /\ job[j].at = "gone" /\ r \in rooms
     /\ rooms' = rooms \ {r} /\ db' = db \ InRoom(r)
     /\ dropped' = dropped \cup Unarchived(r)
     /\ Goes(j, Idle)
     /\ UNCHANGED <<clock, object, file, removed, blurred, mix>>

-----------------------------------------------------------------------------
\* restoreMessagesFromArchiveForChatRoom(): the objects of the room are listed,
\* read one by one (one that cannot be read is passed over), and the messages
\* inserted that are not there.
RestoreBegin(j, r) ==
  LET days == {d \in Days : object[<<r, d>>] # NULL}
  IN /\ ~Busy(j) /\ "restore" \in mix.kinds /\ r \in rooms /\ days # {}
     /\ Goes(j, [Idle EXCEPT !.kind = "restore", !.at = "load", !.room = r,
                             !.days = days])
     /\ UNCHANGED <<rooms, db, clock, object, file, ghosts, mix>>

Load(j, answers) ==
  LET s == job[j]
      d == Min(s.days)
      found == IF answers /\ object[<<s.room, d>>] # NULL
               THEN object[<<s.room, d>>] ELSE {}
      read == [s EXCEPT !.days = @ \ {d}, !.got = @ \cup found]
  IN /\ s.at = "load"
     /\ ~answers => mix.heads
     /\ Goes(j, IF read.days # {} THEN read
                ELSE IF read.got = {} THEN Idle ELSE [read EXCEPT !.at = "insert"])
     /\ UNCHANGED <<rooms, db, clock, object, file, ghosts, mix>>

Insert(j) ==
  LET s == job[j]
      chunk == NextBatch(s)
      done == [s EXCEPT !.batch = @ \cup chunk]
  IN /\ s.at = "insert" /\ s.room \in rooms
     /\ db' = db \cup chunk
     /\ Goes(j, IF done.batch = s.got THEN Idle ELSE done)
     /\ UNCHANGED <<rooms, clock, object, file, ghosts, mix>>

\* cleanupOldArchives(): of the rooms there are, the objects past their year.
CleanupBegin(j) ==
  /\ ~Busy(j) /\ "cleanup" \in mix.kinds
  /\ \E r \in rooms, d \in Days : d <= expired /\ object[<<r, d>>] # NULL
  /\ Goes(j, [Idle EXCEPT !.kind = "cleanup", !.at = "purge", !.rooms = rooms])
  /\ UNCHANGED <<rooms, db, clock, object, file, ghosts, mix>>

\* A listing that fails counts as empty.
CleanupList(j, r, answers) ==
  LET s == job[j]
      days == {d \in Days : d <= expired /\ object[<<r, d>>] # NULL}
  IN /\ s.at = "purge" /\ s.days = {} /\ r \in s.rooms
     /\ ~answers => mix.fails
     /\ Goes(j, [s EXCEPT !.rooms = @ \ {r}, !.room = r,
                          !.days = IF answers THEN days ELSE {}])
     /\ UNCHANGED <<rooms, db, clock, object, file, ghosts, mix>>

CleanupEnd(j) ==
  /\ job[j].at = "purge" /\ job[j].days = {} /\ job[j].rooms = {}
  /\ Goes(j, Idle)
  /\ UNCHANGED <<rooms, db, clock, object, file, ghosts, mix>>

\* An object that cannot be deleted is passed over.
Purge(j, deleted) ==
  LET s == job[j]
      d == Max(s.days)
  IN /\ s.at = "purge" /\ s.days # {}
     /\ ~deleted => mix.fails
     /\ object' = IF deleted THEN [object EXCEPT ![<<s.room, d>>] = NULL] ELSE object
     /\ Goes(j, [s EXCEPT !.days = @ \ {d}])
     /\ UNCHANGED <<rooms, db, clock, file, ghosts, mix>>

-----------------------------------------------------------------------------
Post ==
  /\ posted < Len(mix.posts) /\ Room(posted + 1) \in rooms
  /\ posted' = posted + 1 /\ db' = db \cup {posted + 1}
  /\ UNCHANGED <<rooms, old, expired, object, file, job, ghosts, mix>>

\* deleteMessage(), by a user with the right to.
Remove(m) ==
  /\ mix.removes /\ m \in db
  /\ db' = db \ {m} /\ removed' = removed \cup {m}
  /\ UNCHANGED <<rooms, clock, object, file, job, blurred, dropped, mix>>

\* Time passes: one more message is past retention, one more day past its year.
Age ==
  /\ old < posted /\ old' = old + 1
  /\ UNCHANGED <<rooms, db, posted, expired, object, file, job, ghosts, mix>>

Expire ==
  /\ "cleanup" \in mix.kinds
  /\ \E d \in Days :
       /\ d > expired /\ \A e \in Days : e > expired => d <= e
       /\ \A m \in 1..Len(mix.posts) : Local(m) <= d \/ Utc(m) <= d => m <= old
       /\ expired' = d
  /\ UNCHANGED <<rooms, db, posted, old, object, file, job, ghosts, mix>>

\* The process restarts: the jobs are forgotten, their files stay.
Crash ==
  /\ mix.crash /\ \E j \in Jobs : Busy(j)
  /\ job' = [j \in Jobs |-> Idle]
  /\ UNCHANGED <<rooms, db, clock, object, file, ghosts, mix>>

Init ==
  /\ mix \in Mixes
  /\ rooms = Rooms /\ db = {} /\ posted = 0 /\ old = 0 /\ expired = 0
  /\ object = [s \in Slots |-> NULL] /\ file = [s \in Slots |-> NULL]
  /\ job = [j \in Jobs |-> Idle]
  /\ removed = {} /\ blurred = {} /\ dropped = {}

\* What a job does once it has begun, failures apart.
Works(j) ==
  \/ \E r \in Rooms : NextRoom(j, r)
  \/ \E answers \in BOOLEAN : Check(j, answers) \/ Load(j, answers)
  \/ Write(j) \/ Send(j) \/ Put(j) \/ Verify(j) \/ DeleteDay(j)
  \/ Look(j) \/ ReadDay(j) \/ DropDay(j) \/ DeleteRoom(j)
  \/ Insert(j) \/ CleanupEnd(j)
  \/ \E r \in Rooms, answers \in BOOLEAN : CleanupList(j, r, answers)
  \/ \E b \in BOOLEAN : Purge(j, b) \/ Fail(j, b)

Begins(j) ==
  \/ DailyBegin(j) \/ WeeklyBegin(j) \/ CleanupBegin(j)
  \/ \E r \in Rooms : FullBegin(j, r) \/ RestoreBegin(j, r)

Next ==
  \/ Post \/ Age \/ Expire \/ Crash
  \/ \E m \in Msgs : Remove(m)
  \/ \E j \in Jobs : Begins(j) \/ Works(j)

\* A job that has begun goes on until it is over: nothing but a crash stops it.
Spec == Init /\ [][Next]_vars /\ \A j \in Jobs : WF_vars(Works(j))

-----------------------------------------------------------------------------
\* TypeOK: the database holds posted messages, the objects and the temporary
\* files sets of messages, and every job is in one of its stages with a room at
\* hand when its stage needs one.
TypeOK ==
  /\ mix \in Mixes /\ rooms \subseteq Rooms
  /\ posted \in 0..MaxPosts /\ old \in 0..posted /\ expired \in Days \cup {0}
  /\ db \subseteq 1..posted /\ removed \subseteq 1..posted /\ dropped \subseteq 1..posted
  /\ object \in [Slots -> (SUBSET (1..posted)) \cup {NULL}]
  /\ file \in [Slots -> (SUBSET (1..posted)) \cup {NULL}]
  /\ job \in [Jobs -> JobRecord] /\ blurred \subseteq Slots
  /\ \A j \in Jobs : job[j].at \notin {"idle", "rooms", "purge"} => job[j].room # NULL

InObject(m) ==
  \E d \in {Local(m), Utc(m)} :
    object[<<Room(m), d>>] # NULL /\ m \in object[<<Room(m), d>>]

\* Kept: with jobs of every kind at once, failing and restarted anywhere, a
\* message that is gone from the database is in the object of its day, unless a
\* user deleted it, a full archive dropped it with a day that had an object
\* already, its object is past its year, or two jobs (or one that a HEAD request
\* misled) have archived its day at once (check, upload and deletion are apart).
Kept ==
  \A m \in 1..posted :
    \/ m \in db \cup removed \cup dropped \/ InObject(m)
    \/ Local(m) <= expired \/ Utc(m) <= expired
    \/ \E d \in {Local(m), Utc(m)} : <<Room(m), d>> \in blurred

\* SentWhole: what a background job uploads holds all that it will delete
\* afterwards, though the file it uploads has a name shared by all jobs; unless
\* another job was let in on the same day.
SentWhole ==
  \A j \in Jobs :
    job[j].at = "put" => job[j].got \subseteq job[j].sent \/ Slot(j) \in blurred

\* CascadeLate: a room is deleted by a full archive that has found it empty: what
\* goes with it has been posted, or restored from its objects, since.
CascadeLate ==
  [][\A r \in rooms \ rooms' :
       \E j \in Jobs :
         /\ job[j].at = "gone" /\ job[j].room = r
         /\ \A m \in InRoom(r) : m > job[j].seen \/ "restore" \in mix.kinds]_vars

\* FullEnds: a full archive, which loops until it finds no message, comes to an
\* end, whatever the users and the other jobs do, unless the room is restored
\* over and over.
FullEnds ==
  \A j \in Jobs :
    (Busy(j) /\ job[j].kind = "full" /\ "restore" \notin mix.kinds) ~> ~Busy(j)

\* FullArchives: a full archive takes "all remaining messages by day" before the
\* room is deleted: of the messages that were there when it was asked for, none
\* is deleted without being in an object.
FullArchives ==
  [][\A m \in dropped' \ dropped :
       \E j \in Jobs : job[j].at \in {"drop", "gone"} /\ m > job[j].cutoff]_vars

\* The jobs keep their shape, and what they send is whole.
JobsSound == TypeOK /\ SentWhole

=============================================================================
