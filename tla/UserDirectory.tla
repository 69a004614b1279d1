----------------------------- MODULE UserDirectory -----------------------------
(***************************************************************************)
(* Who is a user: the rows of users that TMS adds, changes and deletes by  *)
(* webhook (src/src/users/users.service.ts), the imports that read TMS     *)
(* page by page (src/src/users/services), and the two backfills that go    *)
(* over devices and drivers with an offset.  They find a user in two ways: *)
(* a webhook by external id and role, an import by email.                  *)
(*                                                                         *)
(* A row keeps its external id, its email and whether it is a driver; the  *)
(* profile is left out.  Rows stand in a sequence in the order of their    *)
(* creation, NULL for one that was deleted.  An action is a piece of a     *)
(* handler between two awaits.                                             *)
(***************************************************************************)
EXTENDS Naturals, Sequences, FiniteSets, Functions, FiniteSetsExt, SequencesExt

CONSTANTS
  MaxPages,   \* MAX_PAGES_PER_REQUEST
  Mixes,      \* rows to begin with and the calls looked at
  NULL


VARIABLES
  users,     \* rows of users: ext, email, driver, active, seen; by: history, who gave the identity
  devices,   \* rows of user_devices: ext, user
  list,      \* the users or drivers that TMS lists, in its order
  hook,      \* webhooks being served
  job,       \* imports, as their services remember them
  fill,      \* backfills, likewise
  gone,      \* history: emails whose row was deleted or got another one
  todo,      \* calls that have not come yet
  faults,    \* failures that may still happen
  mix

vars == <<users, devices, list, hook, job, fill, gone, todo, faults, mix>>

-----------------------------------------------------------------------------
Without(f, x) == Restrict(f, DOMAIN f \ {x})
With(f, x, v) == [y \in DOMAIN f \cup {x} |-> IF y = x THEN v ELSE f[y]]
Take(c, kinds) == c \in todo /\ c.kind \in kinds /\ todo' = todo \ {c}

Live == {i \in DOMAIN users : users[i] # NULL}
WithEmail(e) == {i \in Live : users[i].email = e}
Same(ext, driver) == {i \in Live : users[i].ext = ext /\ users[i].driver = driver}
Row(ext, email, driver, active, by) ==
  [ext |-> ext, email |-> email, driver |-> driver, active |-> active, seen |-> NULL, by |-> by]
\* findFirst() and findUnique(): one of the rows, or none.
Found(S) == IF S = {} THEN {NULL} ELSE S

\* What the backfills go over, in the rows u of users and d of devices: the filter of the query.
Unlinked(d) == {x \in DOMAIN d : d[x] # NULL /\ d[x].user = NULL}
Activated(u) == {i \in DOMAIN u : u[i] # NULL /\ u[i].driver /\ u[i].active /\ u[i].seen # NULL}
Matching(kind, u, d) == IF kind = "devices" THEN Unlinked(d) ELSE Activated(u)
Ordered(kind) == IF kind = "devices" THEN SetToSortSeq(Unlinked(devices), <)
                 ELSE SetToSortSeq(Activated(users), LAMBDA i, k : users[i].seen < users[k].seen)

\* History: how many rows came, went or moved in what a backfill goes over.
Shifts(kind, u, d) ==
  LET before == Matching(kind, users, devices)  after == Matching(kind, u, d)
      moved == {i \in before \cap after : kind = "activate" /\ users[i].seen # u[i].seen}
  IN Cardinality((before \ after) \cup (after \ before) \cup moved)
Watched(u, d) == [c \in DOMAIN fill |-> IF fill[c].at = "completed" THEN fill[c]
                                        ELSE [fill[c] EXCEPT !.shifts = @ + Shifts(c.kind, u, d)]]
Become(u, d) == users' = u /\ devices' = d /\ fill' = Watched(u, d)

-----------------------------------------------------------------------------
\* processWebhookSync()
Hooks == {"add", "update", "delete"}
Receive(c) ==
  /\ Take(c, Hooks)
  /\ hook' = With(hook, c, [at |-> "find", row |-> NULL, clear |-> FALSE, ext |-> NULL])
  /\ UNCHANGED <<users, devices, list, job, fill, gone, faults, mix>>

Pass(c, at) == hook' = [hook EXCEPT ![c].at = at]
Answer(c) == hook' = Without(hook, c)
At(c, at) == c \in DOMAIN hook /\ hook[c].at = at

\* Mutant: the webhook finds a user as the imports do.
MatchesByEmail(c) == {i \in WithEmail(c.email) : users[i].driver = c.driver}

\* findDriverForWebhook(), findEmployeeForWebhook()
Matches(c) == Same(c.ext, c.driver)

\* An update for a driver that is not there creates him; for an employee it is refused.
HookFind(c) ==
  /\ At(c, "find")
  /\ \E i \in Found(Matches(c)) :
       IF \/ i = NULL /\ (c.kind = "delete" \/ (c.kind = "update" /\ ~c.driver))
          \/ i # NULL /\ c.kind = "add"
       THEN Answer(c)
       ELSE hook' = [hook EXCEPT ![c] = [at |-> IF c.kind = "delete" THEN "devices" ELSE "email", row |-> i,
                                         clear |-> Same(c.ext, c.driver) = {}, ext |-> NULL]]
  /\ UNCHANGED <<users, devices, list, job, fill, gone, todo, faults, mix>>

\* assertWebhookEmailAvailable()
HookEmail(c) ==
  /\ At(c, "email")
  /\ IF WithEmail(c.email) \subseteq {hook[c].row} THEN Pass(c, "write") ELSE Answer(c)
  /\ UNCHANGED <<users, devices, list, job, fill, gone, todo, faults, mix>>

\* mapTmsRolesToUserRole(): an employee none of whose roles is known becomes a driver.
Fallback(c) == ~c.driver /\ ~c.known
Written(c) == c.driver \/ Fallback(c)

\* A second row of an identity is no fault of the webhook when it looked before the first was there,
\* or looked for an employee where it then wrote a driver.
By(c, i) ==
  IF Fallback(c) THEN "fallback"
  ELSE IF Same(c.ext, c.driver) \ {i} # {} /\ (hook[c].clear \/ i # NULL) THEN "cross" ELSE "web"

\* prisma.user.create(): the unique email decides.  A driver is created INACTIVE.
HookCreate(c) ==
  /\ At(c, "write")
  /\ hook[c].row = NULL
  /\ IF WithEmail(c.email) = {}
     THEN Become(Append(users, Row(c.ext, c.email, Written(c), ~c.driver /\ c.active, By(c, NULL))), devices)
     ELSE UNCHANGED <<users, devices, fill>>
  /\ Answer(c)
  /\ UNCHANGED <<list, job, gone, todo, faults, mix>>

\* prisma.user.update() by the id that was found: it fails when the row is gone or the email taken.
\* For an employee it writes role and status, for a driver neither.
HookUpdate(c) ==
  /\ At(c, "write")
  /\ hook[c].row # NULL
  /\ LET i == hook[c].row
     IN IF i \in Live /\ WithEmail(c.email) \subseteq {i}
        THEN LET row == [users[i] EXCEPT !.ext = c.ext, !.email = c.email, !.by = IF @ = "import" THEN @ ELSE By(c, i)]
             IN /\ Become([users EXCEPT ![i] = IF c.driver THEN row ELSE [row EXCEPT !.driver = Written(c), !.active = c.active]], devices)
                /\ gone' = gone \cup ({users[i].email} \ {c.email})
        ELSE UNCHANGED <<users, devices, fill, gone>>
  /\ Answer(c)
  /\ UNCHANGED <<list, job, todo, faults, mix>>

-----------------------------------------------------------------------------
\* hardDeleteUserAfterDeviceLogouts(): the devices of the external id are listed and told.
HookDevices(c) ==
  /\ At(c, "devices")
  /\ LET ext == IF hook[c].row \in Live THEN users[hook[c].row].ext ELSE NULL
     IN IF \E d \in DOMAIN devices : devices[d] # NULL /\ devices[d].ext = ext
        THEN hook' = [hook EXCEPT ![c].at = "wipe", ![c].ext = ext]
        ELSE Pass(c, "drop")
  /\ UNCHANGED <<users, devices, list, job, fill, gone, todo, faults, mix>>

HookWipe(c) ==
  /\ At(c, "wipe")
  /\ Become(users, [d \in DOMAIN devices |-> IF devices[d] # NULL /\ devices[d].ext = hook[c].ext THEN NULL ELSE devices[d]])
  /\ Pass(c, "drop")
  /\ UNCHANGED <<list, job, gone, todo, faults, mix>>

\* Mutant: the devices keep the id of the row.
UnlinkNone(i) == devices

\* The foreign key of the devices of a row that goes is set to null.
Unlink(i) == [d \in DOMAIN devices |-> IF devices[d] # NULL /\ devices[d].user = i THEN [devices[d] EXCEPT !.user = NULL]
                                       ELSE devices[d]]

HookDrop(c) ==
  /\ At(c, "drop")
  /\ LET i == hook[c].row
     IN IF i \in Live
        THEN /\ Become([users EXCEPT ![i] = NULL], Unlink(i))
             /\ gone' = gone \cup {users[i].email}
        ELSE UNCHANGED <<users, devices, fill, gone>>
  /\ Answer(c)
  /\ UNCHANGED <<list, job, todo, faults, mix>>

\* changeUserStatus()
ChangeStatus(c) ==
  /\ Take(c, {"status"})
  /\ c.row \in Live
  /\ Become([users EXCEPT ![c.row].active = c.active], devices)
  /\ UNCHANGED <<list, hook, job, gone, faults, mix>>

\* The app comes to the foreground: lastActiveApp, and the link of the device.
Foreground(c) ==
  /\ Take(c, {"foreground"})
  /\ c.row \in Live
  /\ Become([users EXCEPT ![c.row].seen = 1 + Max({0} \cup {users[i].seen : i \in Activated(users)})],
            [d \in DOMAIN devices |-> IF d = c.device /\ devices[d] # NULL THEN [devices[d] EXCEPT !.user = c.row] ELSE devices[d]])
  /\ UNCHANGED <<list, hook, job, gone, faults, mix>>

-----------------------------------------------------------------------------
\* The imports: in the background or within the request, of users or of drivers.
Imports == {"users", "drivers", "usersNow", "driversNow"}
OfDrivers(c) == c.kind \in {"drivers", "driversNow"}
Pages == (Len(list) + mix.per - 1) \div mix.per
Page(p) == SubSeq(list, (p - 1) * mix.per + 1, IF p * mix.per < Len(list) THEN p * mix.per ELSE Len(list))
Running(c) == c \in DOMAIN job /\ job[c].at \notin {"completed", "failed"}

\* startImport().  promised: what the pages from the first one on hold, as far as the import goes.
Promised(c) == UNION {Range(Page(p)) : p \in c.page .. (IF c.kind = "drivers" THEN Pages ELSE c.page + MaxPages - 1)}
StartImport(c) ==
  /\ Take(c, Imports)
  /\ job' = With(job, c, [at |-> "fetch", page |-> c.page, count |-> 0, items |-> <<>>, found |-> NULL, last |-> FALSE,
                          complete |-> FALSE, read |-> {}, lost |-> {}, promised |-> Promised(c), calm |-> TRUE])
  /\ UNCHANGED <<users, devices, list, hook, fill, gone, faults, mix>>

FetchPage(c) ==
  /\ c \in DOMAIN job
  /\ job[c].at = "fetch"
  /\ LET items == Page(job[c].page)
     IN job' = [job EXCEPT ![c].items = items, ![c].last = job[c].page >= Pages,
                           ![c].at = IF items = <<>> THEN "next" ELSE "item"]
  /\ UNCHANGED <<users, devices, list, hook, fill, gone, todo, faults, mix>>

\* The import ends; in ImportDriversBackgroundService without isComplete.
FetchFails(c) ==
  /\ c \in DOMAIN job
  /\ job[c].at = "fetch"
  /\ faults > 0
  /\ faults' = faults - 1
  /\ job' = [job EXCEPT ![c].at = "failed", ![c].complete = c.kind # "drivers"]
  /\ UNCHANGED <<users, devices, list, hook, fill, gone, todo, mix>>

\* processUsersBatch(): the next one of the page, whatever became of this one.
Entry(c) == Head(job[c].items)
Proceed(c, lost) ==
  job' = [job EXCEPT ![c].items = Tail(@), ![c].at = IF Len(job[c].items) = 1 THEN "next" ELSE "item", ![c].found = NULL,
                     ![c].read = @ \cup {Entry(c)}, ![c].lost = @ \cup lost]

\* isExistingUserImportUnchanged()
Unchanged(i, e) == users[i].ext = e.ext /\ users[i].driver = e.driver

\* processImportedDriverByEmail() leaves who is no driver alone.
DriverLeft(i) == ~users[i].driver

\* processUser(): whoever has no email, or nothing to change, is passed over.
FindByEmail(c) ==
  /\ c \in DOMAIN job
  /\ job[c].at = "item"
  /\ \E i \in Found(WithEmail(Entry(c).email)) :
       IF \/ Entry(c).email = NULL
          \/ i # NULL /\ IF OfDrivers(c) THEN DriverLeft(i) ELSE Unchanged(i, Entry(c))
       THEN Proceed(c, {})
       ELSE job' = [job EXCEPT ![c].at = "write", ![c].found = i]
  /\ UNCHANGED <<users, devices, list, hook, fill, gone, todo, faults, mix>>

\* buildExistingUserImportUpdate(): identity and role are those of TMS; status is never touched.
Imported(u, e) == [u EXCEPT !.ext = e.ext, !.driver = e.driver, !.by = "import"]

WriteUser(c) ==
  /\ c \in DOMAIN job
  /\ job[c].at = "write"
  /\ LET i == job[c].found  entry == Entry(c)
     IN Become(IF i = NULL
               THEN IF WithEmail(entry.email) = {} THEN Append(users, Row(entry.ext, entry.email, entry.driver, FALSE, "import")) ELSE users
               ELSE IF i \in Live THEN [users EXCEPT ![i] = Imported(@, entry)] ELSE users, devices)
  /\ Proceed(c, {})
  /\ UNCHANGED <<list, hook, gone, todo, faults, mix>>

\* What fails is logged, and left out of every count.
WriteFails(c) ==
  /\ c \in DOMAIN job
  /\ job[c].at = "write"
  /\ faults > 0
  /\ faults' = faults - 1
  /\ Proceed(c, {Entry(c)})
  /\ UNCHANGED <<users, devices, list, hook, fill, gone, todo, mix>>

Turn(c, stop) ==
  /\ job[c].at = "next"
  /\ job' = [job EXCEPT ![c] = IF stop THEN [@ EXCEPT !.at = "completed", !.complete = TRUE]
                               ELSE [@ EXCEPT !.at = "fetch", !.page = @ + 1, !.count = @ + 1]]
  /\ UNCHANGED <<users, devices, list, hook, fill, gone, todo, faults, mix>>
Enough(c) == job[c].last \/ job[c].count + 1 >= MaxPages

\* The loops of ImportUsersBackgroundService, ImportDriversBackgroundService, importUsers() and
\* importDrivers(): all but the second stop after MaxPages pages, and are complete.
UsersLoop(c) == c.kind = "users" /\ Turn(c, Enough(c))

DriversLoop(c) == c.kind = "drivers" /\ Turn(c, job[c].last)

UsersNowLoop(c) == c.kind = "usersNow" /\ Turn(c, Enough(c))
DriversNowLoop(c) == c.kind = "driversNow" /\ Turn(c, Enough(c))
Loop(c) == c \in DOMAIN job /\ (UsersLoop(c) \/ DriversLoop(c) \/ UsersNowLoop(c) \/ DriversNowLoop(c))

\* TMS lists one more, or one less, at the front: the pages move.
Relist(c) ==
  /\ Take(c, {"enlist", "unlist"})
  /\ list' = IF c.kind = "enlist" THEN <<c.entry>> \o list ELSE Tail(list)
  /\ job' = [j \in DOMAIN job |-> IF Running(j) THEN [job[j] EXCEPT !.calm = FALSE] ELSE job[j]]
  /\ UNCHANGED <<users, devices, hook, fill, gone, faults, mix>>

-----------------------------------------------------------------------------
\* The backfills: devices get their user, TMS hears of drivers who use the app.
Fills == {"devices", "activate"}
StartFill(c) ==
  /\ Take(c, Fills)
  /\ fill' = With(fill, c, [at |-> "count", skip |-> 0, total |-> 0, rows |-> <<>>, sent |-> 0, batches |-> 0, complete |-> FALSE,
                            start |-> {}, seen |-> {}, shifts |-> 0])
  /\ UNCHANGED <<users, devices, list, hook, job, gone, faults, mix>>

Completed(f) == [f EXCEPT !.at = "completed", !.complete = TRUE, !.rows = <<>>]
FillAt(c, at) == c \in DOMAIN fill /\ fill[c].at = at

\* Devices are counted before every batch, drivers once.
FillCount(c) ==
  /\ FillAt(c, "count")
  /\ LET all == Matching(c.kind, users, devices)
         n == Cardinality(all)
         counted == [fill[c] EXCEPT !.total = n, !.at = "page", !.start = IF fill[c].batches = 0 THEN all ELSE @]
     IN fill' = [fill EXCEPT ![c] = IF c.kind = "activate" /\ n = 0 THEN Completed(counted) ELSE counted]
  /\ UNCHANGED <<users, devices, list, hook, job, gone, todo, faults, mix>>

FillPage(c) ==
  /\ FillAt(c, "page")
  /\ LET all == Ordered(c.kind)
         end == IF fill[c].skip + mix.batch < Len(all) THEN fill[c].skip + mix.batch ELSE Len(all)
         rows == SubSeq(all, fill[c].skip + 1, end)
     IN fill' = [fill EXCEPT ![c] = IF rows = <<>> THEN Completed(@)
                                    ELSE [@ EXCEPT !.rows = rows, !.at = "work", !.sent = 0]]
  /\ UNCHANGED <<users, devices, list, hook, job, gone, todo, faults, mix>>

\* Mutant: the offset stays.
TurnedBack(f, at) ==
  LET g == [f EXCEPT !.seen = @ \cup Range(f.rows), !.rows = <<>>]
  IN IF f.skip < f.total THEN [g EXCEPT !.at = at] ELSE Completed(g)

\* The page is done: the offset moves by its length.
Turned(f, at) ==
  LET skip == f.skip + Len(f.rows)
      g == [f EXCEPT !.skip = skip, !.seen = @ \cup Range(f.rows), !.batches = @ + 1, !.rows = <<>>]
  IN IF skip < f.total THEN [g EXCEPT !.at = at] ELSE Completed(g)

\* One UPDATE: a driver of the external id before an employee, the older row before the younger.
Owner(d) == LET S == {i \in Live : users[i].ext = devices[d].ext}
                D == {i \in S : users[i].driver}
            IN IF S = {} THEN devices[d].user ELSE Min(IF D = {} THEN S ELSE D)

LinkDevices(c) ==
  /\ FillAt(c, "work")
  /\ c.kind = "devices"
  /\ LET linked == [d \in DOMAIN devices |-> IF d \in Range(fill[c].rows) /\ devices[d] # NULL
                                             THEN [devices[d] EXCEPT !.user = Owner(d)] ELSE devices[d]]
     IN /\ devices' = linked
        /\ fill' = [Watched(users, linked) EXCEPT ![c] = Turned(@, "count")]
  /\ UNCHANGED users
  /\ UNCHANGED <<list, hook, job, gone, todo, faults, mix>>

\* notifyDriverApplicationActivated() for one driver; a post that fails is listed and left.
TellDriver(c) ==
  /\ FillAt(c, "work")
  /\ c.kind = "activate"
  /\ \E ok \in BOOLEAN :
       /\ IF ok THEN UNCHANGED faults ELSE faults > 0 /\ faults' = faults - 1
       /\ fill' = [fill EXCEPT ![c] = IF @.sent + 1 < Len(@.rows) THEN [@ EXCEPT !.sent = @ + 1] ELSE Turned(@, "page")]
  /\ UNCHANGED <<users, devices, list, hook, job, gone, todo, mix>>

\* The process ends: the jobs live in its memory.
Restart(c) ==
  /\ Take(c, {"restart"})
  /\ job' = <<>> /\ fill' = <<>> /\ hook' = <<>>
  /\ UNCHANGED <<users, devices, list, gone, faults, mix>>

-----------------------------------------------------------------------------
Init ==
  /\ mix \in Mixes
  /\ users = mix.users /\ devices = mix.devices /\ list = mix.list
  /\ hook = <<>> /\ job = <<>> /\ fill = <<>>
  /\ gone = {}
  /\ todo = mix.calls
  /\ faults = mix.faults

Calls == mix.calls
Webhook(c) == HookFind(c) \/ HookEmail(c) \/ HookCreate(c) \/ HookUpdate(c) \/ HookDevices(c) \/ HookWipe(c) \/ HookDrop(c)
Import(c) == FetchPage(c) \/ FetchFails(c) \/ FindByEmail(c) \/ WriteUser(c) \/ WriteFails(c) \/ Loop(c)
Backfill(c) == FillCount(c) \/ FillPage(c) \/ LinkDevices(c) \/ TellDriver(c)

Next == \E c \in Calls :
  \/ Receive(c) \/ Webhook(c) \/ ChangeStatus(c) \/ Foreground(c)
  \/ StartImport(c) \/ Import(c) \/ Relist(c)
  \/ StartFill(c) \/ Backfill(c)
  \/ Restart(c)

\* The jobs that were started go on.
Serving == \E c \in Calls : Import(c) \/ Backfill(c)
Spec == Init /\ [][Next]_vars /\ WF_vars(Serving)

-----------------------------------------------------------------------------
\* Type correctness of the rows, the webhooks and the jobs.
TypeOK ==
  /\ \A i, k \in Live : i # k => users[i].email # users[k].email
  /\ \A i \in Live : users[i].driver \in BOOLEAN /\ users[i].active \in BOOLEAN
  /\ \A d \in DOMAIN devices : devices[d] # NULL => devices[d].user \in {NULL} \cup Live
  /\ \A c \in DOMAIN hook : hook[c].at \in {"find", "email", "write", "devices", "wipe", "drop"}
  /\ \A c \in DOMAIN job : job[c].at \in {"fetch", "item", "write", "next", "completed", "failed"} /\ job[c].count < MaxPages + Len(list) + 1
  /\ \A c \in DOMAIN fill : fill[c].at \in {"count", "page", "work", "completed"} /\ (fill[c].complete <=> fill[c].at = "completed")

\* Webhooks never give one external id and role to two users, unless two calls crossed, an import,
\* which goes by email, had its hand in one of them, or an employee of unknown role became a driver.
WebhooksMatch ==
  \A i, k \in Live :
    i # k /\ users[i].ext = users[k].ext /\ users[i].driver = users[k].driver
      => {users[i].by, users[k].by} \cap {"import", "cross", "fallback"} # {}

\* An import that says it is complete has been through every entry of the pages it goes over,
\* and whoever has an email and whose write did not fail is a user, unless his row went or was renamed.
ImportReaches ==
  \A c \in DOMAIN job : job[c].at = "completed" =>
    /\ job[c].calm => job[c].promised \subseteq job[c].read
    /\ \A e \in job[c].read \ job[c].lost : e.email = NULL \/ WithEmail(e.email) # {} \/ e.email \in gone

\* A backfill that says it is complete passed over no more rows than came, went or moved
\* under it, its own links included: the offset counts what is no longer there.
MissesBounded ==
  \A c \in DOMAIN fill : fill[c].at = "completed" =>
    Cardinality((fill[c].start \cap Matching(c.kind, users, devices)) \ fill[c].seen) <= fill[c].shifts

\* Again and again no job that was started is under way: each ends and says so, or its process
\* ends; an import of drivers that failed says that it failed, and no more.
JobsEnded ==
  /\ \A c \in DOMAIN job : job[c].complete \/ (c.kind = "drivers" /\ job[c].at = "failed")
  /\ \A c \in DOMAIN fill : fill[c].complete

=============================================================================
