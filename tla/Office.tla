-------------------------------- MODULE Office --------------------------------
(***************************************************************************)
(* Five parts of the backend that share its database and its process and   *)
(* nothing else that these models keep: the user directory, the notices,   *)
(* the message templates, the load board and the whereabouts of drivers.   *)
(* A behaviour is one of one of the parts; the others stand still.         *)
(***************************************************************************)
EXTENDS Naturals, Sequences, FiniteSets

CONSTANTS
  MaxPages, Batch, Day, MaxTime, NULL,
  Rows, Instances, One, Conns, Jobs, Interval, MaxAge,                  \* DriverLocation
  DirectoryMixes, NoticeMixes, TemplateMixes, BoardMixes, LocationMixes

ASSUME BoundsAssumption == MaxPages \in Nat \ {0} /\ Batch \in Nat \ {0} /\ Day \in Nat \ {0} /\ MaxTime \in Nat
ASSUME DirectoryAssumption == \A m \in DirectoryMixes : m.per \in Nat \ {0} /\ m.batch \in Nat \ {0}
ASSUME InstancesAssumption ==
  /\ One \in Instances /\ Jobs = {"location", "app"} /\ Interval \in Nat /\ MaxAge \in Nat
  /\ IsFiniteSet(Rows) /\ Rows \subseteq Nat /\ NULL \notin Rows
ASSUME LocationAssumption ==
  \A m \in LocationMixes :
    /\ DOMAIN m.db \subseteq Rows /\ DOMAIN m.ext = DOMAIN m.db /\ m.permits \in Nat \ {0} /\ m.chunk \in Nat \ {0}
    /\ IsFiniteSet(m.calls) /\ \A c \in m.calls : c.kind \in {"manual", "ping"} => c.row \in DOMAIN m.db
    /\ \A r \in DOMAIN m.db : DOMAIN m.db[r] = {"status", "auto", "active", "place", "seen"}

\* Notices: accounts, participants and the notices there are at first are of the mix's users, and
\* calls are calls.
NoticeRecord(m) == [user : m.users, kind : {m.note[i].kind : i \in DOMAIN m.note}, read : BOOLEAN, old : BOOLEAN]
ASSUME NoticeAssumption ==
  /\ NULL \notin {"fetch", "batch", "chats"}
  /\ \A m \in NoticeMixes : /\ DOMAIN m.person \subseteq m.users /\ DOMAIN m.member \subseteq m.users /\ NULL \notin m.calls
                            /\ NULL \notin m.users /\ m.note \in Seq(NoticeRecord(m))

\* Load board: forms, and rows as creation leaves them, with their last day after the first.
Windows == [earliest : Nat, latest : Nat \cup {NULL}, hours : Nat \cup {NULL}]
Statuses == {"posted", "unposted"}
ShipRecord == [status : Statuses, window : Windows, rev : Nat, asked : Statuses, crossed : BOOLEAN]
Orderly(w) == w.latest = NULL \/ w.earliest <= w.latest
ASSUME BoardAssumption ==
  \A m \in BoardMixes :
    /\ m.ship \in Seq(ShipRecord)
    /\ \A i \in DOMAIN m.ship : m.ship[i].asked = m.ship[i].status /\ Orderly(m.ship[i].window)
    /\ \A c \in m.calls : /\ c.kind \in {"create", "edit"} => c.window \in Windows /\ c.status \in Statuses \cup {NULL}
                          /\ c.kind = "status" => c.status \in Statuses

VARIABLES
  part,                                                   \* which part this behaviour is of
  users, devices, list, hook, job, fill, gone,            \* UserDirectory
  person, token, note, member, reaction, badge, shown,    \* Notices
  work, rest, queue, loose, bothered, missed,
  ext, roles, template, trespass,                         \* Templates
  clock, ship, wronged,                                   \* LoadBoard
  db, points, free, waiters, tms, hooks, late,            \* DriverLocation
  run, lock, cool, now, torn,
  req,                                                    \* Templates, LoadBoard, DriverLocation
  todo, faults, mix                                       \* all of them

Directory == INSTANCE UserDirectory WITH Mixes <- DirectoryMixes
Notices == INSTANCE Notices WITH Mixes <- NoticeMixes
Templates == INSTANCE Templates WITH Mixes <- TemplateMixes
Board == INSTANCE LoadBoard WITH Mixes <- BoardMixes
Location == INSTANCE DriverLocation WITH Mixes <- LocationMixes

\* Templates: users have an id and a role, calls name a user, a type and a group, and rows are as
\* creation leaves them: personal ones without group, those of a company with that of their
\* author's role.
TemplateIds(m) == {m.ext[u] : u \in DOMAIN m.ext} \cup {c.ext : c \in m.calls} \cup {m.template[i].ext : i \in DOMAIN m.template}
TemplateRoles(m) == {m.role[u] : u \in DOMAIN m.ext} \cup {c.role : c \in m.calls}
TemplateGroups == {"Expedite", "Tracking", "HR"}
TemplateRecord(m) ==
  [ext : TemplateIds(m), type : {"personal", "company"}, group : TemplateGroups \cup {NULL},
   by : DOMAIN m.ext \cup {NULL}, moved : BOOLEAN]
Granted(role, group) == role \in Templates!Creators /\ (role = "ADMINISTRATOR" \/ group = Templates!ManagerGroup(role))
ASSUME TemplateAssumption ==
  /\ NULL \notin {"personal", "company"} \cup TemplateGroups
  /\ \A m \in TemplateMixes :
       /\ m.ext \in [DOMAIN m.ext -> TemplateIds(m)] /\ m.role \in [DOMAIN m.ext -> TemplateRoles(m)]
       /\ m.template \in Seq(TemplateRecord(m))
       /\ \A i \in DOMAIN m.template :
            LET t == m.template[i]
            IN /\ t.ext # NULL /\ (t.group = NULL <=> t.type = "personal")
               /\ t.by # NULL => m.ext[t.by] = t.ext /\ (t.type = "company" => Granted(m.role[t.by], t.group))
       /\ \A c \in m.calls : /\ c.user \in DOMAIN m.ext /\ c.user # NULL
                             /\ c.type \in {NULL, "personal", "company"} /\ c.group \in TemplateGroups \cup {NULL}

directoryVars == <<users, devices, list, hook, job, fill, gone>>
noticeVars == <<person, token, note, member, reaction, badge, shown, work, rest, queue, loose, bothered, missed>>
templateVars == <<ext, roles, template, trespass>>
boardVars == <<clock, ship, wronged>>
locationVars == <<db, points, free, waiters, tms, hooks, late, run, lock, cool, now, torn>>
vars == <<part, directoryVars, noticeVars, templateVars, boardVars, locationVars, req, todo, faults, mix>>

-----------------------------------------------------------------------------
NoDirectory == users = <<>> /\ devices = <<>> /\ list = <<>> /\ hook = <<>> /\ job = <<>> /\ fill = <<>> /\ gone = {}
NoNotices ==
  /\ person = <<>> /\ token = <<>> /\ note = <<>> /\ member = <<>> /\ reaction = <<>> /\ badge = <<>> /\ shown = <<>>
  /\ work = <<>> /\ rest = <<>> /\ queue = <<>> /\ loose = {} /\ bothered = {} /\ missed = {}
NoTemplates == ext = <<>> /\ roles = <<>> /\ template = <<>> /\ trespass = {}
NoBoard == clock = 0 /\ ship = <<>> /\ wronged = {}
NoLocation ==
  /\ db = <<>> /\ points = {} /\ free = 0 /\ waiters = <<>> /\ tms = <<>> /\ hooks = <<>> /\ late = {}
  /\ run = <<>> /\ lock = <<>> /\ cool = <<>> /\ now = 0 /\ torn = {}

Init ==
  \/ part = "directory" /\ Directory!Init /\ NoNotices /\ NoTemplates /\ NoBoard /\ NoLocation /\ req = <<>>
  \/ part = "notices" /\ Notices!Init /\ NoDirectory /\ NoTemplates /\ NoBoard /\ NoLocation /\ req = <<>>
  \/ part = "templates" /\ Templates!Init /\ NoDirectory /\ NoNotices /\ NoBoard /\ NoLocation /\ faults = 0
  \/ part = "board" /\ Board!Init /\ NoDirectory /\ NoNotices /\ NoTemplates /\ NoLocation
  \/ part = "location" /\ Location!Init /\ NoDirectory /\ NoNotices /\ NoTemplates /\ NoBoard

InDirectory == part = "directory" /\ UNCHANGED <<part, noticeVars, templateVars, boardVars, locationVars, req>>
InNotices == part = "notices" /\ UNCHANGED <<part, directoryVars, templateVars, boardVars, locationVars, req>>
InTemplates == part = "templates" /\ UNCHANGED <<part, directoryVars, noticeVars, boardVars, locationVars, faults>>
InBoard == part = "board" /\ UNCHANGED <<part, directoryVars, noticeVars, templateVars, locationVars>>
InLocation == part = "location" /\ UNCHANGED <<part, directoryVars, noticeVars, templateVars, boardVars>>

DirectoryStep == InDirectory /\ Directory!Next
NoticeStep == InNotices /\ Notices!Next
TemplateStep == InTemplates /\ Templates!Next
BoardStep == InBoard /\ Board!Next
LocationStep == InLocation /\ Location!Next

Next == DirectoryStep \/ NoticeStep \/ TemplateStep \/ BoardStep \/ LocationStep

\* Jobs, requests and queues that were begun go on; the sweep of the load board runs every minute.
Serving ==
  \/ InDirectory /\ Directory!Serving
  \/ InNotices /\ Notices!Serving
  \/ InBoard /\ Board!Work

\* So do the calls and jobs of DriverLocation, each apart from the others.
Calling == InLocation /\ \E c \in mix.calls : Location!Request(c)
Hooking == InLocation /\ \E c \in mix.calls : Location!Hook(c)
Running(j) == InLocation /\ \E r \in DOMAIN run : r[1] = j /\ Location!Job(r)
Landing == InLocation /\ \E m \in late : Location!PostLands(m)
Cooling == InLocation /\ \E i \in Instances : Location!CoolDown(i)
Ticking == InLocation /\ \E i \in Instances, c \in Conns : Location!LocationTick(i, c)

Spec ==
  /\ Init
  /\ [][Next]_vars
  /\ WF_vars(Serving)
  /\ WF_vars(Calling) /\ WF_vars(Hooking) /\ (\A j \in Jobs : WF_vars(Running(j)))
  /\ WF_vars(Landing) /\ WF_vars(Cooling) /\ WF_vars(Ticking)

-----------------------------------------------------------------------------
\* Type correctness of the part that is looked at.
TypeOK ==
  /\ part = "directory" => Directory!TypeOK
  /\ part = "notices" => Notices!TypeOK
  /\ part = "templates" => Templates!TypeOK
  /\ part = "board" => Board!TypeOK
  /\ part = "location" => Location!TypeOK

\* Users keep one row for an identity, an import that says it is complete has been through its
\* pages, and a backfill passes over no more rows than moved under it.
DirectoryAgrees == part = "directory" => Directory!WebhooksMatch /\ Directory!ImportReaches /\ Directory!MissesBounded

\* Badges and reactions that users see are those of the database once nothing is under way.
ToldAgrees == part = "notices" => Notices!ToldAgrees

\* Notices and pushes come to whom they are for: to nobody who was not to have them all along,
\* and to everybody a job was for.
NoticesRight == part = "notices" => Notices!NobodyBothered /\ Notices!JobsReach

\* Templates are changed by those whose they are, and their authors find and change them.
TemplatesOwned == part = "templates" => Templates!NoTrespass /\ Templates!AuthorsList

\* Shipments are posted as asked for last, and never out of their pickup window.
BoardKept == part = "board" => Board!BoardKept

\* A job of the location service runs in one instance at a time, and the points of a load's history
\* keep their distance.
LocationKept == part = "location" => Location!InstancesExclude /\ Location!PointsSpaced

\* When nothing is under way TMS and the database show one status of a driver, except where two
\* writers crossed, one of them failed, or a ping brought a status.
StatusAgrees == part = "location" => Location!StatusAgrees

\* Again and again every import and backfill has ended, the queues of pushes are empty, and no
\* shipment is posted whose window has passed; and in the end TMS shows what the database says of
\* drivers who update by themselves.
Settles ==
  /\ []<>(/\ part = "directory" => Directory!JobsEnded
          /\ part = "notices" => Notices!Quiet
          /\ part = "board" => Board!NoneExpired)
  /\ <>[](part = "location" => Location!Settled)

=============================================================================
