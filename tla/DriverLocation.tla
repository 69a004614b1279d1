----------------------------- MODULE DriverLocation -----------------------------
(***************************************************************************)
(* Where a driver is and what he does, in the database and in TMS:         *)
(* updateUserLocation() of src/src/users/users.service.ts with the         *)
(* semaphore that queues background pings and the history points of a      *)
(* tracked load, the driver webhook of TMS, and the two scheduled jobs of  *)
(* src/src/tms that copy the drivers to TMS under an advisory lock.        *)
(*                                                                         *)
(* A place, a status and an hour stand for the columns they summarise.     *)
(* Requests run in instance One; the jobs run in every instance.  An       *)
(* action is a piece of a handler between two awaits.                      *)
(***************************************************************************)
EXTENDS Naturals, Sequences, FiniteSets, Functions

CONSTANTS
  Rows,         \* users with role DRIVER
  Instances,    \* processes of the server
  One,          \* the process that serves the requests
  Conns,        \* connections in the pool of an instance
  Jobs,         \* "location" and "app"
  MaxTime,      \* the clock stops here
  Interval,     \* least time between two points of a load's history
  MaxAge,       \* a place older than this is not sent
  Mixes,        \* drivers to begin with and the calls looked at
  NULL

VARIABLES
  db,        \* row -> status, auto, active, place, seen
  points,    \* driver_tracking: the points of a driver's load
  req,       \* calls of updateUserLocation() under way
  free,      \* AsyncSemaphore.available
  waiters,   \* AsyncSemaphore.waiters
  tms,       \* external id -> what TMS shows
  hooks,     \* driver webhooks on their way or being served
  late,      \* items TMS still works on after the post was given up
  run,       \* runs of the jobs under way
  lock,      \* how often a connection holds the advisory lock of a job
  cool,      \* instances whose last location run is younger than the interval
  now,
  todo,      \* calls that have not come yet
  faults,    \* failures that may still happen
  torn,      \* history: ids whose copies may differ: two writers crossed, one failed, or a ping brought a status
  mix

server == <<db, points, req, free, waiters>>
batch == <<run, lock, cool>>
vars == <<server, batch, tms, hooks, late, now, todo, faults, torn, mix>>

-----------------------------------------------------------------------------
Statuses == {"loaded_enroute", "available", "not_available"}
Sessions == Jobs \X Instances \X Conns
Ids == Range(mix.ext)
RowsOf(e) == {r \in DOMAIN db : mix.ext[r] = e}
Driver(c) == mix.ext[c.row]

Without(f, x) == Restrict(f, DOMAIN f \ {x})
With(f, x, v) == [y \in DOMAIN f \cup {x} |-> IF y = x THEN v ELSE f[y]]

\* Who is about to write the status of e, here or in TMS.
Busy(e) ==
  \/ \E c \in DOMAIN req : Driver(c) = e /\ req[c].at \in {"saved", "point", "send"} /\ c.kind # "ping"
  \/ \E r \in DOMAIN run : r[1] = "location" /\ e \in DOMAIN run[r].items
  \/ \E c \in DOMAIN hooks : c.id = e
  \/ \E m \in late : m.id = e
Tear(es) == torn' = torn \cup {e \in es : Busy(e)}

-----------------------------------------------------------------------------
New == [at |-> "ready", user |-> NULL, tries |-> 0]

\* updateUserLocation(), AsyncSemaphore.acquire().
Arrive(c) ==
  /\ c \in todo
  /\ c.kind \in {"manual", "ping"}
  /\ todo' = todo \ {c}
  /\ IF c.kind = "ping" /\ free = 0
     THEN req' = With(req, c, [New EXCEPT !.at = "queued"]) /\ waiters' = Append(waiters, c) /\ UNCHANGED free
     ELSE req' = With(req, c, New) /\ free' = (IF c.kind = "ping" THEN free - 1 ELSE free) /\ UNCHANGED waiters
  /\ UNCHANGED <<db, points, batch, tms, hooks, late, now, faults, torn, mix>>

\* The call ends; AsyncSemaphore.release() hands the permit of a ping over.
Finish(c) ==
  IF c.kind # "ping" THEN req' = Without(req, c) /\ UNCHANGED <<free, waiters>>
  ELSE IF waiters # <<>>
       THEN /\ req' = Without([req EXCEPT ![Head(waiters)].at = "ready"], c)
            /\ waiters' = Tail(waiters)
            /\ UNCHANGED free
       ELSE free' = free + 1 /\ req' = Without(req, c) /\ UNCHANGED waiters

\* In test mode only the test driver; outside North America only by hand; "available" with a place.
Refused(c) ==
  \/ mix.test # NULL /\ Driver(c) # mix.test
  \/ c.place = "abroad" /\ c.kind = "ping" /\ Driver(c) # mix.test
  \/ c.status = "available" /\ c.place = NULL

Refuse(c) ==
  /\ c \in DOMAIN req
  /\ req[c].at = "ready"
  /\ Refused(c)
  /\ Finish(c)
  /\ UNCHANGED <<db, points, batch, tms, hooks, late, now, todo, faults, torn, mix>>

\* The address follows the coordinates; without them the columns stay.
Resolved(u, c) == IF c.place = NULL THEN u.place ELSE c.place

\* Only what the call carries is written; an empty status counts as none.
Patched(u, c) ==
  [u EXCEPT !.seen = now,
            !.place = Resolved(u, c),
            !.status = IF c.status = NULL THEN @ ELSE c.status,
            !.auto = IF c.auto = NULL THEN @ ELSE c.auto]

\* Pings are to carry no status (update-user-location.dto.ts): TMS does not hear of the one they bring.
Overwrites(c) == IF c.kind = "ping" /\ c.status # NULL THEN torn' = torn \cup {Driver(c)}
                 ELSE Tear(IF c.kind = "ping" THEN {} ELSE {Driver(c)})

\* Mutant: the snapshot that TMS is told from was taken before the update.
SaveStale(c) ==
  /\ c \in DOMAIN req
  /\ req[c].at = "ready"
  /\ ~Refused(c)
  /\ db' = [db EXCEPT ![c.row] = Patched(@, c)]
  /\ req' = [req EXCEPT ![c].at = "saved", ![c].user = db[c.row]]
  /\ Overwrites(c)
  /\ UNCHANGED <<points, free, waiters, batch, tms, hooks, late, now, todo, faults, mix>>

Save(c) ==
  /\ c \in DOMAIN req
  /\ req[c].at = "ready"
  /\ ~Refused(c)
  /\ db' = [db EXCEPT ![c.row] = Patched(@, c)]
  /\ req' = [req EXCEPT ![c].at = "saved", ![c].user = Patched(db[c.row], c)]
  /\ Overwrites(c)
  /\ UNCHANGED <<points, free, waiters, batch, tms, hooks, late, now, todo, faults, mix>>

\* Pings end here: TMS hears of them from the scheduled job.
Saved(c) ==
  IF c.kind = "ping" THEN Finish(c)
  ELSE req' = [req EXCEPT ![c].at = "send"] /\ UNCHANGED <<free, waiters>>

\* maybeCreateDriverTrackingPoint(): the latest point is read, and decides.
Latest(e) == LET mine == {p \in points : p.id = e}
             IN {p \in mine : \A q \in mine : q.time <= p.time}

Due(u, e) == \A p \in Latest(e) : u.seen >= p.time + Interval /\ u.place # p.place

Look(c) ==
  /\ c \in DOMAIN req
  /\ req[c].at = "saved"
  /\ LET u == req[c].user
     IN IF c.row \in mix.tracked /\ u.status = "loaded_enroute" /\ u.place # NULL /\ Due(u, Driver(c))
        THEN req' = [req EXCEPT ![c].at = "point"] /\ UNCHANGED <<free, waiters>>
        ELSE Saved(c)
  /\ UNCHANGED <<db, points, batch, tms, hooks, late, now, todo, faults, torn, mix>>

\* by: the call that made the point, for rows of the table are never the same.
AddPoint(c) ==
  /\ c \in DOMAIN req
  /\ req[c].at = "point"
  /\ points' = points \cup {[id |-> Driver(c), time |-> req[c].user.seen, place |-> req[c].user.place, by |-> c]}
  /\ Saved(c)
  /\ UNCHANGED <<db, batch, tms, hooks, late, now, todo, faults, torn, mix>>

-----------------------------------------------------------------------------
\* sendBatch() of either service posts the items of f, twice at most; TMS takes them field by field.
Over(f, g) == [x \in DOMAIN f \cup DOMAIN g |-> IF x \in DOMAIN f THEN f[x] ELSE g[x]]
Show(t, f) == [e \in DOMAIN t |-> IF e \in DOMAIN f THEN Over(f[e], t[e]) ELSE t[e]]
MaxAttempts == 2

Post(f) == tms' = Show(tms, f) /\ UNCHANGED <<late, faults>>
\* The post is refused, or given up while TMS still works on it.
PostFails(f) ==
  /\ faults > 0
  /\ faults' = faults - 1
  /\ \/ UNCHANGED late
     \/ late' = late \cup {[id |-> e, item |-> f[e]] : e \in DOMAIN f}
  /\ UNCHANGED tms

PostLands(m) ==
  /\ m \in late
  /\ late' = late \ {m}
  /\ tms' = Show(tms, With(<<>>, m.id, m.item))
  /\ UNCHANGED <<server, batch, hooks, now, todo, faults, torn, mix>>

Item(c) == With(<<>>, Driver(c), [status |-> req[c].user.status, place |-> req[c].user.place])

Tell(c) ==
  /\ c \in DOMAIN req
  /\ req[c].at = "send"
  /\ Post(Item(c))
  /\ Finish(c)
  /\ UNCHANGED <<db, points, batch, hooks, now, todo, torn, mix>>

\* After the second failure the caller gets 503: the database keeps the update.
TellFails(c) ==
  /\ c \in DOMAIN req
  /\ req[c].at = "send"
  /\ PostFails(Item(c))
  /\ IF req[c].tries + 1 < MaxAttempts
     THEN req' = [req EXCEPT ![c].tries = @ + 1] /\ UNCHANGED <<free, waiters, torn>>
     ELSE Finish(c) /\ torn' = torn \cup {Driver(c)}
  /\ UNCHANGED <<db, points, batch, hooks, now, todo, mix>>

-----------------------------------------------------------------------------
\* A dispatcher sets a status in TMS, which sends the webhook.
SetInTms(c) ==
  /\ c \in todo
  /\ c.kind = "tms"
  /\ todo' = todo \ {c}
  /\ tms' = [tms EXCEPT ![c.id].status = c.status]
  /\ hooks' = With(hooks, c, [row |-> NULL, active |-> FALSE])
  /\ Tear({c.id})
  /\ UNCHANGED <<server, batch, late, now, faults, mix>>

\* findDriverForWebhook(): any row with the id; then the email is checked.
HookFind(c) ==
  /\ c \in DOMAIN hooks
  /\ hooks[c].row = NULL
  /\ \E r \in RowsOf(c.id) : hooks' = [hooks EXCEPT ![c] = [row |-> r, active |-> db[r].active]]
  /\ UNCHANGED <<server, batch, tms, late, now, todo, faults, torn, mix>>

\* isAutoupdateForTmsDriverStatus()
AutoFor(status) == status \in {"loaded_enroute", "available"}

HookSave(c) ==
  /\ c \in DOMAIN hooks
  /\ hooks[c].row # NULL
  /\ db' = [db EXCEPT ![hooks[c].row].status = c.status,
                      ![hooks[c].row].auto = hooks[c].active /\ AutoFor(c.status)]
  /\ hooks' = Without(hooks, c)
  /\ UNCHANGED <<points, req, free, waiters, batch, tms, late, now, todo, faults, torn, mix>>

\* The webhook is lost: TMS does not send it again.
HookLost(c) ==
  /\ c \in DOMAIN hooks
  /\ faults > 0
  /\ faults' = faults - 1
  /\ hooks' = Without(hooks, c)
  /\ torn' = torn \cup {c.id}
  /\ UNCHANGED <<server, batch, tms, late, now, todo, mix>>

\* changeUserStatus()
ChangeStatus(c) ==
  /\ c \in todo
  /\ c.kind = "account"
  /\ todo' = todo \ {c}
  /\ db' = [db EXCEPT ![c.row].active = c.active]
  /\ UNCHANGED <<points, req, free, waiters, batch, tms, hooks, late, now, faults, torn, mix>>

-----------------------------------------------------------------------------
\* pg_try_advisory_lock(): refused when another session holds the lock, granted again to its own.
Held(j) == {s \in Sessions : s[1] = j /\ lock[s] > 0}
Grant(j, i, c) == Held(j) \subseteq {<<j, i, c>>} /\ lock' = [lock EXCEPT ![<<j, i, c>>] = @ + 1]

\* Two ticks may find the job still running in their own instance; a third is left out.
Start(j, i, c) ==
  /\ j \in mix.jobs
  /\ i \in mix.instances
  /\ c \in mix.conns
  /\ \E n \in 1..2 :
       /\ <<j, i, n>> \notin DOMAIN run
       /\ n = 2 => <<j, i, 1>> \in DOMAIN run
       /\ run' = With(run, <<j, i, n>>, [at |-> "read", items |-> <<>>, tries |-> 0])
  /\ Grant(j, i, c)
  /\ UNCHANGED <<server, tms, hooks, late, cool, now, todo, faults, torn, mix>>

\* TmsLocationBatchScheduler.onTick(): lastRunAtMs moves when a run ends, never before.
LocationTick(i, c) == ~cool[i] /\ Start("location", i, c)
AppTick(i, c) == Start("app", i, c)

\* dedupeTmsBatchByDriverId(): of the rows with one id the freshest, the first of them when equal.
Freshest(rows) == CHOOSE r \in rows : \A q \in rows : db[q].seen < db[r].seen \/ (db[q].seen = db[r].seen /\ r <= q)

Allowed(r) == mix.test = NULL \/ mix.ext[r] = mix.test
ForLocation == {r \in DOMAIN db : /\ db[r].active /\ db[r].auto /\ Allowed(r)
                                  /\ db[r].place # NULL
                                  /\ db[r].seen + MaxAge >= now}
ForApp == {r \in DOMAIN db : Allowed(r)}
Deduped(rows, item(_)) == [e \in {mix.ext[r] : r \in rows} |-> item(Freshest(rows \cap RowsOf(e)))]
LocationItems == Deduped(ForLocation, LAMBDA r : [status |-> db[r].status, place |-> db[r].place])
AppItems == Deduped(ForApp, LAMBDA r : [seen |-> db[r].seen])

\* Mutant: the early return gives the lock back before the finally block does.
ReadDriversUnlocks(r) ==
  /\ r \in DOMAIN run
  /\ run[r].at = "read"
  /\ LET items == IF r[1] = "location" THEN LocationItems ELSE AppItems
     IN /\ run' = [run EXCEPT ![r].items = items, ![r].at = IF DOMAIN items = {} THEN "end" ELSE "send"]
        /\ lock' = [s \in Sessions |-> IF DOMAIN items = {} /\ s \in Held(r[1]) /\ s[2] = r[2] THEN lock[s] - 1 ELSE lock[s]]
        /\ Tear(IF r[1] = "location" THEN DOMAIN items ELSE {})
  /\ UNCHANGED <<server, cool, tms, hooks, late, now, todo, faults, mix>>

\* Nothing to send ends the run; the lock is left in the finally block either way.
ReadDrivers(r) ==
  /\ r \in DOMAIN run
  /\ run[r].at = "read"
  /\ LET items == IF r[1] = "location" THEN LocationItems ELSE AppItems
     IN /\ run' = [run EXCEPT ![r].items = items, ![r].at = IF DOMAIN items = {} THEN "end" ELSE "send"]
        /\ Tear(IF r[1] = "location" THEN DOMAIN items ELSE {})
  /\ UNCHANGED <<server, lock, cool, tms, hooks, late, now, todo, faults, mix>>

\* The next chunk, in the order of the rows.
Chunk(f) == Restrict(f, {e \in DOMAIN f : Cardinality({d \in DOMAIN f : d < e}) < mix.chunk})

Sent(r) == LET rest == Restrict(run[r].items, DOMAIN run[r].items \ DOMAIN Chunk(run[r].items))
           IN run' = [run EXCEPT ![r] = [at |-> IF DOMAIN rest = {} THEN "end" ELSE "send", items |-> rest, tries |-> 0]]

SendChunk(r) ==
  /\ r \in DOMAIN run
  /\ run[r].at = "send"
  /\ Post(Chunk(run[r].items))
  /\ Sent(r)
  /\ UNCHANGED <<server, lock, cool, hooks, now, todo, torn, mix>>

\* A chunk that failed twice is logged and left; the run goes on.
SendChunkFails(r) ==
  /\ r \in DOMAIN run
  /\ run[r].at = "send"
  /\ PostFails(Chunk(run[r].items))
  /\ IF run[r].tries + 1 < MaxAttempts
     THEN run' = [run EXCEPT ![r].tries = @ + 1] /\ UNCHANGED torn
     ELSE Sent(r) /\ torn' = torn \cup DOMAIN Chunk(run[r].items)
  /\ UNCHANGED <<server, lock, cool, hooks, now, todo, mix>>

\* pg_advisory_unlock() over whichever connection the pool hands out: one that does not hold
\* the lock unlocks nothing.
Unlock(r, c) ==
  /\ r \in DOMAIN run
  /\ run[r].at = "end"
  /\ c \in mix.conns
  /\ LET s == <<r[1], r[2], c>>
     IN IF lock[s] > 0
        THEN lock' = [lock EXCEPT ![s] = @ - 1] /\ UNCHANGED faults
        ELSE faults > 0 /\ faults' = faults - 1 /\ UNCHANGED lock
  /\ run' = Without(run, r)
  /\ cool' = IF r[1] = "location" THEN [cool EXCEPT ![r[2]] = TRUE] ELSE cool
  /\ UNCHANGED <<server, tms, hooks, late, now, todo, torn, mix>>

CoolDown(i) ==
  /\ cool[i]
  /\ cool' = [cool EXCEPT ![i] = FALSE]
  /\ UNCHANGED <<server, run, lock, tms, hooks, late, now, todo, faults, torn, mix>>

-----------------------------------------------------------------------------
\* A process ends: its runs, requests and webhooks are lost, its sessions close.
Crash(c) ==
  /\ c \in todo
  /\ c.kind = "crash"
  /\ todo' = todo \ {c}
  /\ run' = Restrict(run, {r \in DOMAIN run : r[2] # c.instance})
  /\ lock' = [s \in Sessions |-> IF s[2] = c.instance THEN 0 ELSE lock[s]]
  /\ cool' = [cool EXCEPT ![c.instance] = FALSE]
  /\ IF c.instance = One
     THEN /\ req' = <<>> /\ hooks' = <<>> /\ waiters' = <<>> /\ free' = mix.permits
          /\ torn' = torn \cup {Driver(d) : d \in DOMAIN req} \cup {d.id : d \in DOMAIN hooks}
     ELSE UNCHANGED <<req, hooks, waiters, free, torn>>
  /\ UNCHANGED <<db, points, tms, late, now, faults, mix>>

Tick ==
  /\ now < mix.hours
  /\ now' = now + 1
  /\ UNCHANGED <<server, batch, tms, hooks, late, todo, faults, torn, mix>>

-----------------------------------------------------------------------------
Init ==
  /\ mix \in Mixes
  /\ db = mix.db
  /\ tms = [e \in Ids |-> LET u == mix.db[CHOOSE r \in DOMAIN mix.db : mix.ext[r] = e]
                         IN [status |-> u.status, place |-> u.place, seen |-> u.seen]]
  /\ points = {} /\ req = <<>> /\ hooks = <<>> /\ late = {} /\ run = <<>>
  /\ free = mix.permits /\ waiters = <<>>
  /\ lock = [s \in Sessions |-> 0]
  /\ cool = [i \in Instances |-> FALSE]
  /\ now = 0
  /\ todo = mix.calls
  /\ faults = mix.faults
  /\ torn = {e \in Ids : Cardinality(RowsOf(e)) > 1}

Calls == mix.calls
Request(c) == Refuse(c) \/ Save(c) \/ Look(c) \/ AddPoint(c) \/ Tell(c) \/ TellFails(c)
Hook(c) == HookFind(c) \/ HookSave(c)
Job(r) == ReadDrivers(r) \/ SendChunk(r) \/ SendChunkFails(r) \/ (\E c \in Conns : Unlock(r, c))
Begin(i, c) == LocationTick(i, c) \/ AppTick(i, c)

Next ==
  \/ \E c \in Calls : Arrive(c) \/ Request(c) \/ SetInTms(c) \/ Hook(c) \/ HookLost(c) \/ ChangeStatus(c) \/ Crash(c)
  \/ \E i \in Instances, c \in Conns : Begin(i, c)
  \/ \E i \in Instances : CoolDown(i)
  \/ \E r \in DOMAIN run : Job(r)
  \/ \E m \in late : PostLands(m)
  \/ Tick

\* What runs goes on, and the clock of the cron with it.
Spec ==
  /\ Init
  /\ [][Next]_vars
  /\ WF_vars(\E c \in Calls : Request(c))
  /\ WF_vars(\E c \in Calls : Hook(c))
  /\ \A j \in Jobs : WF_vars(\E r \in DOMAIN run : r[1] = j /\ Job(r))
  /\ WF_vars(\E m \in late : PostLands(m))
  /\ WF_vars(\E i \in Instances : CoolDown(i))
  /\ WF_vars(\E i \in Instances, c \in Conns : LocationTick(i, c))

-----------------------------------------------------------------------------
\* Type correctness of the two copies, the calls under way, the permits and the locks.
TypeOK ==
  /\ \A r \in DOMAIN db : db[r].status \in Statuses /\ db[r].auto \in BOOLEAN /\ db[r].active \in BOOLEAN /\ db[r].seen \in 0..MaxTime
  /\ \A e \in Ids : tms[e].status \in Statuses
  /\ \A c \in DOMAIN req : req[c].at \in {"queued", "ready", "saved", "point", "send"} /\ req[c].tries < MaxAttempts
  /\ free = 0 \/ waiters = <<>>
  /\ Range(waiters) = {c \in DOMAIN req : req[c].at = "queued"}
  /\ free + Cardinality({c \in DOMAIN req : c.kind = "ping" /\ req[c].at # "queued"}) = mix.permits
  /\ \A r \in DOMAIN run : run[r].at \in {"read", "send", "end"} /\ run[r].tries < MaxAttempts
  /\ \A s \in Sessions : lock[s] \in Nat

\* Runs of one job never go on in two instances, however often a process runs the job in
\* itself, leaves the lock behind or dies.
InstancesExclude == \A r, q \in DOMAIN run : r[1] = q[1] => r[2] = q[2]

\* The history of a load keeps its distance in time: as many points fall into one interval as
\* calls of the driver can be past the look at the latest point together, never more.
PointsSpaced ==
  \A p \in points :
    Cardinality({q \in points : q.id = p.id /\ q.time \in p.time .. (p.time + Interval - 1)})
      <= mix.permits + Cardinality({c \in Calls : c.kind = "manual"})

\* When nothing is under way, TMS and the database show one status of a driver, except
\* where two writers crossed, one of them failed, or a ping brought a status.
StatusAgrees ==
  DOMAIN req = {} /\ DOMAIN run = {} /\ DOMAIN hooks = {} /\ late = {} =>
    \A r \in DOMAIN db : mix.ext[r] \notin torn => tms[mix.ext[r]].status = db[r].status

\* Every ping that waits for a permit is served in the end, and what TMS shows of a driver who
\* updates by itself is in the end what the database says, whatever crossed or failed before.
Settled ==
  /\ waiters = <<>>
  /\ \A r \in ForLocation :
       "location" \in mix.jobs /\ RowsOf(mix.ext[r]) = {r}
         => tms[mix.ext[r]].status = db[r].status /\ tms[mix.ext[r]].place = db[r].place
Settles == <>[]Settled

=============================================================================
