------------------------------- MODULE LoadBoard -------------------------------
(***************************************************************************)
(* The load board: shipments that staff create, edit, post and unpost, and *)
(* the sweep that unposts those whose pickup window has passed, every      *)
(* minute and before each list (src/src/load-board-shipments).             *)
(*                                                                         *)
(* Time is counted in parts of a day.  A shipment keeps its status and its *)
(* pickup window: a first day, maybe a last day, maybe an hour; route,     *)
(* commodity and the rest of the form are left out.  An action is a piece  *)
(* of a request between two awaits.                                        *)
(***************************************************************************)
EXTENDS Naturals, Sequences, FiniteSets, Functions

CONSTANTS
  Day,       \* parts of a day
  MaxTime,   \* bound: the clock stops here
  Mixes,     \* shipments to begin with and the requests looked at
  NULL

VARIABLES
  clock,
  ship,      \* rows of load_board_shipments: status, window; rev, asked, crossed: history
  req,       \* requests being served, and the sweep of the cron job
  wronged,   \* history: shipments posted or unposted out of turn
  todo, faults, mix

vars == <<clock, ship, req, wronged, todo, faults, mix>>

-----------------------------------------------------------------------------
Without(f, x) == Restrict(f, DOMAIN f \ {x})
With(f, x, v) == [y \in DOMAIN f \cup {x} |-> IF y = x THEN v ELSE f[y]]
Take(c, kinds) == c \in todo /\ c.kind \in kinds /\ todo' = todo \ {c}
Live == {i \in DOMAIN ship : ship[i] # NULL}
At(c, at) == c \in DOMAIN req /\ req[c].at = at
Answer(c) == req' = Without(req, c)

\* Mutant: the first day decides.
DeadlineFirst(w) == w.earliest * Day + (IF w.hours = NULL THEN Day - 1 ELSE w.hours)

\* resolveLoadBoardPickupDeadline(): the last day if there is one, its end if there is no hour.
Deadline(w) == (IF w.latest = NULL THEN w.earliest ELSE w.latest) * Day + (IF w.hours = NULL THEN Day - 1 ELSE w.hours)

\* isLoadBoardPickupExpired()
Expired(w) == Deadline(w) < clock

\* assertLoadBoardPickupNotInPast()
Accepted(w) == (w.latest # NULL => w.latest >= w.earliest) /\ ~Expired(w)

\* For the history: the window has passed when no moment of any of its days is left to pick up.
Days(w) == w.earliest .. (IF w.latest = NULL THEN w.earliest ELSE w.latest)
Moments(w) == IF w.hours = NULL THEN {d * Day + h : d \in Days(w), h \in 0 .. Day - 1} ELSE {d * Day + w.hours : d \in Days(w)}
PassedAt(w, t) == \A m \in Moments(w) : m < t

Serving(at, i) == [at |-> at, ship |-> i, status |-> NULL, rev |-> 0, since |-> clock, ids |-> {}, revs |-> <<>>]
Wrong(S) == wronged' = wronged \cup S

-----------------------------------------------------------------------------
Posted(status, window) == [status |-> status, window |-> window, rev |-> 0, asked |-> status, crossed |-> FALSE]

\* create(): the form is checked when the creator is read.
Create(c) ==
  /\ Take(c, {"create"})
  /\ req' = IF Accepted(c.window) THEN With(req, c, Serving("insert", NULL)) ELSE req
  /\ UNCHANGED <<clock, ship, wronged, faults, mix>>
Insert(c) ==
  /\ At(c, "insert")
  /\ LET status == IF c.status = NULL THEN "posted" ELSE c.status
     IN /\ ship' = Append(ship, Posted(status, c.window))
        /\ Wrong(IF status = "posted" /\ PassedAt(c.window, req[c].since) THEN {Len(ship) + 1} ELSE {})
  /\ Answer(c)
  /\ UNCHANGED <<clock, todo, faults, mix>>

\* update(): the status that was read is written back when the form has none.
EditStatus(c, was) == IF c.status = NULL THEN was ELSE c.status

Edit(c) ==
  /\ Take(c, {"edit"})
  /\ req' = IF c.ship \in Live /\ Accepted(c.window)
            THEN With(req, c, [Serving("edit", c.ship) EXCEPT !.status = EditStatus(c, ship[c.ship].status), !.rev = ship[c.ship].rev])
            ELSE req
  /\ UNCHANGED <<clock, ship, wronged, faults, mix>>

WriteEdit(c) ==
  /\ At(c, "edit")
  /\ LET i == req[c].ship  status == req[c].status
     IN IF i \in Live
        THEN /\ ship' = [ship EXCEPT ![i] = [ship[i] EXCEPT !.status = status, !.window = c.window, !.rev = @ + 1,
                                                      !.asked = IF c.status = NULL THEN @ ELSE c.status,
                                                      !.crossed = c.status = NULL /\ (@ \/ ship[i].rev # req[c].rev)]]
             /\ Wrong(IF c.status = "posted" /\ PassedAt(c.window, req[c].since) THEN {i} ELSE {})
        ELSE UNCHANGED <<ship, wronged>>
  /\ Answer(c)
  /\ UNCHANGED <<clock, todo, faults, mix>>

\* updateStatus(): a shipment is not posted when its window had passed as it was read.
ChangeStatus(c) ==
  /\ Take(c, {"status"})
  /\ req' = IF c.ship \in Live /\ ~(c.status = "posted" /\ Expired(ship[c.ship].window))
            THEN With(req, c, [Serving("status", c.ship) EXCEPT !.rev = ship[c.ship].rev]) ELSE req
  /\ UNCHANGED <<clock, ship, wronged, faults, mix>>
WriteStatus(c) ==
  /\ At(c, "status")
  /\ LET i == req[c].ship
     IN IF i \in Live
        THEN /\ ship' = [ship EXCEPT ![i] = [ship[i] EXCEPT !.status = c.status, !.rev = @ + 1, !.asked = c.status, !.crossed = FALSE]]
             /\ Wrong(IF c.status = "posted" /\ ship[i].rev = req[c].rev /\ PassedAt(ship[i].window, req[c].since) THEN {i} ELSE {})
        ELSE UNCHANGED <<ship, wronged>>
  /\ Answer(c)
  /\ UNCHANGED <<clock, todo, faults, mix>>

\* remove()
Remove(c) ==
  /\ Take(c, {"remove"})
  /\ req' = IF c.ship \in Live THEN With(req, c, Serving("remove", c.ship)) ELSE req
  /\ UNCHANGED <<clock, ship, wronged, faults, mix>>
Delete(c) ==
  /\ At(c, "remove")
  /\ ship' = [ship EXCEPT ![req[c].ship] = NULL]
  /\ Answer(c)
  /\ UNCHANGED <<clock, wronged, todo, faults, mix>>

-----------------------------------------------------------------------------
\* unpostExpiredPostedShipments(), by the cron job or before findAll(): the posted shipments
\* are read, those expired are written later, by id, without another look at the window.
Sweeping(c) ==
  LET ids == {i \in Live : ship[i].status = "posted" /\ Expired(ship[i].window)}
  IN [Serving("sweep", NULL) EXCEPT !.ids = ids, !.revs = [i \in ids |-> ship[i].rev]]
Sweeps(c) == Sweeping(c).ids # {}

List(c) ==
  /\ Take(c, {"list"})
  /\ req' = IF Sweeps(c) THEN With(req, c, Sweeping(c)) ELSE req
  /\ UNCHANGED <<clock, ship, wronged, faults, mix>>
Cron == [kind |-> "cron"]
CronSweep ==
  /\ Cron \notin DOMAIN req
  /\ Sweeps(Cron)
  /\ req' = With(req, Cron, Sweeping(Cron))
  /\ UNCHANGED <<clock, ship, wronged, todo, faults, mix>>

Unpost(c) ==
  /\ At(c, "sweep")
  /\ LET ids == {i \in req[c].ids \cap Live : ship[i].status = "posted"}
     IN /\ ship' = [i \in DOMAIN ship |-> IF i \in ids THEN [ship[i] EXCEPT !.status = "unposted", !.asked = "unposted", !.rev = @ + 1, !.crossed = FALSE]
                                          ELSE ship[i]]
        /\ Wrong({i \in ids : ship[i].rev = req[c].revs[i] /\ ~PassedAt(ship[i].window, clock)})
  /\ Answer(c)
  /\ UNCHANGED <<clock, todo, faults, mix>>

\* The database fails: the request is answered with an error, the cron job logs it.
Fails(c) ==
  /\ c \in DOMAIN req
  /\ faults > 0
  /\ faults' = faults - 1
  /\ Answer(c)
  /\ UNCHANGED <<clock, ship, wronged, todo, mix>>

Tick ==
  /\ clock < MaxTime
  /\ clock' = clock + 1
  /\ UNCHANGED <<ship, req, wronged, todo, faults, mix>>

-----------------------------------------------------------------------------
Init ==
  /\ mix \in Mixes
  /\ clock = 0
  /\ ship = mix.ship /\ req = <<>> /\ wronged = {}
  /\ todo = mix.calls /\ faults = mix.faults

Work == \/ \E c \in DOMAIN req : Insert(c) \/ WriteEdit(c) \/ WriteStatus(c) \/ Delete(c) \/ Unpost(c)
        \/ CronSweep
Next ==
  \/ \E c \in todo : Create(c) \/ Edit(c) \/ ChangeStatus(c) \/ Remove(c) \/ List(c)
  \/ \E c \in DOMAIN req : Fails(c)
  \/ Work
  \/ Tick

\* Requests are answered and the job runs every minute.
Spec == Init /\ [][Next]_vars /\ WF_vars(Work)

-----------------------------------------------------------------------------
\* Type correctness of the shipments and the requests.
TypeOK ==
  /\ clock \in 0 .. MaxTime
  /\ \A i \in Live : ship[i].status \in {"posted", "unposted"} /\ ship[i].rev \in Nat
  /\ \A c \in DOMAIN req : req[c].at \in {"insert", "edit", "status", "remove", "sweep"} /\ req[c].ids \subseteq DOMAIN ship

\* The status of a shipment is what was asked for last, by staff or by the sweep, unless an edit
\* wrote back a status it had read before that; and nobody posts a shipment whose window had
\* passed when he looked, nor does the sweep unpost one whose window is open, unless it was
\* changed in between.
BoardKept ==
  /\ \A i \in Live : ship[i].crossed \/ ship[i].status = ship[i].asked
  /\ wronged = {}

\* Again and again no shipment is posted whose window has passed.
NoneExpired == \A i \in Live : ship[i].status = "posted" => ~PassedAt(ship[i].window, clock)

=============================================================================
