----------------------------- MODULE OfficeProofs -----------------------------
(***************************************************************************)
(* Proofs about Office, part by part: of the load board, the templates,    *)
(* the whereabouts and statuses of drivers, the notices, pushes and badges.*)
(* Each part has an inductive invariant of its own; the steps of the       *)
(* others leave it alone.                                                  *)
(***************************************************************************)
EXTENDS Office, FiniteSetTheorems, SequenceTheorems, TLAPS

-----------------------------------------------------------------------------
(* The load board: the invariant.                                          *)

\* A row keeps its days in order, and has the status asked for last unless an older one came back.
RowKept(i) ==
  i \in Board!Live => Orderly(ship[i].window) /\ (ship[i].crossed \/ ship[i].status = ship[i].asked)

\* The form of call c was accepted at time t.
Formed(c, kind, t) ==
  /\ c \in mix.calls /\ c.kind = kind
  /\ Orderly(c.window) /\ ~(Board!Deadline(c.window) < t)

\* What a request has read: the revision of a row is what it was or has grown, and as long as
\* it is what it was, so are the row's status and window.
Read(c, s) ==
  /\ s.at \in {"edit", "status", "remove"} => s.ship \in DOMAIN ship
  /\ s.at \in {"edit", "status"} => s.rev \in Nat /\ (s.ship \in Board!Live => s.rev <= ship[s.ship].rev)

Serves(c, s) ==
  /\ s.at \in {"insert", "edit", "status", "remove", "sweep"}
  /\ s.since \in Nat /\ s.since <= clock
  /\ s.at = "insert" => Formed(c, "create", s.since)
  /\ Read(c, s)
  /\ s.at = "edit" => /\ Formed(c, "edit", s.since)
                      /\ s.status \in Statuses
                      /\ c.status # NULL => s.status = c.status
                      /\ c.status = NULL /\ s.ship \in Board!Live /\ ship[s.ship].rev = s.rev =>
                           s.status = ship[s.ship].status
  /\ s.at = "status" => /\ c \in mix.calls /\ c.kind = "status"
                        /\ c.status = "posted" /\ s.ship \in Board!Live /\ ship[s.ship].rev = s.rev =>
                             ~(Board!Deadline(ship[s.ship].window) < s.since)
  /\ s.at = "sweep" => \A i \in s.ids : /\ i \in DOMAIN ship /\ s.revs[i] \in Nat
                                        /\ i \in Board!Live =>
                                             /\ s.revs[i] <= ship[i].rev
                                             /\ ship[i].rev = s.revs[i] => Board!Deadline(ship[i].window) < s.since

BoardInv ==
  part = "board" =>
    /\ mix \in BoardMixes /\ todo \subseteq mix.calls
    /\ clock \in Nat /\ ship \in Seq(ShipRecord \cup {NULL}) /\ wronged = {}
    /\ \A i \in DOMAIN ship : RowKept(i)
    /\ \A c \in DOMAIN req : Serves(c, req[c])

-----------------------------------------------------------------------------
(* The load board: pickup windows.                                         *)

\* The deadline of a window is a number, and so are its moments.
LEMMA DeadlineTypes ==
  ASSUME NEW w \in Windows
  PROVE  /\ w.earliest \in Nat /\ w.latest \in Nat \cup {NULL} /\ w.hours \in Nat \cup {NULL}
         /\ Board!Deadline(w) \in Nat
<1>1. w.earliest \in Nat /\ w.latest \in Nat \cup {NULL} /\ w.hours \in Nat \cup {NULL}  BY DEF Windows
<1>2. Day \in Nat \ {0}  BY BoundsAssumption
<1> DEFINE l == IF w.latest = NULL THEN w.earliest ELSE w.latest
           h == IF w.hours = NULL THEN Day - 1 ELSE w.hours
<1>3. l \in Nat /\ h \in Nat  BY <1>1, <1>2
<1>4. Board!Deadline(w) = l * Day + h  BY DEF Board!Deadline
<1> HIDE DEF l, h
<1> QED  BY <1>1, <1>2, <1>3, <1>4

\* A window is over exactly when its deadline is: resolveLoadBoardPickupDeadline() finds the last
\* moment (load-board-pickup.util.ts).
LEMMA DeadlineIsLast ==
  ASSUME NEW w \in Windows, Orderly(w), NEW t \in Nat
  PROVE  Board!PassedAt(w, t) <=> Board!Deadline(w) < t
<1>0. /\ w.earliest \in Nat /\ w.latest \in Nat \cup {NULL} /\ w.hours \in Nat \cup {NULL}
      /\ Board!Deadline(w) \in Nat /\ Day \in Nat \ {0}
  BY DeadlineTypes, BoundsAssumption
<1> DEFINE l == IF w.latest = NULL THEN w.earliest ELSE w.latest
           h == IF w.hours = NULL THEN Day - 1 ELSE w.hours
<1>1. l \in Nat /\ h \in Nat /\ w.earliest <= l  BY <1>0 DEF Orderly
<1>2. Board!Deadline(w) = l * Day + h  BY DEF Board!Deadline
<1>3. Board!Days(w) = w.earliest .. l  BY DEF Board!Days
<1>4. Board!Deadline(w) \in Board!Moments(w)
  <2>1. l \in Board!Days(w)  BY <1>0, <1>1, <1>3
  <2>2. CASE w.hours = NULL
    <3>1. h \in 0 .. Day - 1  BY <1>0, <2>2
    <3> QED  BY <1>2, <2>1, <2>2, <3>1 DEF Board!Moments
  <2>3. CASE w.hours # NULL
    BY <1>2, <2>1, <2>3 DEF Board!Moments
  <2> QED  BY <2>2, <2>3
<1>5. ASSUME NEW m \in Board!Moments(w)  PROVE m \in Nat /\ m <= Board!Deadline(w)
  <2>1. PICK d \in Board!Days(w), k \in Nat : m = d * Day + k /\ k <= h
    <3>1. CASE w.hours = NULL
      <4>1. PICK d \in Board!Days(w), k \in 0 .. Day - 1 : m = d * Day + k  BY <1>5, <3>1 DEF Board!Moments
      <4>2. k \in Nat /\ k <= h  BY <1>0, <3>1, <4>1
      <4> QED  BY <4>1, <4>2
    <3>2. CASE w.hours # NULL
      <4>1. PICK d \in Board!Days(w) : m = d * Day + w.hours  BY <1>5, <3>2 DEF Board!Moments
      <4>2. w.hours \in Nat /\ w.hours <= h  BY <1>0, <3>2
      <4> QED  BY <4>1, <4>2
    <3> QED  BY <3>1, <3>2
  <2>2. d \in Nat /\ d <= l  BY <1>0, <1>1, <1>3, <2>1
  <2>3. d * Day <= l * Day /\ d * Day \in Nat /\ l * Day \in Nat
    <3> HIDE DEF l, h
    <3>1. PICK x \in Nat : l = d + x  
      <4>1. l - d \in Nat /\ l = d + (l - d)  BY <1>1, <2>2
      <4> QED  BY <4>1
    <3>2. l * Day = d * Day + x * Day  BY <1>0, <2>2, <3>1
    <3>3. x * Day \in Nat /\ d * Day \in Nat  BY <1>0, <2>2, <3>1
    <3> QED  BY <3>2, <3>3
  <2> HIDE DEF l, h
  <2> QED  BY <1>1, <1>2, <2>1, <2>3
<1> QED  BY <1>0, <1>4, <1>5 DEF Board!PassedAt

-----------------------------------------------------------------------------
(* The load board: steps.                                                  *)

\* What a step does to the rows: they stay, go, or are written and get another revision.
RowsStep ==
  /\ DOMAIN ship \subseteq DOMAIN ship'
  /\ \A i \in DOMAIN ship :
       \/ ship'[i] = ship[i]
       \/ ship'[i] = NULL
       \/ ship[i] # NULL /\ ship[i].rev \in Nat /\ ship'[i].rev = ship[i].rev + 1

\* What others have read stays true.
LEMMA OthersServe ==
  ASSUME NEW c, NEW s, Serves(c, s), RowsStep, clock \in Nat, clock' \in Nat, clock <= clock', mix' = mix
  PROVE  Serves(c, s)'
<1>1. ASSUME NEW i \in DOMAIN ship, i \in Board!Live', ship'[i] # ship[i]
      PROVE  i \in Board!Live /\ ship[i].rev \in Nat /\ ship'[i].rev = ship[i].rev + 1
  BY <1>1 DEF RowsStep, Board!Live
<1>2. \A i \in DOMAIN ship : i \in DOMAIN ship' /\ (i \in Board!Live' /\ ship'[i] = ship[i] => i \in Board!Live)
  BY DEF RowsStep, Board!Live
<1>3. s.at \in {"insert", "edit", "status", "remove", "sweep"} /\ s.since \in Nat /\ s.since <= clock'
  BY DEF Serves
<1>4. \A kind, t : Formed(c, kind, t)' <=> Formed(c, kind, t)  BY DEF Formed, Board!Deadline
<1>5. Read(c, s)'
  <2>1. s.at \in {"edit", "status", "remove"} => s.ship \in DOMAIN ship'  BY <1>2 DEF Serves, Read
  <2>2. ASSUME s.at \in {"edit", "status"}, s.ship \in Board!Live'
        PROVE  s.rev <= ship'[s.ship].rev
    <3>1. s.ship \in DOMAIN ship /\ s.rev \in Nat /\ (s.ship \in Board!Live => s.rev <= ship[s.ship].rev)
      BY <2>2 DEF Serves, Read
    <3> QED  BY <1>1, <1>2, <2>2, <3>1
  <2> QED  BY <2>1, <2>2 DEF Serves, Read
<1>6. ASSUME s.at \in {"edit", "status"}, s.ship \in Board!Live', ship'[s.ship].rev = s.rev
      PROVE  s.ship \in Board!Live /\ ship'[s.ship] = ship[s.ship]
  <2>1. s.ship \in DOMAIN ship /\ s.rev \in Nat /\ (s.ship \in Board!Live => s.rev <= ship[s.ship].rev)
    BY <1>6 DEF Serves, Read
  <2> QED  BY <1>1, <1>2, <1>6, <2>1
<1>7. s.at = "insert" => Formed(c, "create", s.since)'  BY <1>4 DEF Serves
<1>8. s.at = "edit" => /\ Formed(c, "edit", s.since)'
                       /\ s.status \in Statuses
                       /\ c.status # NULL => s.status = c.status
                       /\ c.status = NULL /\ s.ship \in Board!Live' /\ ship'[s.ship].rev = s.rev =>
                            s.status = ship'[s.ship].status
  BY <1>4, <1>6 DEF Serves
<1>9. s.at = "status" => /\ c \in mix'.calls /\ c.kind = "status"
                         /\ c.status = "posted" /\ s.ship \in Board!Live' /\ ship'[s.ship].rev = s.rev =>
                              ~(Board!Deadline(ship'[s.ship].window) < s.since)
  BY <1>6 DEF Serves
<1>10. ASSUME s.at = "sweep", NEW i \in s.ids
       PROVE  /\ i \in DOMAIN ship' /\ s.revs[i] \in Nat
              /\ i \in Board!Live' => /\ s.revs[i] <= ship'[i].rev
                                      /\ ship'[i].rev = s.revs[i] => Board!Deadline(ship'[i].window) < s.since
  <2>1. /\ i \in DOMAIN ship /\ s.revs[i] \in Nat
        /\ i \in Board!Live => /\ s.revs[i] <= ship[i].rev
                               /\ ship[i].rev = s.revs[i] => Board!Deadline(ship[i].window) < s.since
    BY <1>10 DEF Serves
  <2>2. CASE ship'[i] = ship[i]  BY <1>2, <2>1, <2>2
  <2>3. CASE ship'[i] # ship[i]  BY <1>1, <1>2, <2>1, <2>3
  <2> QED  BY <2>2, <2>3
<1> QED  BY <1>3, <1>5, <1>7, <1>8, <1>9, <1>10 DEF Serves

\* A step keeps the invariant when the rows it writes are right and what it says of its own
\* request is.
LEMMA BoardWrites ==
  ASSUME BoardInv, part = "board", RowsStep,
         clock' \in Nat, clock <= clock', mix' = mix, todo' \subseteq todo,
         ship' \in Seq(ShipRecord \cup {NULL}), wronged' = {},
         \A i \in DOMAIN ship' : RowKept(i)',
         \A c \in DOMAIN req' : (c \in DOMAIN req /\ req'[c] = req[c]) \/ Serves(c, req[c])'
  PROVE  BoardInv'
<1>1. \A c \in DOMAIN req' : Serves(c, req[c])'
  <2> SUFFICES ASSUME NEW c \in DOMAIN req', c \in DOMAIN req, req'[c] = req[c]
               PROVE  Serves(c, req[c])'
    OBVIOUS
  <2>1. PICK s : s = req[c]  OBVIOUS
  <2>2. Serves(c, s) /\ clock \in Nat  BY <2>1 DEF BoardInv
  <2>3. Serves(c, s)'  BY <2>2, OthersServe
  <2> QED  BY <2>1, <2>3
<1>2. mix' \in BoardMixes /\ todo' \subseteq mix'.calls  BY DEF BoardInv
<1> QED  BY <1>1, <1>2 DEF BoardInv

\* A step that only enters, ends or changes a request.
LEMMA BoardReads ==
  ASSUME BoardInv, part = "board", UNCHANGED <<clock, ship, wronged, mix>>, todo' \subseteq todo,
         \A c \in DOMAIN req' : (c \in DOMAIN req /\ req'[c] = req[c]) \/ Serves(c, req'[c])
  PROVE  BoardInv'
<1>1. RowsStep  BY DEF RowsStep
<1>2. /\ clock' \in Nat /\ clock <= clock'
      /\ ship' \in Seq(ShipRecord \cup {NULL}) /\ wronged' = {}
  BY DEF BoardInv
<1>3. \A i \in DOMAIN ship' : RowKept(i)'  BY DEF BoardInv, RowKept, Board!Live
<1>4. ASSUME NEW c, NEW s, Serves(c, s)  PROVE Serves(c, s)'
  BY <1>1, <1>2, <1>4, OthersServe DEF BoardInv
<1>5. \A c \in DOMAIN req' : (c \in DOMAIN req /\ req'[c] = req[c]) \/ Serves(c, req[c])'
  <2> SUFFICES ASSUME NEW c \in DOMAIN req', ~(c \in DOMAIN req /\ req'[c] = req[c])
               PROVE  Serves(c, req[c])'
    OBVIOUS
  <2>1. PICK s : s = req'[c]  OBVIOUS
  <2>2. Serves(c, s)'  BY <1>4, <2>1
  <2> QED  BY <2>1, <2>2
<1> QED  BY <1>1, <1>2, <1>3, <1>5, BoardWrites

\* Requests that end, and those that come in.
LEMMA BoardAnswer ==
  ASSUME NEW c, Board!Answer(c), NEW d \in DOMAIN req'
  PROVE  d \in DOMAIN req /\ d # c /\ req'[d] = req[d]
BY DEF Board!Answer, Board!Without, Board!Restrict

LEMMA BoardEnter ==
  ASSUME NEW c, NEW s, req' = Board!With(req, c, s), NEW d \in DOMAIN req'
  PROVE  (d \in DOMAIN req /\ req'[d] = req[d]) \/ (d = c /\ req'[d] = s)
BY DEF Board!With

\* Rows are numbered, and a row that is there has its columns.
LEMMA ShipTypes ==
  ASSUME BoardInv, part = "board"
  PROVE  /\ ship \in Seq(ShipRecord \cup {NULL}) /\ clock \in Nat /\ wronged = {}
         /\ DOMAIN ship = 1 .. Len(ship) /\ Len(ship) \in Nat
         /\ \A i \in Board!Live : i \in DOMAIN ship /\ ship[i] # NULL /\ ship[i] \in ShipRecord /\ ship[i].rev \in Nat
BY DEF BoardInv, Board!Live, ShipRecord

\* What the calls ask for.
LEMMA CallTypes ==
  ASSUME BoardInv, part = "board", NEW c \in mix.calls
  PROVE  /\ c.kind \in {"create", "edit"} => c.window \in Windows /\ c.status \in Statuses \cup {NULL}
         /\ c.kind = "status" => c.status \in Statuses
BY BoardAssumption DEF BoardInv

\* One row is written, or deleted.
LEMMA RowWrites ==
  ASSUME BoardInv, part = "board", NEW i \in Board!Live, NEW r \in ShipRecord \cup {NULL},
         ship' = [ship EXCEPT ![i] = r], r = NULL \/ r.rev = ship[i].rev + 1,
         r # NULL => Orderly(r.window) /\ (r.crossed \/ r.status = r.asked)
  PROVE  /\ RowsStep /\ ship' \in Seq(ShipRecord \cup {NULL})
         /\ \A j \in DOMAIN ship' : RowKept(j)'
<1>1. /\ ship \in Seq(ShipRecord \cup {NULL}) /\ DOMAIN ship = 1 .. Len(ship) /\ Len(ship) \in Nat
      /\ i \in DOMAIN ship /\ ship[i] # NULL /\ ship[i].rev \in Nat
  BY ShipTypes
<1>2. ship' \in Seq(ShipRecord \cup {NULL})
  <2>1. i \in 1 .. Len(ship)  BY <1>1
  <2> QED  BY ONLY <1>1, <2>1, r \in ShipRecord \cup {NULL}, ship' = [ship EXCEPT ![i] = r], ExceptSeq
<1>3. DOMAIN ship' = DOMAIN ship /\ ship'[i] = r /\ \A j \in DOMAIN ship : j # i => ship'[j] = ship[j]
  BY <1>1
<1>4. RowsStep  BY <1>1, <1>3 DEF RowsStep
<1>5. ASSUME NEW j \in DOMAIN ship'  PROVE RowKept(j)'
  <2>1. CASE j = i  BY <1>3, <2>1 DEF RowKept, Board!Live
  <2>2. CASE j # i
    <3>1. RowKept(j)  BY <1>3 DEF BoardInv
    <3> QED  BY <1>3, <2>2, <3>1 DEF RowKept, Board!Live
  <2> QED  BY <2>1, <2>2
<1> QED  BY <1>2, <1>4, <1>5

\* What is accepted has its deadline before it.
LEMMA AcceptedForms ==
  ASSUME NEW w \in Windows, Board!Accepted(w)
  PROVE  Orderly(w) /\ ~(Board!Deadline(w) < clock)
<1>1. w.earliest \in Nat /\ w.latest \in Nat \cup {NULL}  BY DeadlineTypes
<1> QED  BY <1>1 DEF Board!Accepted, Board!Expired, Orderly

\* create() checks the form as it reads the clock.
LEMMA CreateReads == ASSUME BoardInv, part = "board", NEW c, Board!Create(c)  PROVE BoardInv'
<1> DEFINE s == Board!Serving("insert", NULL)
<1>1. /\ c \in mix.calls /\ c.kind = "create" /\ todo' \subseteq todo
      /\ UNCHANGED <<clock, ship, wronged, mix>>
  BY DEF Board!Create, Board!Take, BoardInv
<1>2. ASSUME Board!Accepted(c.window)  PROVE Serves(c, s)
  <2>1. c.window \in Windows  BY <1>1, CallTypes
  <2>2. Orderly(c.window) /\ ~(Board!Deadline(c.window) < clock)  BY <1>2, <2>1, AcceptedForms
  <2>3. s.at = "insert" /\ s.since = clock /\ clock \in Nat  BY DEF Board!Serving, BoardInv
  <2> HIDE DEF s
  <2> QED  BY <1>1, <2>2, <2>3 DEF Serves, Read, Formed
<1>3. req' = req \/ (Board!Accepted(c.window) /\ req' = Board!With(req, c, s))  BY DEF Board!Create
<1> HIDE DEF s
<1>4. \A d \in DOMAIN req' : (d \in DOMAIN req /\ req'[d] = req[d]) \/ Serves(d, req'[d])
  BY <1>2, <1>3, BoardEnter
<1> QED  BY <1>1, <1>4, BoardReads

\* update() reads the row and checks the form.
LEMMA EditReads == ASSUME BoardInv, part = "board", NEW c, Board!Edit(c)  PROVE BoardInv'
<1> DEFINE i == c.ship
           s == [Board!Serving("edit", i) EXCEPT !.status = Board!EditStatus(c, ship[i].status), !.rev = ship[i].rev]
<1>1. /\ c \in mix.calls /\ c.kind = "edit" /\ todo' \subseteq todo
      /\ UNCHANGED <<clock, ship, wronged, mix>>
  BY DEF Board!Edit, Board!Take, BoardInv
<1>2. ASSUME i \in Board!Live, Board!Accepted(c.window)  PROVE Serves(c, s)
  <2>1. c.window \in Windows /\ c.status \in Statuses \cup {NULL}  BY <1>1, CallTypes
  <2>2. Orderly(c.window) /\ ~(Board!Deadline(c.window) < clock)  BY <1>2, <2>1, AcceptedForms
  <2>3. /\ i \in DOMAIN ship /\ ship[i] \in ShipRecord /\ ship[i].rev \in Nat /\ clock \in Nat
        /\ ship[i].status \in Statuses
    BY <1>2, ShipTypes DEF ShipRecord
  <2>4. /\ s.at = "edit" /\ s.since = clock /\ s.ship = i /\ s.rev = ship[i].rev
        /\ s.status = IF c.status = NULL THEN ship[i].status ELSE c.status
    BY DEF Board!Serving, Board!EditStatus
  <2> HIDE DEF s, i
  <2> QED  BY <1>1, <2>1, <2>2, <2>3, <2>4 DEF Serves, Read, Formed
<1>3. req' = req \/ (i \in Board!Live /\ Board!Accepted(c.window) /\ req' = Board!With(req, c, s))  BY DEF Board!Edit
<1> HIDE DEF s, i
<1>4. \A d \in DOMAIN req' : (d \in DOMAIN req /\ req'[d] = req[d]) \/ Serves(d, req'[d])
  BY <1>2, <1>3, BoardEnter
<1> QED  BY <1>1, <1>4, BoardReads

\* updateStatus() reads the row and, when it is to be posted, its window.
LEMMA StatusReads == ASSUME BoardInv, part = "board", NEW c, Board!ChangeStatus(c)  PROVE BoardInv'
<1> DEFINE i == c.ship
           s == [Board!Serving("status", i) EXCEPT !.rev = ship[i].rev]
<1>1. /\ c \in mix.calls /\ c.kind = "status" /\ todo' \subseteq todo
      /\ UNCHANGED <<clock, ship, wronged, mix>>
  BY DEF Board!ChangeStatus, Board!Take, BoardInv
<1>2. ASSUME i \in Board!Live, ~(c.status = "posted" /\ Board!Expired(ship[i].window))  PROVE Serves(c, s)
  <2>1. i \in DOMAIN ship /\ ship[i].rev \in Nat /\ clock \in Nat  BY <1>2, ShipTypes
  <2>2. s.at = "status" /\ s.since = clock /\ s.ship = i /\ s.rev = ship[i].rev  BY DEF Board!Serving
  <2>3. c.status = "posted" => ~(Board!Deadline(ship[i].window) < clock)  BY <1>2 DEF Board!Expired
  <2> HIDE DEF s, i
  <2> QED  BY <1>1, <2>1, <2>2, <2>3 DEF Serves, Read
<1>3. \/ req' = req
      \/ /\ i \in Board!Live /\ ~(c.status = "posted" /\ Board!Expired(ship[i].window))
         /\ req' = Board!With(req, c, s)
  BY DEF Board!ChangeStatus
<1> HIDE DEF s, i
<1>4. \A d \in DOMAIN req' : (d \in DOMAIN req /\ req'[d] = req[d]) \/ Serves(d, req'[d])
  BY <1>2, <1>3, BoardEnter
<1> QED  BY <1>1, <1>4, BoardReads

\* remove() reads the row.
LEMMA RemoveReads == ASSUME BoardInv, part = "board", NEW c, Board!Remove(c)  PROVE BoardInv'
<1> DEFINE i == c.ship
           s == Board!Serving("remove", i)
<1>1. todo' \subseteq todo /\ UNCHANGED <<clock, ship, wronged, mix>>
  BY DEF Board!Remove, Board!Take
<1>2. ASSUME i \in Board!Live  PROVE Serves(c, s)
  <2>1. i \in DOMAIN ship /\ clock \in Nat  BY <1>2, ShipTypes
  <2>2. s.at = "remove" /\ s.since = clock /\ s.ship = i  BY DEF Board!Serving
  <2> HIDE DEF s, i
  <2> QED  BY <2>1, <2>2 DEF Serves, Read
<1>3. req' = req \/ (i \in Board!Live /\ req' = Board!With(req, c, s))  BY DEF Board!Remove
<1> HIDE DEF s, i
<1>4. \A d \in DOMAIN req' : (d \in DOMAIN req /\ req'[d] = req[d]) \/ Serves(d, req'[d])
  BY <1>2, <1>3, BoardEnter
<1> QED  BY <1>1, <1>4, BoardReads

\* The sweep reads the posted shipments whose deadline is past.
LEMMA SweepReads ==
  ASSUME BoardInv, part = "board", NEW c, Board!List(c) \/ (c = Board!Cron /\ Board!CronSweep)
  PROVE  BoardInv'
<1> DEFINE s == Board!Sweeping(c)
<1>1. todo' \subseteq todo /\ UNCHANGED <<clock, ship, wronged, mix>>
  BY DEF Board!List, Board!CronSweep, Board!Take
<1>2. Serves(c, s)
  <2> DEFINE ids == {i \in Board!Live : ship[i].status = "posted" /\ Board!Expired(ship[i].window)}
             revs == [i \in ids |-> ship[i].rev]
  <2>1. s.at = "sweep" /\ s.since = clock /\ s.ids = ids /\ s.revs = revs
    BY DEF Board!Sweeping, Board!Serving
  <2>2. ASSUME NEW i \in ids
        PROVE  /\ i \in DOMAIN ship /\ revs[i] = ship[i].rev /\ ship[i].rev \in Nat
               /\ Board!Deadline(ship[i].window) < clock
    BY ShipTypes DEF Board!Expired
  <2>3. clock \in Nat  BY ShipTypes
  <2> HIDE DEF s, ids, revs
  <2> QED  BY <2>1, <2>2, <2>3 DEF Serves, Read
<1>3. req' = req \/ req' = Board!With(req, c, s)  BY DEF Board!List, Board!CronSweep
<1> HIDE DEF s
<1>4. \A d \in DOMAIN req' : (d \in DOMAIN req /\ req'[d] = req[d]) \/ Serves(d, req'[d])
  BY <1>2, <1>3, BoardEnter
<1> QED  BY <1>1, <1>4, BoardReads

\* A form that was accepted then had a moment left then.
LEMMA FormOpen ==
  ASSUME BoardInv, part = "board", NEW c, NEW kind \in {"create", "edit"}, NEW t \in Nat, Formed(c, kind, t)
  PROVE  c.window \in Windows /\ c.status \in Statuses \cup {NULL} /\ Orderly(c.window) /\ ~Board!PassedAt(c.window, t)
<1>1. c \in mix.calls /\ c.kind = kind /\ Orderly(c.window) /\ ~(Board!Deadline(c.window) < t)  BY DEF Formed
<1>2. c.window \in Windows /\ c.status \in Statuses \cup {NULL}  BY <1>1, CallTypes
<1> QED  BY <1>1, <1>2, DeadlineIsLast

\* create() adds a row.
LEMMA InsertWrites == ASSUME BoardInv, part = "board", NEW c \in DOMAIN req, Board!Insert(c)  PROVE BoardInv'
<1> DEFINE status == IF c.status = NULL THEN "posted" ELSE c.status
           r == Board!Posted(status, c.window)
<1>1. Serves(c, req[c]) /\ req[c].at = "insert"  BY DEF BoardInv, Board!Insert, Board!At
<1>2. c.window \in Windows /\ c.status \in Statuses \cup {NULL} /\ Orderly(c.window) /\ ~Board!PassedAt(c.window, req[c].since)
  <2>1. Formed(c, "create", req[c].since) /\ req[c].since \in Nat  BY <1>1 DEF Serves
  <2> QED  BY <2>1, FormOpen
<1>3. /\ ship' = Append(ship, r) /\ Board!Answer(c) /\ UNCHANGED <<clock, todo, mix>>
      /\ wronged' = wronged \cup IF status = "posted" /\ Board!PassedAt(c.window, req[c].since) THEN {Len(ship) + 1} ELSE {}
  BY DEF Board!Insert, Board!Wrong
<1>4. r \in ShipRecord /\ Orderly(r.window) /\ r.status = r.asked
  BY <1>2 DEF Board!Posted, ShipRecord, Statuses
<1>5. /\ ship \in Seq(ShipRecord \cup {NULL}) /\ DOMAIN ship = 1 .. Len(ship) /\ Len(ship) \in Nat
      /\ clock \in Nat /\ wronged = {}
  BY ShipTypes
<1> HIDE DEF r
<1>6. ship' \in Seq(ShipRecord \cup {NULL}) /\ DOMAIN ship' = 1 .. Len(ship) + 1
  BY <1>3, <1>4, <1>5
<1>7. ship'[Len(ship) + 1] = r /\ \A i \in DOMAIN ship : ship'[i] = ship[i]
  BY <1>3, <1>4, <1>5
<1>8. RowsStep  BY <1>5, <1>6, <1>7 DEF RowsStep
<1>9. ASSUME NEW i \in DOMAIN ship'  PROVE RowKept(i)'
  <2>1. CASE i = Len(ship) + 1  BY <1>4, <1>7, <2>1 DEF RowKept
  <2>2. CASE i # Len(ship) + 1
    <3>1. i \in DOMAIN ship  BY <1>5, <1>6, <2>2
    <3>2. RowKept(i)  BY <3>1 DEF BoardInv
    <3> QED  BY <1>7, <3>1, <3>2 DEF RowKept, Board!Live
  <2> QED  BY <2>1, <2>2
<1>10. wronged' = {}  BY <1>2, <1>3, <1>5
<1>11. \A d \in DOMAIN req' : (d \in DOMAIN req /\ req'[d] = req[d]) \/ Serves(d, req[d])'  BY <1>3, BoardAnswer
<1>12. clock' \in Nat /\ clock <= clock' /\ todo' \subseteq todo /\ mix' = mix  BY <1>3, <1>5
<1> QED  BY <1>6, <1>8, <1>9, <1>10, <1>11, <1>12, BoardWrites

\* A request that writes one row and ends.
LEMMA RowAnswer ==
  ASSUME BoardInv, part = "board", NEW c \in DOMAIN req, Board!Answer(c), UNCHANGED <<clock, todo, mix>>,
         wronged' = {},
         \/ ship' = ship
         \/ \E i \in Board!Live, r \in ShipRecord \cup {NULL} :
              /\ ship' = [ship EXCEPT ![i] = r]
              /\ r = NULL \/ r.rev = ship[i].rev + 1
              /\ r # NULL => Orderly(r.window) /\ (r.crossed \/ r.status = r.asked)
  PROVE  BoardInv'
<1>1. /\ RowsStep /\ ship' \in Seq(ShipRecord \cup {NULL})
      /\ \A j \in DOMAIN ship' : RowKept(j)'
  <2>1. CASE ship' = ship
    BY <2>1 DEF RowsStep, BoardInv, RowKept, Board!Live
  <2>2. CASE ship' # ship
    <3>1. PICK i \in Board!Live, r \in ShipRecord \cup {NULL} :
              /\ ship' = [ship EXCEPT ![i] = r]
              /\ r = NULL \/ r.rev = ship[i].rev + 1
              /\ r # NULL => Orderly(r.window) /\ (r.crossed \/ r.status = r.asked)
      BY <2>2
    <3> QED  BY <3>1, RowWrites, Zenon
  <2> QED  BY <2>1, <2>2
<1>2. \A d \in DOMAIN req' : (d \in DOMAIN req /\ req'[d] = req[d]) \/ Serves(d, req[d])'  BY BoardAnswer
<1>3. clock' \in Nat /\ clock <= clock' /\ todo' \subseteq todo /\ mix' = mix  BY ShipTypes
<1> QED  BY <1>1, <1>2, <1>3, BoardWrites

\* update() writes the row: the status that was read, when the form has none.
LEMMA EditWrites == ASSUME BoardInv, part = "board", NEW c \in DOMAIN req, Board!WriteEdit(c)  PROVE BoardInv'
<1> DEFINE i == req[c].ship
           a1 == [ship[i] EXCEPT !.status = req[c].status]
           a2 == [a1 EXCEPT !.window = c.window]
           a == [a2 EXCEPT !.rev = ship[i].rev + 1]
           r == [a EXCEPT !.asked = IF c.status = NULL THEN ship[i].asked ELSE c.status,
                          !.crossed = c.status = NULL /\ (ship[i].crossed \/ ship[i].rev # req[c].rev)]
<1>1. Serves(c, req[c]) /\ req[c].at = "edit"  BY DEF BoardInv, Board!WriteEdit, Board!At
<1>2. c.window \in Windows /\ c.status \in Statuses \cup {NULL} /\ Orderly(c.window) /\ ~Board!PassedAt(c.window, req[c].since)
  <2>1. Formed(c, "edit", req[c].since) /\ req[c].since \in Nat  BY <1>1 DEF Serves
  <2> QED  BY <2>1, FormOpen
<1>3. Board!Answer(c) /\ UNCHANGED <<clock, todo, mix>>  BY DEF Board!WriteEdit
<1>4. wronged' = {}
  BY <1>2, ShipTypes DEF Board!WriteEdit, Board!Wrong
<1>5. i \in Board!Live => ship' = [ship EXCEPT ![i] = r]
  BY DEF Board!WriteEdit
<1>6. i \notin Board!Live => ship' = ship  BY DEF Board!WriteEdit
<1>7. ASSUME i \in Board!Live
      PROVE  /\ r \in ShipRecord /\ r.rev = ship[i].rev + 1
             /\ Orderly(r.window) /\ (r.crossed \/ r.status = r.asked)
  <2>1. ship[i] \in ShipRecord /\ RowKept(i)  BY <1>7, ShipTypes DEF BoardInv
  <2>2. /\ req[c].status \in Statuses
        /\ c.status # NULL => req[c].status = c.status
        /\ c.status = NULL /\ ship[i].rev = req[c].rev => req[c].status = ship[i].status
    BY <1>1, <1>7 DEF Serves
  <2>a. a1 \in ShipRecord /\ a1.status = req[c].status /\ a1.rev = ship[i].rev  BY <2>1, <2>2 DEF ShipRecord
  <2> HIDE DEF a1
  <2>b. a2 \in ShipRecord /\ a2.status = req[c].status /\ a2.rev = ship[i].rev /\ a2.window = c.window
    BY <1>2, <2>a DEF ShipRecord
  <2> HIDE DEF a2
  <2>3. /\ a \in ShipRecord /\ a.rev = ship[i].rev + 1 /\ a.window = c.window /\ a.status = req[c].status
    <3>1. ship[i].rev + 1 \in Nat  BY <2>1 DEF ShipRecord
    <3> QED  BY <2>b, <3>1 DEF ShipRecord
  <2> HIDE DEF a
  <2>4. /\ r \in ShipRecord /\ r.rev = a.rev /\ r.window = a.window /\ r.status = a.status
        /\ r.asked = IF c.status = NULL THEN ship[i].asked ELSE c.status
        /\ r.crossed <=> (c.status = NULL /\ (ship[i].crossed \/ ship[i].rev # req[c].rev))
    BY <1>2, <2>1, <2>3, Zenon DEF ShipRecord
  <2>5. ship[i].crossed \/ ship[i].status = ship[i].asked  BY <1>7, <2>1 DEF RowKept
  <2> HIDE DEF r, i
  <2> QED  BY <1>2, <2>2, <2>3, <2>4, <2>5
<1> HIDE DEF r
<1> QED  BY <1>3, <1>4, <1>5, <1>6, <1>7, RowAnswer

\* updateStatus() writes the status.
LEMMA StatusWrites == ASSUME BoardInv, part = "board", NEW c \in DOMAIN req, Board!WriteStatus(c)  PROVE BoardInv'
<1> DEFINE i == req[c].ship
           a1 == [ship[i] EXCEPT !.status = c.status]
           a == [a1 EXCEPT !.rev = ship[i].rev + 1]
           r == [a EXCEPT !.asked = c.status, !.crossed = FALSE]
<1>1. Serves(c, req[c]) /\ req[c].at = "status"  BY DEF BoardInv, Board!WriteStatus, Board!At
<1>2. c.status \in Statuses /\ req[c].since \in Nat  BY <1>1, CallTypes DEF Serves
<1>3. Board!Answer(c) /\ UNCHANGED <<clock, todo, mix>>  BY DEF Board!WriteStatus
<1>4. wronged' = {}
  <2>1. ASSUME i \in Board!Live, c.status = "posted", ship[i].rev = req[c].rev
        PROVE  ~Board!PassedAt(ship[i].window, req[c].since)
    <3>1. ~(Board!Deadline(ship[i].window) < req[c].since)  BY <1>1, <2>1 DEF Serves
    <3>2. ship[i] \in ShipRecord /\ RowKept(i)  BY <2>1, ShipTypes DEF BoardInv
    <3>3. ship[i].window \in Windows /\ Orderly(ship[i].window)  BY <2>1, <3>2 DEF ShipRecord, RowKept
    <3> QED  BY <1>2, <3>1, <3>3, DeadlineIsLast
  <2> QED  BY <2>1, ShipTypes DEF Board!WriteStatus, Board!Wrong
<1>5. i \in Board!Live => ship' = [ship EXCEPT ![i] = r]
  BY DEF Board!WriteStatus
<1>6. i \notin Board!Live => ship' = ship  BY DEF Board!WriteStatus
<1>7. ASSUME i \in Board!Live
      PROVE  /\ r \in ShipRecord /\ r.rev = ship[i].rev + 1
             /\ Orderly(r.window) /\ (r.crossed \/ r.status = r.asked)
  <2>1. ship[i] \in ShipRecord /\ Orderly(ship[i].window)  BY <1>7, ShipTypes DEF BoardInv, RowKept
  <2>a. a1 \in ShipRecord /\ a1.status = c.status /\ a1.rev = ship[i].rev /\ a1.window = ship[i].window
    BY <1>2, <2>1 DEF ShipRecord
  <2> HIDE DEF a1
  <2>2. a \in ShipRecord /\ a.rev = ship[i].rev + 1 /\ a.window = ship[i].window /\ a.status = c.status
    <3>1. ship[i].rev + 1 \in Nat  BY <2>1 DEF ShipRecord
    <3> QED  BY <2>a, <3>1 DEF ShipRecord
  <2> HIDE DEF a
  <2>3. r \in ShipRecord /\ r.rev = a.rev /\ r.window = a.window /\ r.status = a.status /\ r.asked = c.status
    BY <1>2, <2>2, Zenon DEF ShipRecord
  <2> HIDE DEF r, i
  <2> QED  BY <2>1, <2>2, <2>3
<1> HIDE DEF r
<1> QED  BY <1>3, <1>4, <1>5, <1>6, <1>7, RowAnswer

\* remove() deletes the row, if it is still there.
LEMMA DeleteWrites == ASSUME BoardInv, part = "board", NEW c \in DOMAIN req, Board!Delete(c)  PROVE BoardInv'
<1> DEFINE i == req[c].ship
<1>1. Serves(c, req[c]) /\ req[c].at = "remove"  BY DEF BoardInv, Board!Delete, Board!At
<1>2. Board!Answer(c) /\ UNCHANGED <<clock, todo, mix>> /\ wronged' = {} /\ ship' = [ship EXCEPT ![i] = NULL]
  BY ShipTypes DEF Board!Delete
<1>3. i \notin Board!Live => ship' = ship
  <2>1. i \in DOMAIN ship  BY <1>1 DEF Serves, Read
  <2>2. i \notin Board!Live => ship[i] = NULL  BY <2>1 DEF Board!Live
  <2>3. ship = [j \in DOMAIN ship |-> ship[j]]  BY ShipTypes
  <2> QED  BY <1>2, <2>1, <2>2, <2>3
<1> HIDE DEF i
<1> QED  BY <1>2, <1>3, RowAnswer, Zenon

\* A row that the sweep writes.
Unposted(r) == [r EXCEPT !.status = "unposted", !.asked = "unposted", !.rev = r.rev + 1, !.crossed = FALSE]

\* It is a row again, unposted as it was asked to be.
LEMMA UnpostedRow ==
  ASSUME NEW r \in ShipRecord
  PROVE  /\ Unposted(r) \in ShipRecord /\ Unposted(r).rev = r.rev + 1 /\ Unposted(r).window = r.window
         /\ Unposted(r).status = Unposted(r).asked
<1> DEFINE a == [r EXCEPT !.status = "unposted"]
           b == [a EXCEPT !.asked = "unposted"]
           d == [b EXCEPT !.rev = r.rev + 1]
           e == [d EXCEPT !.crossed = FALSE]
<1>0. r.rev + 1 \in Nat /\ "unposted" \in Statuses  BY DEF ShipRecord, Statuses
<1>1. a \in ShipRecord /\ a.status = "unposted" /\ a.window = r.window  BY <1>0 DEF ShipRecord
<1>5. Unposted(r) = e  BY DEF Unposted
<1> HIDE DEF a
<1>2. b \in ShipRecord /\ b.status = "unposted" /\ b.asked = "unposted" /\ b.window = r.window  BY <1>0, <1>1 DEF ShipRecord
<1> HIDE DEF b
<1>3. d \in ShipRecord /\ d.status = "unposted" /\ d.asked = "unposted" /\ d.window = r.window /\ d.rev = r.rev + 1
  BY <1>0, <1>2 DEF ShipRecord
<1> HIDE DEF d
<1>4. e \in ShipRecord /\ e.status = "unposted" /\ e.asked = "unposted" /\ e.window = r.window /\ e.rev = r.rev + 1
  BY <1>3, Zenon DEF ShipRecord
<1> HIDE DEF e
<1> QED  BY <1>4, <1>5

\* unpostExpiredPostedShipments() writes the rows it chose that are still posted.
LEMMA SweepWrites == ASSUME BoardInv, part = "board", NEW c \in DOMAIN req, Board!Unpost(c)  PROVE BoardInv'
<1> DEFINE ids == {i \in req[c].ids \cap Board!Live : ship[i].status = "posted"}
<1>1. Serves(c, req[c]) /\ req[c].at = "sweep"  BY Zenon DEF BoardInv, Board!Unpost, Board!At
<1>2. /\ Board!Answer(c) /\ UNCHANGED <<clock, todo, mix>>
      /\ ship' = [i \in DOMAIN ship |-> IF i \in ids THEN Unposted(ship[i]) ELSE ship[i]]
      /\ wronged' = wronged \cup {i \in ids : ship[i].rev = req[c].revs[i] /\ ~Board!PassedAt(ship[i].window, clock)}
  BY Zenon DEF Board!Unpost, Board!Wrong, Unposted
<1>3. /\ ship \in Seq(ShipRecord \cup {NULL}) /\ DOMAIN ship = 1 .. Len(ship) /\ Len(ship) \in Nat
      /\ clock \in Nat /\ wronged = {}
      /\ \A i \in Board!Live : i \in DOMAIN ship /\ ship[i] # NULL /\ ship[i] \in ShipRecord /\ ship[i].rev \in Nat
  BY ShipTypes
<1>4. ids \subseteq Board!Live /\ ids \subseteq req[c].ids  OBVIOUS
<1>5. ASSUME NEW i \in ids, ship[i].rev = req[c].revs[i]  PROVE Board!PassedAt(ship[i].window, clock)
  <2>1. Board!Deadline(ship[i].window) < req[c].since /\ req[c].since \in Nat /\ req[c].since <= clock
    BY <1>1, <1>4, <1>5 DEF Serves
  <2>2. ship[i] \in ShipRecord /\ RowKept(i)  BY <1>3, <1>4 DEF BoardInv
  <2>3. ship[i].window \in Windows /\ Orderly(ship[i].window)  BY <1>4, <2>2 DEF ShipRecord, RowKept
  <2>4. Board!Deadline(ship[i].window) \in Nat  BY <2>3, DeadlineTypes
  <2>5. Board!Deadline(ship[i].window) < clock  BY <1>3, <2>1, <2>4
  <2> QED  BY <1>3, <2>3, <2>5, DeadlineIsLast
<1> HIDE DEF ids
<1>6. wronged' = {}  BY <1>2, <1>3, <1>5
<1>7. DOMAIN ship' = DOMAIN ship
      /\ \A i \in DOMAIN ship : ship'[i] = IF i \in ids THEN Unposted(ship[i]) ELSE ship[i]
  BY <1>2
<1>8. \A i \in ids : /\ Unposted(ship[i]) \in ShipRecord /\ Unposted(ship[i]).rev = ship[i].rev + 1
                     /\ Unposted(ship[i]).window = ship[i].window
                     /\ Unposted(ship[i]).status = Unposted(ship[i]).asked
  BY <1>3, <1>4, UnpostedRow
<1>9. ship' \in Seq(ShipRecord \cup {NULL})
  <2>1. \A i \in 1 .. Len(ship) : ship'[i] \in ShipRecord \cup {NULL}  BY <1>3, <1>7, <1>8
  <2>2. ship' \in [1 .. Len(ship) -> ShipRecord \cup {NULL}]  BY <1>2, <1>3, <1>7, <2>1
  <2> QED  BY <1>3, <2>2, SeqDef
<1>10. RowsStep  BY <1>3, <1>4, <1>7, <1>8 DEF RowsStep
<1>11. ASSUME NEW i \in DOMAIN ship'  PROVE RowKept(i)'
  <2>0. RowKept(i)  BY <1>7 DEF BoardInv
  <2>1. CASE i \in ids
    <3>1. Orderly(ship[i].window)  BY <1>4, <2>0, <2>1 DEF RowKept
    <3>2. ship'[i] = Unposted(ship[i])  BY <1>7, <2>1
    <3> QED  BY <1>8, <2>1, <3>1, <3>2 DEF RowKept
  <2>2. CASE i \notin ids
    BY <1>7, <2>0, <2>2 DEF RowKept, Board!Live
  <2> QED  BY <2>1, <2>2
<1>12. \A d \in DOMAIN req' : (d \in DOMAIN req /\ req'[d] = req[d]) \/ Serves(d, req[d])'  BY <1>2, BoardAnswer
<1>13. clock' \in Nat /\ clock <= clock' /\ todo' \subseteq todo /\ mix' = mix  BY <1>2, <1>3
<1> QED  BY <1>6, <1>9, <1>10, <1>11, <1>12, <1>13, BoardWrites

\* A request fails.
LEMMA FailsEnd == ASSUME BoardInv, part = "board", NEW c \in DOMAIN req, Board!Fails(c)  PROVE BoardInv'
<1>1. Board!Answer(c) /\ UNCHANGED <<clock, ship, wronged, todo, mix>>  BY DEF Board!Fails
<1>2. \A d \in DOMAIN req' : d \in DOMAIN req /\ req'[d] = req[d]  BY <1>1, BoardAnswer
<1> QED  BY <1>1, <1>2, BoardReads

\* Time goes on.
LEMMA TickGoes == ASSUME BoardInv, part = "board", Board!Tick  PROVE BoardInv'
<1>1. clock \in Nat /\ clock' = clock + 1 /\ UNCHANGED <<ship, req, wronged, todo, mix>>  BY DEF Board!Tick, BoardInv
<1>2. RowsStep /\ (\A i \in DOMAIN ship' : RowKept(i)') /\ wronged' = {} /\ ship' \in Seq(ShipRecord \cup {NULL})
  BY <1>1 DEF RowsStep, BoardInv, RowKept, Board!Live
<1>3. clock' \in Nat /\ clock <= clock'  BY <1>1
<1> QED  BY <1>1, <1>2, <1>3, BoardWrites

-----------------------------------------------------------------------------
(* The load board: the theorem.                                            *)

\* Nothing has been asked for yet, and the rows are as creation left them.
LEMMA BoardInit == Init => BoardInv
<1> SUFFICES ASSUME Init, part = "board"  PROVE BoardInv
  BY DEF BoardInv
<1>1. mix \in BoardMixes /\ clock = 0 /\ ship = mix.ship /\ req = <<>> /\ wronged = {} /\ todo = mix.calls
  BY DEF Init, Board!Init
<1>2. /\ ship \in Seq(ShipRecord)
      /\ \A i \in DOMAIN ship : ship[i].asked = ship[i].status /\ Orderly(ship[i].window)
  BY <1>1, BoardAssumption
<1>4. ship \in Seq(ShipRecord \cup {NULL})  BY <1>2
<1>5. \A i \in DOMAIN ship : RowKept(i)  BY <1>2 DEF RowKept
<1>6. DOMAIN req = {}  BY <1>1
<1> QED  BY <1>1, <1>4, <1>5, <1>6 DEF BoardInv

\* Every step keeps the invariant of the load board.
LEMMA BoardNext == BoardInv /\ [Next]_vars => BoardInv'
<1> SUFFICES ASSUME BoardInv, [Next]_vars  PROVE BoardInv'
  OBVIOUS
<1>1. CASE BoardStep
  <2>1. part = "board" /\ Board!Next  BY <1>1 DEF BoardStep, InBoard
  <2>2. CASE \E c \in todo : Board!Create(c) \/ Board!Edit(c) \/ Board!ChangeStatus(c) \/ Board!Remove(c) \/ Board!List(c)
    BY <2>1, <2>2, CreateReads, EditReads, StatusReads, RemoveReads, SweepReads
  <2>3. CASE \E c \in DOMAIN req : Board!Fails(c)
    BY <2>1, <2>3, FailsEnd
  <2>4. CASE Board!Work
    <3>1. CASE Board!CronSweep
      <4>1. PICK c : c = Board!Cron  OBVIOUS
      <4> QED  BY <2>1, <3>1, <4>1, SweepReads
    <3>2. CASE \E c \in DOMAIN req : Board!Insert(c) \/ Board!WriteEdit(c) \/ Board!WriteStatus(c) \/ Board!Delete(c) \/ Board!Unpost(c)
      BY <2>1, <3>2, InsertWrites, EditWrites, StatusWrites, DeleteWrites, SweepWrites
    <3> QED  BY <2>4, <3>1, <3>2 DEF Board!Work
  <2>5. CASE Board!Tick  BY <2>1, <2>5, TickGoes
  <2> QED  BY <2>1, <2>2, <2>3, <2>4, <2>5 DEF Board!Next
<1>2. CASE DirectoryStep \/ NoticeStep \/ TemplateStep \/ LocationStep
  <2>1. part' # "board"
    BY <1>2 DEF DirectoryStep, NoticeStep, TemplateStep, LocationStep, InDirectory, InNotices, InTemplates, InLocation
  <2> QED  BY <2>1 DEF BoardInv
<1>3. CASE UNCHANGED vars
  <2>1. UNCHANGED <<part, clock, ship, wronged, req, todo, mix>>  BY <1>3 DEF vars, boardVars
  <2>2. \A i : RowKept(i)' <=> RowKept(i)  BY <2>1 DEF RowKept, Board!Live
  <2>3. \A c, s : Serves(c, s)' <=> Serves(c, s)
    BY <2>1 DEF Serves, Read, Formed, Board!Live, Board!Deadline
  <2> QED  BY <2>1, <2>2, <2>3 DEF BoardInv
<1> QED  BY <1>1, <1>2, <1>3 DEF Next

\* The statuses of shipments are those asked for last, but for edits that wrote back what they had
\* read, and nobody posts or unposts a shipment out of turn (load-board-shipments.service.ts),
\* whatever the shipments, forms and clock.
THEOREM BoardRight == Spec => []BoardKept
<1>1. BoardInv => BoardKept
  <2> SUFFICES ASSUME BoardInv, part = "board"  PROVE Board!BoardKept
    BY DEF BoardKept
  <2>1. wronged = {} /\ \A i \in DOMAIN ship : RowKept(i)  BY DEF BoardInv
  <2> QED  BY <2>1 DEF RowKept, Board!BoardKept, Board!Live
<1> QED  BY <1>1, BoardInit, BoardNext, PTL DEF Spec

-----------------------------------------------------------------------------
(* The templates: the invariant.                                           *)

TemplateRow == TemplateRecord(mix)

\* The requests on templates: what they have read, and what their user has had since.
TemplateReq ==
  [at : {"upsert", "find", "update", "create", "row", "user", "delete"},
   role : TemplateRoles(mix), ext : TemplateIds(mix) \cup {NULL}, row : TemplateRow \cup {NULL},
   group : TemplateGroups \cup {NULL}, had : SUBSET TemplateIds(mix), groups : SUBSET (TemplateGroups \cup {NULL})]

\* A template has the group of its type, and an author has the id he wrote it under and, for
\* the company, a role that goes with its group, unless it was moved to another.
Owned(t) ==
  /\ t.ext # NULL /\ (t.group = NULL <=> t.type = "personal")
  /\ t.by # NULL => /\ ext[t.by] = t.ext
                    /\ t.type = "company" /\ ~t.moved => Granted(roles[t.by], t.group)

\* Template t was at some time since request s began for its user to change, in the role he had then.
Own(s, t) ==
  \/ s.role = "ADMINISTRATOR"
  \/ /\ t.ext \in s.had
     /\ t.type = "company" => s.role \in Templates!Creators /\ Templates!ManagerGroup(s.role) \in s.groups

\* What request s of call c has read is among what its user has had, or the template was, since.
Asks(c, s) ==
  /\ ext[c.user] \in s.had
  /\ c.id \in Templates!Live => template[c.id].group \in s.groups
  /\ s.at \in {"find", "update", "create"} => s.ext # NULL /\ s.ext \in s.had
  /\ s.at \in {"update", "user", "delete"} => c.id \in DOMAIN template
  /\ s.at = "user" => s.row # NULL /\ s.row.group \in s.groups
  /\ s.at = "user" /\ c.id \in Templates!Live => s.row.ext = template[c.id].ext /\ s.row.type = template[c.id].type
  /\ s.at \in {"update", "delete"} /\ c.id \in Templates!Live => Own(s, template[c.id])
  /\ s.at = "update" /\ c.id \in Templates!Live /\ s.group # NULL => template[c.id].type = "company"

TemplateInv ==
  part = "templates" =>
    /\ mix \in TemplateMixes /\ todo \subseteq mix.calls /\ trespass = {}
    /\ ext \in [DOMAIN mix.ext -> TemplateIds(mix)] /\ roles \in [DOMAIN mix.ext -> TemplateRoles(mix)]
    /\ template \in Seq(TemplateRow \cup {NULL})
    /\ \A i \in Templates!Live : Owned(template[i])
    /\ \A c \in DOMAIN req : c \in mix.calls /\ req[c] \in TemplateReq /\ Asks(c, req[c])

-----------------------------------------------------------------------------
(* The templates: steps.                                                   *)

\* What the calls ask for, and the rows and requests there are.
LEMMA TemplateTypes ==
  ASSUME TemplateInv, part = "templates"
  PROVE  /\ \A c \in mix.calls : /\ c.user \in DOMAIN mix.ext /\ c.user # NULL /\ c.ext \in TemplateIds(mix) /\ c.role \in TemplateRoles(mix)
                                 /\ c.type \in {NULL, "personal", "company"} /\ c.group \in TemplateGroups \cup {NULL}
         /\ ext \in [DOMAIN mix.ext -> TemplateIds(mix)] /\ roles \in [DOMAIN mix.ext -> TemplateRoles(mix)] /\ trespass = {}
         /\ template \in Seq(TemplateRow \cup {NULL}) /\ DOMAIN template = 1 .. Len(template) /\ Len(template) \in Nat
         /\ \A i \in Templates!Live : /\ i \in DOMAIN template /\ template[i] # NULL
                                      /\ template[i] \in TemplateRow /\ Owned(template[i])
         /\ \A c \in DOMAIN req : c \in mix.calls /\ req[c] \in TemplateReq /\ Asks(c, req[c])
BY TemplateAssumption DEF TemplateInv, Templates!Live, TemplateIds, TemplateRoles

\* Templates stay, go, or are written: to the same owner, and with the same type.
TemplateSteps ==
  /\ DOMAIN template \subseteq DOMAIN template'
  /\ \A i \in DOMAIN template :
       template'[i] = NULL \/ (template[i] # NULL /\ template'[i].ext = template[i].ext /\ template'[i].type = template[i].type)

\* What a request has read stays so, when those who set ids and groups tell it.
LEMMA OthersAsk ==
  ASSUME NEW c, NEW s, NEW t, Asks(c, s), TemplateSteps, mix' = mix,
         t.at = s.at /\ t.role = s.role /\ t.ext = s.ext /\ t.row = s.row /\ t.group = s.group,
         s.had \subseteq t.had, s.groups \subseteq t.groups,
         ext'[c.user] \in t.had,
         c.id \in Templates!Live' => template'[c.id].group \in t.groups
  PROVE  Asks(c, t)'
<1>1. c.id \in DOMAIN template /\ c.id \in Templates!Live' =>
        /\ c.id \in Templates!Live
        /\ template'[c.id].ext = template[c.id].ext /\ template'[c.id].type = template[c.id].type
  BY DEF TemplateSteps, Templates!Live
<1>3. t.at \in {"find", "update", "create"} => t.ext # NULL /\ t.ext \in t.had  BY DEF Asks
<1>4. t.at \in {"update", "user", "delete"} => c.id \in DOMAIN template /\ c.id \in DOMAIN template'  BY DEF Asks, TemplateSteps
<1>5. t.at = "user" => t.row # NULL /\ t.row.group \in t.groups  BY DEF Asks
<1>6. t.at = "user" /\ c.id \in Templates!Live' => t.row.ext = template'[c.id].ext /\ t.row.type = template'[c.id].type
  BY <1>1, <1>4 DEF Asks
<1>7. ASSUME t.at \in {"update", "delete"}, c.id \in Templates!Live'
      PROVE  Own(t, template[c.id])'
  <2>1. Own(s, template[c.id])  BY <1>1, <1>4, <1>7 DEF Asks
  <2> QED  BY <1>1, <1>4, <1>7, <2>1 DEF Own
<1>8. t.at = "update" /\ c.id \in Templates!Live' /\ t.group # NULL => template'[c.id].type = "company"
  BY <1>1, <1>4 DEF Asks
<1> QED  BY <1>3, <1>4, <1>5, <1>6, <1>7, <1>8 DEF Asks

\* A step keeps the invariant when the templates it writes are right, it tells the others of the
\* ids and groups it sets, and what it says of its own request is true.
LEMMA TemplateWrites ==
  ASSUME TemplateInv, part = "templates", TemplateSteps, mix' = mix, todo' \subseteq todo, trespass' = {},
         ext' \in [DOMAIN mix.ext -> TemplateIds(mix)], roles' \in [DOMAIN mix.ext -> TemplateRoles(mix)],
         template' \in Seq(TemplateRow \cup {NULL}),
         \A i \in Templates!Live' : Owned(template[i])',
         \A c \in DOMAIN req' :
           \/ /\ c \in DOMAIN req /\ req'[c] \in TemplateReq
              /\ req'[c].at = req[c].at /\ req'[c].role = req[c].role /\ req'[c].ext = req[c].ext /\ req'[c].row = req[c].row /\ req'[c].group = req[c].group
              /\ req[c].had \subseteq req'[c].had /\ req[c].groups \subseteq req'[c].groups
              /\ ext'[c.user] \in req'[c].had
              /\ c.id \in Templates!Live' => template'[c.id].group \in req'[c].groups
           \/ c \in mix.calls /\ req'[c] \in TemplateReq /\ Asks(c, req[c])'
  PROVE  TemplateInv'
<1>1. ASSUME NEW c \in DOMAIN req'  PROVE c \in mix'.calls /\ req'[c] \in TemplateReq' /\ Asks(c, req[c])'
  <2>0. TemplateReq' = TemplateReq  BY DEF TemplateReq, TemplateRow
  <2>1. CASE c \in mix.calls /\ req'[c] \in TemplateReq /\ Asks(c, req[c])'
    BY <2>0, <2>1
  <2>2. CASE /\ c \in DOMAIN req /\ req'[c] \in TemplateReq
             /\ req'[c].at = req[c].at /\ req'[c].role = req[c].role /\ req'[c].ext = req[c].ext /\ req'[c].row = req[c].row /\ req'[c].group = req[c].group
             /\ req[c].had \subseteq req'[c].had /\ req[c].groups \subseteq req'[c].groups
             /\ ext'[c.user] \in req'[c].had
             /\ c.id \in Templates!Live' => template'[c.id].group \in req'[c].groups
    <3>1. PICK s : s = req[c]  OBVIOUS
    <3>2. PICK t : t = req'[c]  OBVIOUS
    <3>3. Asks(c, s) /\ c \in mix.calls  BY <2>2, <3>1 DEF TemplateInv
    <3>4. Asks(c, t)'  BY <2>2, <3>1, <3>2, <3>3, OthersAsk
    <3> QED  BY <2>0, <2>2, <3>2, <3>3, <3>4
  <2> QED  BY <1>1, <2>1, <2>2
<1>2. mix' \in TemplateMixes /\ todo' \subseteq mix'.calls /\ TemplateRow' = TemplateRow
  BY DEF TemplateInv, TemplateRow
<1> QED  BY <1>1, <1>2 DEF TemplateInv

\* A step that only enters, ends or changes a request.
LEMMA TemplateReads ==
  ASSUME TemplateInv, part = "templates", UNCHANGED <<ext, roles, template, trespass, mix>>, todo' \subseteq todo,
         \A c \in DOMAIN req' :
           \/ c \in DOMAIN req /\ req'[c] = req[c]
           \/ c \in mix.calls /\ req'[c] \in TemplateReq /\ Asks(c, req'[c])
  PROVE  TemplateInv'
<1>1. TemplateRow' = TemplateRow /\ TemplateReq' = TemplateReq /\ TemplateIds(mix)' = TemplateIds(mix)
  BY DEF TemplateRow, TemplateReq
<1>2. \A i \in Templates!Live' : Owned(template[i])'  BY DEF TemplateInv, Owned, Templates!Live
<1>3. ASSUME NEW c, NEW s, Asks(c, s)  PROVE Asks(c, s)'
  BY <1>3 DEF Asks, Own, Templates!Live
<1>4. ASSUME NEW c \in DOMAIN req'  PROVE c \in mix'.calls /\ req'[c] \in TemplateReq' /\ Asks(c, req[c])'
  <2>1. PICK s : s = req'[c]  OBVIOUS
  <2>2. c \in mix.calls /\ s \in TemplateReq /\ Asks(c, s)  BY <1>4, <2>1 DEF TemplateInv
  <2> QED  BY <1>1, <1>3, <2>1, <2>2
<1>5. /\ mix' \in TemplateMixes /\ todo' \subseteq mix'.calls /\ trespass' = {}
      /\ roles' \in [DOMAIN mix'.ext -> TemplateRoles(mix')]
      /\ ext' \in [DOMAIN mix'.ext -> TemplateIds(mix')] /\ template' \in Seq(TemplateRow' \cup {NULL})
  BY <1>1 DEF TemplateInv
<1> QED  BY <1>2, <1>4, <1>5 DEF TemplateInv

\* Requests that end, and those that come in.
LEMMA TemplateAnswer ==
  ASSUME NEW c, Templates!Answer(c), NEW d \in DOMAIN req'
  PROVE  d \in DOMAIN req /\ d # c /\ req'[d] = req[d]
BY DEF Templates!Answer, Templates!Without, Templates!Restrict

LEMMA TemplateEnter ==
  ASSUME NEW c, NEW s, req' = Templates!With(req, c, s), NEW d \in DOMAIN req'
  PROVE  (d \in DOMAIN req /\ req'[d] = req[d]) \/ (d = c /\ req'[d] = s)
BY DEF Templates!With

\* A step that changes or ends one request.
LEMMA TemplateChanges ==
  ASSUME TemplateInv, part = "templates", NEW c \in DOMAIN req, NEW s,
         UNCHANGED <<ext, roles, template, trespass, todo, mix>>,
         Templates!Answer(c) \/ (req' = [req EXCEPT ![c] = s] /\ s \in TemplateReq /\ Asks(c, s))
  PROVE  TemplateInv'
<1>1. c \in mix.calls  BY TemplateTypes
<1>2. \A d \in DOMAIN req' : \/ d \in DOMAIN req /\ req'[d] = req[d]
                             \/ d \in mix.calls /\ req'[d] \in TemplateReq /\ Asks(d, req'[d])
  <2>1. CASE Templates!Answer(c)  BY <2>1, TemplateAnswer
  <2>2. CASE req' = [req EXCEPT ![c] = s] /\ s \in TemplateReq /\ Asks(c, s)
    <3>1. DOMAIN req' = DOMAIN req /\ req'[c] = s /\ \A d \in DOMAIN req : d # c => req'[d] = req[d]
      BY <2>2
    <3> QED  BY <1>1, <2>2, <3>1
  <2> QED  BY <2>1, <2>2
<1> QED  BY <1>2, TemplateReads

\* A request begins, and has read the role.
LEMMA Admits == ASSUME TemplateInv, part = "templates", NEW c, Templates!Admit(c)  PROVE TemplateInv'
<1> DEFINE at == IF c.kind = "upsert" THEN "upsert" ELSE "row"
<1>1. c \in mix.calls /\ todo' \subseteq todo /\ UNCHANGED <<ext, roles, template, trespass, mix>>
  BY DEF Templates!Admit, Templates!Take, TemplateInv
<1>2. PICK s : s = Templates!Serving(c, at)  OBVIOUS
<1>3. req' = Templates!With(req, c, s)  BY <1>2 DEF Templates!Admit
<1>4. at \in {"upsert", "row"}  OBVIOUS
<1> HIDE DEF at
<1>5. /\ s.at = at /\ s.had = {ext[c.user]} /\ s.groups = Templates!Group(c.id)
      /\ s = [at |-> at, role |-> roles[c.user], ext |-> NULL, row |-> NULL, group |-> NULL,
              had |-> {ext[c.user]}, groups |-> Templates!Group(c.id)]
  BY <1>2 DEF Templates!Serving
<1>6. ext[c.user] \in TemplateIds(mix) /\ roles[c.user] \in TemplateRoles(mix)  BY <1>1, TemplateTypes
<1>7. ASSUME c.id \in Templates!Live
      PROVE  /\ Templates!Group(c.id) = {template[c.id].group}
             /\ template[c.id].group \in TemplateGroups \cup {NULL}
  <2>1. template[c.id] \in TemplateRow  BY <1>7, TemplateTypes
  <2> QED  BY <1>7, <2>1 DEF Templates!Group, TemplateRow, TemplateRecord
<1>8. c.id \notin Templates!Live => Templates!Group(c.id) = {}  BY DEF Templates!Group
<1>9. Templates!Group(c.id) \subseteq TemplateGroups \cup {NULL}  BY <1>7, <1>8
<1>10. s \in TemplateReq  BY <1>4, <1>5, <1>6, <1>9 DEF TemplateReq
<1>11. Asks(c, s)  BY <1>4, <1>5, <1>7 DEF Asks
<1>12. \A d \in DOMAIN req' : \/ d \in DOMAIN req /\ req'[d] = req[d]
                              \/ d \in mix.calls /\ req'[d] \in TemplateReq /\ Asks(d, req'[d])
  BY <1>1, <1>3, <1>10, <1>11, TemplateEnter
<1> QED  BY <1>1, <1>12, TemplateReads

\* upsertForUser() reads the user.
LEMMA UpsertReads ==
  ASSUME TemplateInv, part = "templates", NEW c \in DOMAIN req, Templates!Upsert(c)
  PROVE  TemplateInv'
<1> DEFINE at == IF c.id = NULL THEN "create" ELSE "find"
           s == [[req[c] EXCEPT !.at = at] EXCEPT !.ext = ext[c.user]]
<1>1. /\ UNCHANGED <<ext, roles, template, trespass, todo, mix>>
      /\ c \in mix.calls /\ req[c] \in TemplateReq /\ Asks(c, req[c]) /\ ext[c.user] \in TemplateIds(mix)
  BY TemplateTypes DEF Templates!Upsert
<1>2. Templates!Answer(c) \/ (ext[c.user] # NULL /\ req' = [req EXCEPT ![c] = s])
  BY DEF Templates!Upsert
<1>3. at \in {"create", "find"}  OBVIOUS
<1> HIDE DEF at
<1>4. ASSUME ext[c.user] # NULL  PROVE s \in TemplateReq /\ Asks(c, s)
  <2> DEFINE a == [req[c] EXCEPT !.at = at]
  <2>1. a \in TemplateReq /\ a.at = at /\ a.had = req[c].had /\ a.groups = req[c].groups
    BY <1>1, <1>3 DEF TemplateReq
  <2>2. s = [a EXCEPT !.ext = ext[c.user]]  OBVIOUS
  <2> HIDE DEF a, s
  <2>3. s \in TemplateReq /\ s.at = at /\ s.ext = ext[c.user] /\ s.had = req[c].had /\ s.groups = req[c].groups
    BY <1>1, <2>1, <2>2 DEF TemplateReq
  <2>4. Asks(c, s)  BY <1>1, <1>3, <1>4, <2>3 DEF Asks
  <2> QED  BY <2>3, <2>4
<1> HIDE DEF s
<1>5. PICK t : t = s  OBVIOUS
<1> QED  BY <1>1, <1>2, <1>4, <1>5, TemplateChanges

\* deleteForUser() reads the row.
LEMMA DeleteReads ==
  ASSUME TemplateInv, part = "templates", NEW c \in DOMAIN req, Templates!Delete(c)
  PROVE  TemplateInv'
<1> DEFINE s == [[req[c] EXCEPT !.at = "user"] EXCEPT !.row = template[c.id]]
<1>1. /\ UNCHANGED <<ext, roles, template, trespass, todo, mix>>
      /\ c \in mix.calls /\ req[c] \in TemplateReq /\ Asks(c, req[c])
  BY TemplateTypes DEF Templates!Delete
<1>2. Templates!Answer(c) \/ (c.id \in Templates!Live /\ req' = [req EXCEPT ![c] = s])
  BY DEF Templates!Delete
<1>3. ASSUME c.id \in Templates!Live  PROVE s \in TemplateReq /\ Asks(c, s)
  <2> DEFINE a == [req[c] EXCEPT !.at = "user"]
  <2>1. c.id \in DOMAIN template /\ template[c.id] # NULL /\ template[c.id] \in TemplateRow  BY <1>3, TemplateTypes
  <2>2. a \in TemplateReq /\ a.at = "user" /\ a.had = req[c].had /\ a.groups = req[c].groups
    BY <1>1 DEF TemplateReq
  <2>3. s = [a EXCEPT !.row = template[c.id]]  OBVIOUS
  <2> HIDE DEF a, s
  <2>4. /\ s \in TemplateReq /\ s.at = "user" /\ s.row = template[c.id]
        /\ s.had = req[c].had /\ s.groups = req[c].groups
    BY <2>1, <2>2, <2>3 DEF TemplateReq
  <2>5. Asks(c, s)  BY <1>1, <1>3, <2>1, <2>4 DEF Asks
  <2> QED  BY <2>4, <2>5
<1> HIDE DEF s
<1>4. PICK t : t = s  OBVIOUS
<1> QED  BY <1>1, <1>2, <1>3, <1>4, TemplateChanges

\* Who may save or delete a template whose group the request has seen, by an id it has seen its
\* user have, does not touch what is not his.
LEMMA MayOwn ==
  ASSUME NEW s, NEW t, NEW x, x \in s.had, t.group \in s.groups,
         Templates!MayUpdate(s.role, x, t) \/ Templates!MayDelete(s.role, x, t),
         t.type \in {"personal", "company"}
  PROVE  Own(s, t)
BY DEF Templates!MayUpdate, Templates!MayDelete, Own

\* upsertForUser() reads the row.
LEMMA UpsertFinds ==
  ASSUME TemplateInv, part = "templates", NEW c \in DOMAIN req, Templates!UpsertFind(c)
  PROVE  TemplateInv'
<1> DEFINE group == IF template[c.id].type = "company" /\ req[c].role = "ADMINISTRATOR" THEN c.group ELSE NULL
           may == c.id \in Templates!Live /\ Templates!MayUpdate(req[c].role, req[c].ext, template[c.id])
           s == [[req[c] EXCEPT !.at = "update"] EXCEPT !.group = group]
<1>1. /\ req[c].at = "find" /\ UNCHANGED <<ext, roles, template, trespass, todo, mix>>
      /\ c \in mix.calls /\ req[c] \in TemplateReq /\ Asks(c, req[c])
  BY TemplateTypes DEF Templates!UpsertFind, Templates!At
<1>2. \/ may /\ req' = [req EXCEPT ![c] = s]
      \/ Templates!Answer(c)
  BY DEF Templates!UpsertFind
<1>3. ASSUME may  PROVE s \in TemplateReq /\ Asks(c, s)
  <2>1. /\ c.id \in DOMAIN template /\ template[c.id] # NULL /\ template[c.id] \in TemplateRow
        /\ c.group \in TemplateGroups \cup {NULL}
    BY <1>1, <1>3, TemplateTypes
  <2>2. group \in TemplateGroups \cup {NULL} /\ (group # NULL => template[c.id].type = "company")
    BY <2>1
  <2> HIDE DEF group
  <2> DEFINE a == [req[c] EXCEPT !.at = "update"]
  <2>3. /\ a \in TemplateReq /\ a.at = "update" /\ a.role = req[c].role /\ a.ext = req[c].ext
        /\ a.had = req[c].had /\ a.groups = req[c].groups
    BY <1>1 DEF TemplateReq
  <2>4. s = [a EXCEPT !.group = group]  OBVIOUS
  <2> HIDE DEF a, s
  <2>5. /\ s \in TemplateReq /\ s.at = "update" /\ s.role = req[c].role /\ s.ext = req[c].ext /\ s.group = group
        /\ s.had = req[c].had /\ s.groups = req[c].groups
    BY <2>2, <2>3, <2>4 DEF TemplateReq
  <2>6. Own(s, template[c.id])
    <3>1. req[c].ext \in s.had /\ template[c.id].group \in s.groups  BY <1>1, <1>3, <2>5 DEF Asks
    <3>2. template[c.id].type \in {"personal", "company"}  BY <2>1 DEF TemplateRow, TemplateRecord
    <3> QED  BY <1>3, <2>5, <3>1, <3>2, MayOwn
  <2>7. Asks(c, s)  BY <1>1, <2>1, <2>2, <2>5, <2>6 DEF Asks
  <2> QED  BY <2>5, <2>7
<1> HIDE DEF s, may
<1>4. PICK t : t = s  OBVIOUS
<1> QED  BY <1>1, <1>2, <1>3, <1>4, TemplateChanges

\* deleteForUser() reads the user.
LEMMA DeleteUserReads ==
  ASSUME TemplateInv, part = "templates", NEW c \in DOMAIN req, Templates!DeleteUser(c)
  PROVE  TemplateInv'
<1> DEFINE may == Templates!MayDelete(req[c].role, ext[c.user], req[c].row)
           s == [req[c] EXCEPT !.at = "delete"]
<1>1. /\ req[c].at = "user" /\ UNCHANGED <<ext, roles, template, trespass, todo, mix>>
      /\ c \in mix.calls /\ req[c] \in TemplateReq /\ Asks(c, req[c])
  BY TemplateTypes DEF Templates!DeleteUser, Templates!At
<1>2. \/ may /\ req' = [req EXCEPT ![c] = s]
      \/ Templates!Answer(c)
  BY DEF Templates!DeleteUser
<1>3. ASSUME may  PROVE s \in TemplateReq /\ Asks(c, s)
  <2>1. /\ s \in TemplateReq /\ s.at = "delete" /\ s.role = req[c].role
        /\ s.had = req[c].had /\ s.groups = req[c].groups
    BY <1>1 DEF TemplateReq
  <2>2. req[c].row # NULL /\ req[c].row \in TemplateRow /\ req[c].row.type \in {"personal", "company"}
    BY <1>1 DEF Asks, TemplateReq, TemplateRow, TemplateRecord
  <2>3. Own(s, req[c].row)
    <3>1. ext[c.user] \in s.had /\ req[c].row.group \in s.groups  BY <1>1, <2>1 DEF Asks
    <3>2. Templates!MayDelete(s.role, ext[c.user], req[c].row)  BY <1>3, <2>1
    <3> QED  BY <2>2, <3>1, <3>2, MayOwn, Zenon
  <2>4. c.id \in Templates!Live => Own(s, template[c.id])
    BY <1>1, <2>3 DEF Asks, Own
  <2> HIDE DEF s
  <2>5. Asks(c, s)  BY <1>1, <2>1, <2>4 DEF Asks
  <2> QED  BY <2>1, <2>5
<1> HIDE DEF s, may
<1>4. PICK t : t = s  OBVIOUS
<1> QED  BY <1>1, <1>2, <1>3, <1>4, TemplateChanges

\* What a request writes or deletes is its user's own, so nobody trespasses.
LEMMA OwnWrites ==
  ASSUME TemplateInv, part = "templates", NEW c \in DOMAIN req, req[c].at \in {"update", "delete"}, Templates!Trespass(c)
  PROVE  trespass' = {}
<1>1. Asks(c, req[c]) /\ trespass = {}  BY TemplateTypes
<1>2. c.id \in Templates!Live => Own(req[c], template[c.id])  BY <1>1 DEF Asks
<1>3. c.id \in Templates!Live => ~Templates!Foreign(c)  BY <1>2 DEF Own, Templates!Foreign
<1> QED  BY <1>1, <1>3 DEF Templates!Trespass

\* A template in another group, and one whose author has another id.
Moved(t, group) == [[t EXCEPT !.group = group] EXCEPT !.moved = t.moved \/ group # t.group]
Orphan(t) == [t EXCEPT !.by = NULL]

\* Both are their owner's still.
LEMMA MovedRow ==
  ASSUME NEW t \in TemplateRow, Owned(t), NEW group \in TemplateGroups, t.type = "company"
  PROVE  /\ Moved(t, group) \in TemplateRow /\ Owned(Moved(t, group))
         /\ Moved(t, group).ext = t.ext /\ Moved(t, group).type = t.type /\ Moved(t, group).group = group
<1> DEFINE a == [t EXCEPT !.group = group]
           moved == t.moved \/ group # t.group
           b == [a EXCEPT !.moved = moved]
<1>0. moved \in BOOLEAN /\ group # NULL /\ t.type # "personal"  BY TemplateAssumption
<1>1. /\ a \in TemplateRow /\ a.ext = t.ext /\ a.type = t.type /\ a.group = group /\ a.by = t.by
      /\ DOMAIN a = {"ext", "type", "group", "by", "moved"}
  BY DEF TemplateRow, TemplateRecord
<1> HIDE DEF a, moved
<1>2. b \in TemplateRow /\ b.ext = t.ext /\ b.type = t.type /\ b.group = group /\ b.by = t.by /\ b.moved = moved
  BY <1>0, <1>1 DEF TemplateRow, TemplateRecord
<1>3. Moved(t, group) = b  BY DEF Moved, a, moved
<1> HIDE DEF b
<1>4. ~moved => ~t.moved /\ group = t.group  BY DEF moved
<1>5. Owned(b)  BY <1>0, <1>2, <1>4 DEF Owned
<1> QED  BY <1>2, <1>3, <1>5

LEMMA OrphanRow ==
  ASSUME NEW t \in TemplateRow, Owned(t)
  PROVE  /\ Orphan(t) \in TemplateRow /\ Orphan(t).by = NULL /\ Orphan(t).ext = t.ext /\ Orphan(t).type = t.type
         /\ Orphan(t).group = t.group /\ (Orphan(t).group = NULL <=> t.type = "personal") /\ t.ext # NULL
BY DEF Orphan, Owned, TemplateRow, TemplateRecord

\* deleteForUser() deletes the row.
LEMMA DeletesRow ==
  ASSUME TemplateInv, part = "templates", NEW c \in DOMAIN req, Templates!DeleteRow(c)
  PROVE  TemplateInv'
<1>1. /\ req[c].at = "delete" /\ Templates!Trespass(c) /\ Templates!Answer(c) /\ UNCHANGED <<ext, roles, todo, mix>>
      /\ template' = IF c.id \in Templates!Live THEN [template EXCEPT ![c.id] = NULL] ELSE template
  BY DEF Templates!DeleteRow, Templates!At
<1>2. trespass' = {}  BY <1>1, OwnWrites
<1>3. /\ ext \in [DOMAIN mix.ext -> TemplateIds(mix)] /\ roles \in [DOMAIN mix.ext -> TemplateRoles(mix)]
      /\ template \in Seq(TemplateRow \cup {NULL})
      /\ \A i \in Templates!Live : Owned(template[i])
      /\ \A d \in DOMAIN req : d \in mix.calls /\ req[d] \in TemplateReq /\ Asks(d, req[d])
  BY TemplateTypes
<1>4. /\ DOMAIN template' = DOMAIN template /\ template' \in Seq(TemplateRow \cup {NULL})
      /\ \A i \in DOMAIN template : template'[i] = template[i] \/ template'[i] = NULL
  BY <1>1, <1>3
<1>5. TemplateSteps  BY <1>4 DEF TemplateSteps
<1>6. \A i \in Templates!Live' : i \in Templates!Live /\ template'[i] = template[i]
  BY <1>4 DEF Templates!Live
<1>7. \A i \in Templates!Live' : Owned(template[i])'  BY <1>1, <1>3, <1>6 DEF Owned
<1>8. ASSUME NEW d \in DOMAIN req'
      PROVE  /\ d \in DOMAIN req /\ req'[d] = req[d] /\ req[d] \in TemplateReq /\ ext[d.user] \in req[d].had
             /\ d.id \in Templates!Live' => template'[d.id].group \in req[d].groups
  <2>1. d \in DOMAIN req /\ req'[d] = req[d]  BY <1>1, <1>8, TemplateAnswer
  <2> QED  BY <1>3, <1>6, <2>1 DEF Asks
<1> QED  BY <1>1, <1>2, <1>3, <1>4, <1>5, <1>7, <1>8, TemplateWrites

\* upsertForUser() writes the row, and an administrator may move it.
LEMMA UpsertWrites ==
  ASSUME TemplateInv, part = "templates", NEW c \in DOMAIN req, Templates!UpsertWrite(c)
  PROVE  TemplateInv'
<1> DEFINE group == IF c.id \notin Templates!Live \/ req[c].group = NULL THEN NULL ELSE req[c].group
<1>1. /\ req[c].at = "update" /\ Templates!Trespass(c) /\ UNCHANGED <<ext, roles, todo, mix>>
      /\ IF group = NULL THEN Templates!Answer(c) /\ UNCHANGED template
         ELSE /\ template' = [template EXCEPT ![c.id] = Moved(template[c.id], group)]
              /\ req' = [r \in DOMAIN req \ {c} |-> IF r.id = c.id THEN [req[r] EXCEPT !.groups = @ \cup {group}] ELSE req[r]]
  BY DEF Templates!UpsertWrite, Templates!At, Moved
<1>2. trespass' = {}  BY <1>1, OwnWrites
<1>3. /\ ext \in [DOMAIN mix.ext -> TemplateIds(mix)] /\ roles \in [DOMAIN mix.ext -> TemplateRoles(mix)]
      /\ template \in Seq(TemplateRow \cup {NULL}) /\ trespass = {}
      /\ \A i \in Templates!Live : i \in DOMAIN template /\ template[i] \in TemplateRow /\ Owned(template[i])
      /\ \A d \in DOMAIN req : d \in mix.calls /\ req[d] \in TemplateReq /\ Asks(d, req[d])
  BY TemplateTypes
<1>4. group # NULL => /\ c.id \in Templates!Live /\ group = req[c].group /\ group \in TemplateGroups
                      /\ template[c.id].type = "company"
  BY <1>1, <1>3 DEF Asks, TemplateReq
<1> HIDE DEF group
<1>5. CASE group = NULL
  <2>1. \A d \in DOMAIN req' : d \in DOMAIN req /\ req'[d] = req[d]  BY <1>1, <1>5, TemplateAnswer
  <2> QED  BY <1>1, <1>2, <1>3, <1>5, <2>1, TemplateReads
<1>6. CASE group # NULL
  <2>1. PICK t : t = Moved(template[c.id], group)  OBVIOUS
  <2>2. /\ t \in TemplateRow /\ Owned(t) /\ t.group = group
        /\ t.ext = template[c.id].ext /\ t.type = template[c.id].type
    BY <1>3, <1>4, <1>6, <2>1, MovedRow
  <2>3. c.id \in DOMAIN template /\ template[c.id] # NULL  BY <1>4, <1>6, TemplateTypes
  <2>4. /\ DOMAIN template' = DOMAIN template /\ template' \in Seq(TemplateRow \cup {NULL}) /\ template'[c.id] = t
        /\ \A i \in DOMAIN template : i # c.id => template'[i] = template[i]
    BY <1>1, <1>3, <1>6, <2>1, <2>2, <2>3
  <2>5. TemplateSteps  BY <2>2, <2>3, <2>4 DEF TemplateSteps
  <2>6. \A i \in Templates!Live' : i \in Templates!Live /\ template'[i] = IF i = c.id THEN t ELSE template[i]
    BY <1>4, <1>6, <2>4 DEF Templates!Live
  <2>7. Owned(t)'  BY <1>1, <2>2 DEF Owned
  <2>8. ASSUME NEW i \in Templates!Live'  PROVE Owned(template[i])'
    <3>1. PICK u : u = template'[i]  OBVIOUS
    <3>2. Owned(u)  BY <1>3, <2>2, <2>6, <2>8, <3>1
    <3>3. Owned(u)'  BY <1>1, <3>2 DEF Owned
    <3> QED  BY <3>1, <3>3
  <2>9. ASSUME NEW d \in DOMAIN req'
        PROVE  /\ d \in DOMAIN req /\ req'[d] \in TemplateReq
               /\ req'[d].at = req[d].at /\ req'[d].role = req[d].role /\ req'[d].ext = req[d].ext /\ req'[d].row = req[d].row /\ req'[d].group = req[d].group
               /\ req[d].had \subseteq req'[d].had /\ req[d].groups \subseteq req'[d].groups
               /\ ext'[d.user] \in req'[d].had
               /\ d.id \in Templates!Live' => template'[d.id].group \in req'[d].groups
    <3>1. PICK s : s = req[d]  OBVIOUS
    <3>2. d \in DOMAIN req /\ req'[d] = IF d.id = c.id THEN [s EXCEPT !.groups = @ \cup {group}] ELSE s
      BY <1>1, <1>6, <2>9, <3>1
    <3>3. s \in TemplateReq /\ ext[d.user] \in s.had /\ (d.id \in Templates!Live => template[d.id].group \in s.groups)
      BY <1>3, <3>1, <3>2 DEF Asks
    <3>4. CASE d.id = c.id
      <4> DEFINE u == [s EXCEPT !.groups = s.groups \cup {group}]
      <4>1. s.groups \cup {group} \in SUBSET (TemplateGroups \cup {NULL})  BY <1>4, <1>6, <3>3 DEF TemplateReq
      <4>2. /\ u \in TemplateReq /\ u.at = s.at /\ u.role = s.role /\ u.ext = s.ext /\ u.row = s.row /\ u.group = s.group
            /\ u.had = s.had /\ u.groups = s.groups \cup {group}
        BY <3>3, <4>1 DEF TemplateReq
      <4>3. req'[d] = u  BY <3>2, <3>4
      <4> HIDE DEF u
      <4>4. template'[d.id].group = group  BY <2>2, <2>4, <3>4
      <4> QED  BY <1>1, <3>1, <3>2, <3>3, <4>2, <4>3, <4>4, Zenon
    <3>5. CASE d.id # c.id
      <4>1. req'[d] = s  BY <3>2, <3>5
      <4>2. d.id \in Templates!Live' => template'[d.id].group \in s.groups  BY <2>6, <3>3, <3>5
      <4> QED  BY <1>1, <3>1, <3>2, <3>3, <4>1, <4>2, Zenon
    <3> QED  BY <3>4, <3>5
  <2>10. /\ todo' \subseteq todo /\ mix' = mix
         /\ ext' \in [DOMAIN mix.ext -> TemplateIds(mix)] /\ roles' \in [DOMAIN mix.ext -> TemplateRoles(mix)]
    BY <1>1, <1>3
  <2> QED  BY <1>2, <2>4, <2>5, <2>8, <2>9, <2>10, TemplateWrites
<1> QED  BY <1>5, <1>6

\* A webhook gives a user another id or role, and those who wait know of the id.
LEMMA IdentifyWrites ==
  ASSUME TemplateInv, part = "templates", NEW c, Templates!Identify(c)
  PROVE  TemplateInv'
<1>1. /\ c \in mix.calls /\ todo' \subseteq todo /\ UNCHANGED <<trespass, mix>>
      /\ ext' = [ext EXCEPT ![c.user] = c.ext] /\ roles' = [roles EXCEPT ![c.user] = c.role]
      /\ req' = [r \in DOMAIN req |-> IF r.user = c.user THEN [req[r] EXCEPT !.had = @ \cup {c.ext}] ELSE req[r]]
      /\ template' = [i \in DOMAIN template |->
                        IF i \in Templates!Live /\ Templates!Disowned(c, template[i]) THEN Orphan(template[i]) ELSE template[i]]
  BY DEF Templates!Identify, Templates!Take, TemplateInv, Orphan
<1>2. /\ c.user \in DOMAIN mix.ext /\ c.user # NULL /\ c.ext \in TemplateIds(mix)
      /\ c.role \in TemplateRoles(mix) /\ roles \in [DOMAIN mix.ext -> TemplateRoles(mix)]
      /\ ext \in [DOMAIN mix.ext -> TemplateIds(mix)] /\ template \in Seq(TemplateRow \cup {NULL}) /\ trespass = {}
      /\ DOMAIN template = 1 .. Len(template) /\ Len(template) \in Nat
      /\ \A i \in Templates!Live : i \in DOMAIN template /\ template[i] \in TemplateRow /\ Owned(template[i])
      /\ \A d \in DOMAIN req : d \in mix.calls /\ req[d] \in TemplateReq /\ Asks(d, req[d])
  BY <1>1, TemplateTypes
<1>3. /\ ext' \in [DOMAIN mix.ext -> TemplateIds(mix)] /\ ext'[c.user] = c.ext
      /\ roles' \in [DOMAIN mix.ext -> TemplateRoles(mix)] /\ roles'[c.user] = c.role
      /\ \A u : u \in DOMAIN mix.ext /\ u # c.user => ext'[u] = ext[u] /\ roles'[u] = roles[u]
  BY <1>1, <1>2
<1>4. \A i \in Templates!Live : /\ Orphan(template[i]) \in TemplateRow /\ Orphan(template[i]).by = NULL
                                /\ Orphan(template[i]).ext = template[i].ext /\ Orphan(template[i]).type = template[i].type
                                /\ Orphan(template[i]).group = template[i].group
                                /\ (Orphan(template[i]).group = NULL <=> template[i].type = "personal")
                                /\ template[i].ext # NULL
  BY <1>2, OrphanRow
<1>5. DOMAIN template' = DOMAIN template
      /\ \A i \in DOMAIN template : template'[i] = IF i \in Templates!Live /\ Templates!Disowned(c, template[i])
                                                   THEN Orphan(template[i]) ELSE template[i]
  BY <1>1
<1>6. template' \in Seq(TemplateRow \cup {NULL})
  <2>1. \A i \in 1 .. Len(template) : template'[i] \in TemplateRow \cup {NULL}  BY <1>2, <1>4, <1>5
  <2>2. template' \in [1 .. Len(template) -> TemplateRow \cup {NULL}]  BY <1>1, <1>2, <1>5, <2>1
  <2> QED  BY <1>2, <2>2, SeqDef
<1>7. TemplateSteps  BY <1>4, <1>5 DEF TemplateSteps, Templates!Live
<1>8. \A i \in Templates!Live' : /\ i \in Templates!Live
                                 /\ template'[i] = IF Templates!Disowned(c, template[i]) THEN Orphan(template[i]) ELSE template[i]
  BY <1>5 DEF Templates!Live
<1>9. ASSUME NEW i \in Templates!Live'  PROVE Owned(template[i])'
  <2>1. PICK t : t = template[i]  OBVIOUS
  <2>2. i \in Templates!Live /\ t \in TemplateRow /\ Owned(t)  BY <1>2, <1>8, <1>9, <2>1
  <2>3. CASE Templates!Disowned(c, t)
    <3>1. PICK u : u = Orphan(t)  OBVIOUS
    <3>2. u.by = NULL /\ u.ext # NULL /\ (u.group = NULL <=> u.type = "personal")  BY <1>4, <2>1, <2>2, <3>1
    <3>3. template'[i] = u  BY <1>8, <1>9, <2>1, <2>3, <3>1
    <3>4. Owned(u)'  BY <3>2 DEF Owned
    <3> QED  BY <3>3, <3>4
  <2>4. CASE ~Templates!Disowned(c, t)
    <3>1. template'[i] = t  BY <1>8, <1>9, <2>1, <2>4
    <3>2. t.by # NULL => ext'[t.by] = ext[t.by] /\ (t.type = "company" => roles'[t.by] = roles[t.by])
      BY <1>3, <2>2, <2>4 DEF Templates!Disowned, TemplateRow, TemplateRecord
    <3>3. Owned(t)'  BY <1>1, <2>2, <3>2 DEF Owned
    <3> QED  BY <3>1, <3>3
  <2> QED  BY <2>3, <2>4
<1>10. ASSUME NEW d \in DOMAIN req'
       PROVE  /\ d \in DOMAIN req /\ req'[d] \in TemplateReq
              /\ req'[d].at = req[d].at /\ req'[d].role = req[d].role /\ req'[d].ext = req[d].ext /\ req'[d].row = req[d].row /\ req'[d].group = req[d].group
              /\ req[d].had \subseteq req'[d].had /\ req[d].groups \subseteq req'[d].groups
              /\ ext'[d.user] \in req'[d].had
              /\ d.id \in Templates!Live' => template'[d.id].group \in req'[d].groups
  <2>1. PICK s : s = req[d]  OBVIOUS
  <2>2. d \in DOMAIN req /\ req'[d] = IF d.user = c.user THEN [s EXCEPT !.had = @ \cup {c.ext}] ELSE s
    BY <1>1, <1>10, <2>1
  <2>3. s \in TemplateReq /\ ext[d.user] \in s.had /\ (d.id \in Templates!Live => template[d.id].group \in s.groups)
    BY <1>2, <2>1, <2>2 DEF Asks
  <2>4. d.id \in Templates!Live' => template'[d.id].group \in s.groups  BY <1>4, <1>8, <2>3
  <2>5. CASE d.user = c.user
    <3> DEFINE u == [s EXCEPT !.had = s.had \cup {c.ext}]
    <3>1. s.had \cup {c.ext} \in SUBSET TemplateIds(mix)  BY <1>2, <2>3 DEF TemplateReq
    <3>2. /\ u \in TemplateReq /\ u.at = s.at /\ u.role = s.role /\ u.ext = s.ext /\ u.row = s.row /\ u.group = s.group
          /\ u.had = s.had \cup {c.ext} /\ u.groups = s.groups
      BY <2>3, <3>1 DEF TemplateReq
    <3>3. req'[d] = u  BY <2>2, <2>5
    <3> HIDE DEF u
    <3> QED  BY <1>3, <2>1, <2>2, <2>4, <2>5, <3>2, <3>3
  <2>6. CASE d.user # c.user
    <3>1. d.user \in DOMAIN mix.ext  BY <1>2, <2>2, TemplateTypes
    <3>2. ext'[d.user] = ext[d.user] /\ req'[d] = s  BY <1>3, <2>2, <2>6, <3>1
    <3> QED  BY <2>1, <2>2, <2>3, <2>4, <3>2
  <2> QED  BY <2>5, <2>6
<1> QED  BY <1>1, <1>2, <1>3, <1>6, <1>7, <1>9, <1>10, TemplateWrites, Zenon

\* upsertForUser() writes a new row, for an author who may have one.
LEMMA UpsertCreates ==
  ASSUME TemplateInv, part = "templates", NEW c \in DOMAIN req, Templates!UpsertCreate(c)
  PROVE  TemplateInv'
<1> DEFINE group == IF c.type # "company" THEN NULL
                    ELSE IF req[c].role = "ADMINISTRATOR" THEN c.group ELSE Templates!ManagerGroup(req[c].role)
           type == IF c.type = NULL THEN "personal" ELSE c.type
           by == IF Templates!StillAuthor(c) THEN c.user ELSE NULL
           t == [ext |-> req[c].ext, type |-> type, group |-> group, by |-> by, moved |-> FALSE]
           refused == c.type = "company" /\ (req[c].role \notin Templates!Creators \/ group = NULL)
           n == Len(template) + 1
<1>1. /\ req[c].at = "create" /\ UNCHANGED <<ext, roles, trespass, todo, mix>>
      /\ template' = IF refused THEN template ELSE Append(template, t)
      /\ req' = [r \in DOMAIN req \ {c} |-> IF r.id = n THEN [req[r] EXCEPT !.groups = @ \cup Templates!Group(r.id)'] ELSE req[r]]
  BY DEF Templates!UpsertCreate, Templates!At
<1>2. /\ ext \in [DOMAIN mix.ext -> TemplateIds(mix)] /\ roles \in [DOMAIN mix.ext -> TemplateRoles(mix)]
      /\ template \in Seq(TemplateRow \cup {NULL}) /\ trespass = {}
      /\ DOMAIN template = 1 .. Len(template) /\ Len(template) \in Nat
      /\ \A i \in Templates!Live : i \in DOMAIN template /\ template[i] \in TemplateRow /\ Owned(template[i])
      /\ \A d \in DOMAIN req : d \in mix.calls /\ req[d] \in TemplateReq /\ Asks(d, req[d])
      /\ c.user \in DOMAIN mix.ext /\ c.user # NULL
      /\ c.type \in {NULL, "personal", "company"} /\ c.group \in TemplateGroups \cup {NULL}
  BY TemplateTypes
<1>3. req[c].ext # NULL /\ req[c].ext \in TemplateIds(mix)  BY <1>1, <1>2 DEF Asks, TemplateReq
<1>4. group \in TemplateGroups \cup {NULL} /\ type \in {"personal", "company"}
      /\ by \in DOMAIN mix.ext \cup {NULL} /\ (by # NULL => ext[by] = req[c].ext /\ (type = "company" => roles[by] = req[c].role))
  BY <1>2 DEF Templates!ManagerGroup, Templates!StillAuthor, TemplateGroups
<1>5. ~refused => /\ group = NULL <=> type = "personal"
                  /\ type = "company" => Granted(req[c].role, group)
  BY <1>2, TemplateAssumption DEF Granted
<1> HIDE DEF group, type, by, refused
<1>6. /\ t \in TemplateRow /\ t.ext = req[c].ext /\ t.type = type /\ t.group = group /\ t.by = by
      /\ ~refused => Owned(t)
  BY <1>3, <1>4, <1>5 DEF TemplateRow, TemplateRecord, Owned
<1> HIDE DEF t
<1>7. n = Len(template) + 1 /\ n \notin DOMAIN template  BY <1>2
<1>8. /\ template' \in Seq(TemplateRow \cup {NULL}) /\ DOMAIN template \subseteq DOMAIN template'
      /\ \A i \in DOMAIN template : template'[i] = template[i]
      /\ \A i \in DOMAIN template' : i \notin DOMAIN template => i = n /\ ~refused /\ template'[i] = t
  <2>1. CASE refused  BY <1>1, <1>2, <2>1
  <2>2. CASE ~refused
    <3>1. template' = Append(template, t)  BY <1>1, <2>2
    <3> HIDE DEF n
    <3> QED  BY <1>2, <1>6, <1>7, <2>2, <3>1
  <2> QED  BY <2>1, <2>2
<1> HIDE DEF n
<1>9. TemplateSteps  BY <1>8 DEF TemplateSteps
<1>10. \A i \in Templates!Live' : \/ i \in Templates!Live /\ template'[i] = template[i]
                                  \/ i = n /\ ~refused /\ template'[i] = t
  BY <1>8 DEF Templates!Live
<1>11. ASSUME NEW i \in Templates!Live'  PROVE Owned(template[i])' /\ template'[i].group \in TemplateGroups \cup {NULL}
  <2>1. PICK u : u = template'[i]  OBVIOUS
  <2>2. Owned(u) /\ u \in TemplateRow  BY <1>2, <1>6, <1>10, <1>11, <2>1
  <2>3. Owned(u)'  BY <1>1, <2>2 DEF Owned
  <2>4. u.group \in TemplateGroups \cup {NULL}  BY <2>2 DEF TemplateRow, TemplateRecord
  <2> QED  BY <2>1, <2>3, <2>4
<1>12. ASSUME NEW d \in DOMAIN req'
       PROVE  /\ d \in DOMAIN req /\ req'[d] \in TemplateReq
              /\ req'[d].at = req[d].at /\ req'[d].role = req[d].role /\ req'[d].ext = req[d].ext /\ req'[d].row = req[d].row /\ req'[d].group = req[d].group
              /\ req[d].had \subseteq req'[d].had /\ req[d].groups \subseteq req'[d].groups
              /\ ext'[d.user] \in req'[d].had
              /\ d.id \in Templates!Live' => template'[d.id].group \in req'[d].groups
  <2>1. PICK s : s = req[d]  OBVIOUS
  <2>2. PICK g : g = Templates!Group(d.id)'  OBVIOUS
  <2>3. d \in DOMAIN req /\ req'[d] = IF d.id = n THEN [s EXCEPT !.groups = @ \cup g] ELSE s
    BY <1>1, <1>12, <2>1, <2>2
  <2>4. s \in TemplateReq /\ ext[d.user] \in s.had /\ (d.id \in Templates!Live => template[d.id].group \in s.groups)
    BY <1>2, <2>1, <2>3 DEF Asks
  <2>5. g \subseteq TemplateGroups \cup {NULL} /\ (d.id \in Templates!Live' => template'[d.id].group \in g)
    BY <1>11, <2>2 DEF Templates!Group
  <2>6. CASE d.id = n
    <3> DEFINE u == [s EXCEPT !.groups = s.groups \cup g]
    <3>1. s.groups \cup g \in SUBSET (TemplateGroups \cup {NULL})  BY <2>4, <2>5 DEF TemplateReq
    <3>2. /\ u \in TemplateReq /\ u.at = s.at /\ u.role = s.role /\ u.ext = s.ext /\ u.row = s.row /\ u.group = s.group
          /\ u.had = s.had /\ u.groups = s.groups \cup g
      BY <2>4, <3>1 DEF TemplateReq
    <3>3. req'[d] = u  BY <2>3, <2>6
    <3> HIDE DEF u
    <3> QED  BY <1>1, <2>1, <2>3, <2>4, <2>5, <3>2, <3>3, Zenon
  <2>7. CASE d.id # n
    <3>1. req'[d] = s  BY <2>3, <2>7
    <3>2. d.id \in Templates!Live' => template'[d.id].group \in s.groups  BY <1>10, <2>4, <2>7
    <3> QED  BY <1>1, <2>1, <2>3, <2>4, <3>1, <3>2, Zenon
  <2> QED  BY <2>6, <2>7
<1>13. /\ todo' \subseteq todo /\ mix' = mix /\ trespass' = {}
       /\ ext' \in [DOMAIN mix.ext -> TemplateIds(mix)] /\ roles' \in [DOMAIN mix.ext -> TemplateRoles(mix)]
  BY <1>1, <1>2
<1> QED  BY <1>8, <1>9, <1>11, <1>12, <1>13, TemplateWrites

-----------------------------------------------------------------------------
(* The templates: the theorem.                                             *)

\* Nobody has asked for anything yet, and the rows are as creation left them.
LEMMA TemplateInit == Init => TemplateInv
<1> SUFFICES ASSUME Init, part = "templates"  PROVE TemplateInv
  BY DEF TemplateInv
<1>1. mix \in TemplateMixes /\ ext = mix.ext /\ roles = mix.role /\ template = mix.template /\ req = <<>> /\ trespass = {} /\ todo = mix.calls
  BY DEF Init, Templates!Init
<1>2. /\ mix.ext \in [DOMAIN mix.ext -> TemplateIds(mix)] /\ mix.role \in [DOMAIN mix.ext -> TemplateRoles(mix)] /\ mix.template \in Seq(TemplateRow)
      /\ \A i \in DOMAIN template :
           /\ template[i].ext # NULL /\ (template[i].group = NULL <=> template[i].type = "personal")
           /\ template[i].by # NULL => /\ ext[template[i].by] = template[i].ext
                                       /\ template[i].type = "company" => Granted(roles[template[i].by], template[i].group)
  BY <1>1, TemplateAssumption DEF TemplateRow
<1>3. template \in Seq(TemplateRow \cup {NULL})  BY <1>1, <1>2
<1>4. \A i \in Templates!Live : Owned(template[i])  BY <1>2 DEF Owned, Templates!Live
<1>5. DOMAIN req = {}  BY <1>1
<1> QED  BY <1>1, <1>2, <1>3, <1>4, <1>5 DEF TemplateInv

\* Every step keeps the invariant of the templates.
LEMMA TemplateNext == TemplateInv /\ [Next]_vars => TemplateInv'
<1> SUFFICES ASSUME TemplateInv, [Next]_vars  PROVE TemplateInv'
  OBVIOUS
<1>1. CASE TemplateStep
  <2>1. part = "templates" /\ Templates!Next  BY <1>1 DEF TemplateStep, InTemplates
  <2>2. CASE \E c \in todo : Templates!Admit(c) \/ Templates!Identify(c)
    BY <2>1, <2>2, Admits, IdentifyWrites
  <2>3. CASE \E c \in DOMAIN req : \/ Templates!Upsert(c) \/ Templates!UpsertFind(c) \/ Templates!UpsertWrite(c)
                                   \/ Templates!UpsertCreate(c)
                                   \/ Templates!Delete(c) \/ Templates!DeleteUser(c) \/ Templates!DeleteRow(c)
    BY <2>1, <2>3, UpsertReads, UpsertFinds, UpsertWrites, UpsertCreates, DeleteReads, DeleteUserReads, DeletesRow
  <2> QED  BY <2>1, <2>2, <2>3 DEF Templates!Next
<1>2. CASE DirectoryStep \/ NoticeStep \/ BoardStep \/ LocationStep
  <2>1. part' # "templates"
    BY <1>2 DEF DirectoryStep, NoticeStep, BoardStep, LocationStep, InDirectory, InNotices, InBoard, InLocation
  <2> QED  BY <2>1 DEF TemplateInv
<1>3. CASE UNCHANGED vars
  <2>1. UNCHANGED <<part, ext, roles, template, trespass, req, todo, mix>>  BY <1>3 DEF vars, templateVars
  <2>2. TemplateRow' = TemplateRow /\ TemplateReq' = TemplateReq /\ TemplateIds(mix)' = TemplateIds(mix)
    BY <2>1 DEF TemplateRow, TemplateReq
  <2>3. \A t : Owned(t)' <=> Owned(t)  BY <2>1 DEF Owned
  <2>4. \A c, s : Asks(c, s)' <=> Asks(c, s)  BY <2>1 DEF Asks, Own, Templates!Live
  <2> QED  BY <2>1, <2>2, <2>3, <2>4 DEF TemplateInv, Templates!Live
<1> QED  BY <1>1, <1>2, <1>3 DEF Next

\* Nobody but an administrator changes a template that was never his to change while he asked, and
\* an author who kept his id, and for a template of the company his role, is shown it and may change
\* and delete it
\* (message-templates.service.ts), whatever the users, their ids and roles, and the requests.
THEOREM TemplatesRight == Spec => []TemplatesOwned
<1>1. TemplateInv => TemplatesOwned
  <2> SUFFICES ASSUME TemplateInv, part = "templates"
               PROVE  Templates!NoTrespass /\ Templates!AuthorsList
    BY DEF TemplatesOwned
  <2>1. Templates!NoTrespass  BY DEF TemplateInv, Templates!NoTrespass
  <2>2. ASSUME NEW i \in Templates!Live, template[i].by # NULL, ~template[i].moved
        PROVE  LET t == template[i]
               IN /\ Templates!Listed(roles[t.by], ext[t.by], t)
                  /\ Templates!MayUpdate(roles[t.by], ext[t.by], t) /\ Templates!MayDelete(roles[t.by], ext[t.by], t)
    <3>1. PICK t : t = template[i]  OBVIOUS
    <3>2. t.type \in {"personal", "company"} /\ Owned(t) /\ t.group \in TemplateGroups \cup {NULL}
      BY <3>1, TemplateTypes DEF TemplateRow, TemplateRecord
    <3>3. t.ext # NULL /\ ext[t.by] = t.ext  BY <2>2, <3>1, <3>2 DEF Owned
    <3>4. CASE t.type = "personal"
      <4>1. t.group = NULL  BY <3>2, <3>4 DEF Owned
      <4> QED  BY <3>1, <3>3, <3>4, <4>1 DEF Templates!Listed, Templates!MayUpdate, Templates!MayDelete
    <3>5. CASE t.type = "company"
      <4>1. Granted(roles[t.by], t.group) /\ t.group # NULL  BY <2>2, <3>1, <3>2, <3>5 DEF Owned
      <4>2. Templates!CompanyListed(roles[t.by], ext[t.by], t)
        BY <3>3, <4>1 DEF Granted, Templates!Creators, Templates!CompanyListed
      <4>3. Templates!MayUpdate(roles[t.by], ext[t.by], t) /\ Templates!MayDelete(roles[t.by], ext[t.by], t)
        BY <3>3, <4>1 DEF Granted, Templates!MayUpdate, Templates!MayDelete
      <4> QED  BY <3>1, <3>5, <4>2, <4>3 DEF Templates!Listed
    <3> QED  BY <3>2, <3>4, <3>5
  <2> QED  BY <2>1, <2>2 DEF Templates!AuthorsList
<1> QED  BY <1>1, TemplateInit, TemplateNext, PTL DEF Spec

-----------------------------------------------------------------------------
(* The jobs of the location service: the lock of a job.                    *)

\* One session at most holds the lock of a job, and it holds it as often as the job runs.
LocksInv ==
  part = "location" =>
    /\ lock \in [Location!Sessions -> Nat]
    /\ \A s, t \in Location!Sessions : s[1] = t[1] /\ lock[s] > 0 /\ lock[t] > 0 => s = t
    /\ \A r \in DOMAIN run : /\ r \in Jobs \X Instances \X {1, 2}
                             /\ \E c \in Conns : lock[<<r[1], r[2], c>>] > 0
    /\ \A r, q \in DOMAIN run : r[1] = q[1] /\ r # q => \E c \in Conns : lock[<<r[1], r[2], c>>] > 1

\* Runs of one job are runs of one instance.
LEMMA RunsTogether ==
  ASSUME LocksInv, part = "location", NEW r \in DOMAIN run, NEW q \in DOMAIN run, r[1] = q[1]
  PROVE  r[2] = q[2]
<1>1. r \in Jobs \X Instances \X {1, 2} /\ q \in Jobs \X Instances \X {1, 2}  BY DEF LocksInv
<1>2. PICK c \in Conns : lock[<<r[1], r[2], c>>] > 0  BY DEF LocksInv
<1>3. PICK d \in Conns : lock[<<q[1], q[2], d>>] > 0  BY Zenon DEF LocksInv
<1>4. PICK s : s = <<r[1], r[2], c>>  BY Zenon
<1>5. PICK t : t = <<q[1], q[2], d>>  BY Zenon
<1>6. /\ s \in Location!Sessions /\ s[1] = r[1] /\ s[2] = r[2]
      /\ t \in Location!Sessions /\ t[1] = q[1] /\ t[2] = q[2]
  BY <1>1, <1>4, <1>5 DEF Location!Sessions
<1>7. s = t  BY <1>2, <1>3, <1>4, <1>5, <1>6 DEF LocksInv
<1> QED  BY <1>6, <1>7

\* A run goes on or ends, and the locks stay.
LEMMA LocksStay ==
  ASSUME LocksInv, part = "location", lock' = lock, DOMAIN run' \subseteq DOMAIN run
  PROVE  LocksInv'
BY DEF LocksInv, Location!Sessions

\* pg_try_advisory_lock() is granted to the session that has the lock already, or to any if none has.
LEMMA StartLocks ==
  ASSUME LocksInv, part = "location", NEW j \in Jobs, NEW i \in Instances, NEW c \in Conns, Location!Start(j, i, c)
  PROVE  LocksInv'
<1>1. PICK n \in 1 .. 2 : run' = Location!With(run, <<j, i, n>>, [at |-> "read", items |-> <<>>, tries |-> 0])
  BY DEF Location!Start
<1>2. PICK r0 : r0 = <<j, i, n>>  BY Zenon
<1>3. PICK s0 : s0 = <<j, i, c>>  BY Zenon
<1>4. DOMAIN run' = DOMAIN run \cup {r0}  BY <1>1, <1>2 DEF Location!With
<1>5. Location!Held(j) \subseteq {s0} /\ lock' = [lock EXCEPT ![s0] = @ + 1]  BY <1>3 DEF Location!Start, Location!Grant
<1>6. s0 \in Location!Sessions /\ s0[1] = j /\ s0[2] = i  BY <1>3 DEF Location!Sessions
<1>7. r0 \in Jobs \X Instances \X {1, 2} /\ r0[1] = j /\ r0[2] = i  BY <1>1, <1>2
<1>8. lock \in [Location!Sessions -> Nat]  BY DEF LocksInv
<1>9. /\ lock' \in [Location!Sessions -> Nat] /\ lock'[s0] = lock[s0] + 1 /\ lock[s0] \in Nat
      /\ \A s \in Location!Sessions : s # s0 => lock'[s] = lock[s]
      /\ \A s \in Location!Sessions : lock[s] \in Nat /\ lock'[s] \in Nat /\ lock'[s] >= lock[s]
  BY <1>5, <1>6, <1>8
<1>10. \A s \in Location!Sessions : s[1] = j /\ lock[s] > 0 => s = s0  BY <1>5 DEF Location!Held
<1>11. Location!Sessions' = Location!Sessions  BY DEF Location!Sessions
<1>12. \A s, t \in Location!Sessions : s[1] = t[1] /\ lock'[s] > 0 /\ lock'[t] > 0 => s = t
  <2> SUFFICES ASSUME NEW s \in Location!Sessions, NEW t \in Location!Sessions, s[1] = t[1], lock'[s] > 0, lock'[t] > 0
               PROVE  s = t
    OBVIOUS
  <2>1. CASE s[1] = j  BY <1>9, <1>10, <2>1, Zenon
  <2>2. CASE s[1] # j
    <3>1. lock[s] > 0 /\ lock[t] > 0  BY <1>6, <1>9, <2>2
    <3> QED  BY <3>1 DEF LocksInv
  <2> QED  BY <2>1, <2>2
<1>13. lock'[<<j, i, c>>] > 0  BY <1>3, <1>9
<1>14. \A k \in Jobs, h \in Instances, d \in Conns : <<k, h, d>> \in Location!Sessions  BY DEF Location!Sessions
<1>15. ASSUME NEW r \in DOMAIN run
       PROVE  /\ r \in Jobs \X Instances \X {1, 2}
              /\ \E d \in Conns : lock'[<<r[1], r[2], d>>] > 0
              /\ r[1] = j => r[2] = i /\ lock[s0] > 0
  <2>1. r \in Jobs \X Instances \X {1, 2}  BY DEF LocksInv
  <2>2. PICK d \in Conns : lock[<<r[1], r[2], d>>] > 0  BY Zenon DEF LocksInv
  <2>3. PICK s : s = <<r[1], r[2], d>>  BY Zenon
  <2>4. s \in Location!Sessions /\ s[1] = r[1] /\ s[2] = r[2]  BY <2>1, <2>3 DEF Location!Sessions
  <2>5. lock'[s] > 0 /\ lock[s] > 0  BY <1>9, <2>2, <2>3, <2>4
  <2> QED  BY <1>6, <1>10, <2>1, <2>3, <2>4, <2>5
<1>16. ASSUME NEW r \in DOMAIN run', NEW q \in DOMAIN run', r[1] = q[1], r # q
       PROVE  \E d \in Conns : lock'[<<r[1], r[2], d>>] > 1
  <2>1. CASE r[1] = j
    <3>1. lock[s0] > 0 /\ r[2] = i  BY <1>4, <1>7, <1>15, <1>16, <2>1, Zenon
    <3>2. lock'[s0] > 1  BY <1>9, <3>1
    <3> QED  BY <1>3, <2>1, <3>1, <3>2
  <2>2. CASE r[1] # j
    <3>1. r \in DOMAIN run /\ q \in DOMAIN run  BY <1>4, <1>7, <1>16, <2>2
    <3>2. PICK d \in Conns : lock[<<r[1], r[2], d>>] > 1  BY <1>16, <3>1 DEF LocksInv
    <3>3. <<r[1], r[2], d>> \in Location!Sessions  BY <1>15, <3>1 DEF Location!Sessions
    <3>4. lock'[<<r[1], r[2], d>>] > 1  BY <1>9, <3>2, <3>3
    <3> QED  BY <3>4
  <2> QED  BY <2>1, <2>2
<1>17. ASSUME NEW r \in DOMAIN run'
       PROVE  r \in Jobs \X Instances \X {1, 2} /\ \E d \in Conns : lock'[<<r[1], r[2], d>>] > 0
  BY <1>4, <1>7, <1>13, <1>15
<1> QED  BY <1>9, <1>11, <1>12, <1>16, <1>17, Zenon DEF LocksInv

\* pg_advisory_unlock() takes one hold away when a run ends, or none.
LEMMA UnlockKeeps ==
  ASSUME LocksInv, part = "location", NEW r, NEW c \in Conns, Location!Unlock(r, c)
  PROVE  LocksInv'
<1>1. r \in DOMAIN run /\ DOMAIN run' = DOMAIN run \ {r}
  BY DEF Location!Unlock, Location!Without, Location!Restrict
<1>2. r \in Jobs \X Instances \X {1, 2}  BY <1>1 DEF LocksInv
<1>3. PICK s0 : s0 = <<r[1], r[2], c>>  BY Zenon
<1>4. s0 \in Location!Sessions /\ s0[1] = r[1] /\ s0[2] = r[2]  BY <1>2, <1>3 DEF Location!Sessions
<1>5. (lock[s0] > 0 /\ lock' = [lock EXCEPT ![s0] = @ - 1]) \/ lock' = lock
  BY <1>3 DEF Location!Unlock
<1>6. CASE lock' = lock  BY <1>1, <1>6, LocksStay
<1>7. CASE lock[s0] > 0 /\ lock' = [lock EXCEPT ![s0] = @ - 1]
  <2>1. lock \in [Location!Sessions -> Nat]  BY DEF LocksInv
  <2>2. /\ lock' \in [Location!Sessions -> Nat] /\ lock'[s0] = lock[s0] - 1 /\ lock[s0] \in Nat
        /\ \A s \in Location!Sessions : s # s0 => lock'[s] = lock[s]
        /\ \A s \in Location!Sessions : lock[s] \in Nat /\ lock'[s] \in Nat /\ lock'[s] <= lock[s]
    BY <1>4, <1>7, <2>1
  <2>3. Location!Sessions' = Location!Sessions  BY DEF Location!Sessions
  <2>4. \A s, t \in Location!Sessions : s[1] = t[1] /\ lock'[s] > 0 /\ lock'[t] > 0 => s = t
    <3>1. \A s \in Location!Sessions : lock'[s] > 0 => lock[s] > 0  BY <2>2
    <3> QED  BY <3>1 DEF LocksInv
  <2>5. ASSUME NEW q \in DOMAIN run'  PROVE \E d \in Conns : lock'[<<q[1], q[2], d>>] > 0
    <3>1. q \in DOMAIN run /\ q # r /\ q \in Jobs \X Instances \X {1, 2}  BY <1>1, <2>5 DEF LocksInv
    <3>2. CASE q[1] = r[1]
      <4>1. PICK d \in Conns : lock[<<q[1], q[2], d>>] > 1  BY <1>1, <3>1, <3>2, Zenon DEF LocksInv
      <4>2. PICK s : s = <<q[1], q[2], d>>  BY Zenon
      <4>3. s \in Location!Sessions /\ s[1] = q[1]  BY <3>1, <4>2 DEF Location!Sessions
      <4>4. s = s0  
        <5>1. lock[s] > 0  BY <2>2, <4>1, <4>2, <4>3
        <5> QED  BY <1>4, <1>7, <3>2, <4>3, <5>1 DEF LocksInv
      <4>5. lock'[s] > 0  BY <2>2, <4>1, <4>2, <4>4
      <4> QED  BY <4>2, <4>5
    <3>3. CASE q[1] # r[1]
      <4>1. PICK d \in Conns : lock[<<q[1], q[2], d>>] > 0  BY <3>1 DEF LocksInv
      <4>2. PICK s : s = <<q[1], q[2], d>>  BY Zenon
      <4>3. s \in Location!Sessions /\ s[1] = q[1]  BY <3>1, <4>2 DEF Location!Sessions
      <4>4. lock'[s] > 0  BY <1>4, <2>2, <3>3, <4>1, <4>2, <4>3
      <4> QED  BY <4>2, <4>4
    <3> QED  BY <3>2, <3>3
  <2>6. ASSUME NEW p \in DOMAIN run', NEW q \in DOMAIN run', p[1] = q[1], p # q
        PROVE  \E d \in Conns : lock'[<<p[1], p[2], d>>] > 1
    <3>1. /\ p \in DOMAIN run /\ p # r /\ p \in Jobs \X Instances \X {1, 2}
          /\ q \in DOMAIN run /\ q # r /\ q \in Jobs \X Instances \X {1, 2}
      BY <1>1, <2>6 DEF LocksInv
    <3>2. p[2] = q[2]  BY <2>6, <3>1, RunsTogether
    <3>3. p[1] # r[1]
      <4> SUFFICES ASSUME p[1] = r[1]  PROVE FALSE
        OBVIOUS
      <4>1. p[2] = r[2]  BY <1>1, <3>1, RunsTogether
      <4>2. \A x, y \in Jobs \X Instances \X {1, 2} : x[1] = y[1] /\ x[2] = y[2] /\ x[3] = y[3] => x = y
        OBVIOUS
      <4>3. p[3] \in {1, 2} /\ q[3] \in {1, 2} /\ r[3] \in {1, 2}  BY <1>2, <3>1
      <4>4. p[3] # r[3] /\ q[3] # r[3] /\ p[3] # q[3]  BY <1>2, <2>6, <3>1, <3>2, <4>1, <4>2, Zenon
      <4> QED  BY <4>3, <4>4
    <3>4. PICK d \in Conns : lock[<<p[1], p[2], d>>] > 1  BY <2>6, <3>1 DEF LocksInv
    <3>5. PICK s : s = <<p[1], p[2], d>>  BY Zenon
    <3>6. s \in Location!Sessions /\ s[1] = p[1]  BY <3>1, <3>5 DEF Location!Sessions
    <3>7. lock'[s] > 1  BY <1>4, <2>2, <3>3, <3>4, <3>5, <3>6
    <3> QED  BY <3>5, <3>7
  <2>7. \A q \in DOMAIN run' : q \in Jobs \X Instances \X {1, 2}  BY <1>1 DEF LocksInv
  <2> QED  BY <2>2, <2>3, <2>4, <2>5, <2>6, <2>7 DEF LocksInv
<1> QED  BY <1>5, <1>6, <1>7

\* A process that ends loses its runs and closes its sessions.
LEMMA CrashUnlocks ==
  ASSUME LocksInv, part = "location", NEW c, Location!Crash(c)
  PROVE  LocksInv'
<1>1. /\ DOMAIN run' = {r \in DOMAIN run : r[2] # c.instance}
      /\ lock' = [s \in Location!Sessions |-> IF s[2] = c.instance THEN 0 ELSE lock[s]]
  BY DEF Location!Crash, Location!Restrict
<1>2. /\ lock \in [Location!Sessions -> Nat] /\ Location!Sessions' = Location!Sessions
      /\ \A r \in DOMAIN run : r \in Jobs \X Instances \X {1, 2}
  BY DEF LocksInv, Location!Sessions
<1>3. /\ lock' \in [Location!Sessions -> Nat]
      /\ \A s \in Location!Sessions : lock'[s] > 0 => lock[s] > 0
      /\ \A s \in Location!Sessions : s[2] # c.instance => lock'[s] = lock[s]
  BY <1>1, <1>2
<1>4. \A s, t \in Location!Sessions : s[1] = t[1] /\ lock'[s] > 0 /\ lock'[t] > 0 => s = t
  BY <1>3 DEF LocksInv
<1>5. \A r \in DOMAIN run' : r \in DOMAIN run /\ \A d \in Conns : lock'[<<r[1], r[2], d>>] = lock[<<r[1], r[2], d>>]
  <2> SUFFICES ASSUME NEW r \in DOMAIN run', NEW d \in Conns
               PROVE  r \in DOMAIN run /\ lock'[<<r[1], r[2], d>>] = lock[<<r[1], r[2], d>>]
    BY <1>1
  <2>1. r \in DOMAIN run /\ r[2] # c.instance /\ r \in Jobs \X Instances \X {1, 2}  BY <1>1, <1>2
  <2>2. PICK s : s = <<r[1], r[2], d>>  BY Zenon
  <2>3. s \in Location!Sessions /\ s[2] = r[2]  BY <2>1, <2>2 DEF Location!Sessions
  <2> QED  BY <1>3, <2>1, <2>2, <2>3
<1>6. \A r \in DOMAIN run' : \E d \in Conns : lock'[<<r[1], r[2], d>>] > 0
  <2>1. \A r \in DOMAIN run : \E d \in Conns : lock[<<r[1], r[2], d>>] > 0  BY DEF LocksInv
  <2> QED  BY ONLY <1>5, <2>1, Zenon
<1>7. \A r, q \in DOMAIN run' : r[1] = q[1] /\ r # q => \E d \in Conns : lock'[<<r[1], r[2], d>>] > 1
  <2>1. \A r, q \in DOMAIN run : r[1] = q[1] /\ r # q => \E d \in Conns : lock[<<r[1], r[2], d>>] > 1  BY DEF LocksInv
  <2> QED  BY ONLY <1>5, <2>1, Zenon
<1>8. \A r \in DOMAIN run' : r \in Jobs \X Instances \X {1, 2}  BY <1>1, <1>2
<1> QED  BY <1>2, <1>3, <1>4, <1>6, <1>7, <1>8 DEF LocksInv

\* No lock is held and nothing runs to begin with.
LEMMA LocksInit == Init => LocksInv
<1> SUFFICES ASSUME Init, part = "location"  PROVE LocksInv
  BY Zenon DEF LocksInv
<1>1. lock = [s \in Location!Sessions |-> 0] /\ run = <<>>  BY DEF Init, Location!Init
<1>2. DOMAIN run = {} /\ lock \in [Location!Sessions -> Nat] /\ \A s \in Location!Sessions : ~(lock[s] > 0)
  BY <1>1
<1> QED  BY <1>2 DEF LocksInv

\* Every step keeps the locks.
LEMMA LocksNext == LocksInv /\ [Next]_vars => LocksInv'
<1> SUFFICES ASSUME LocksInv, [Next]_vars  PROVE LocksInv'
  OBVIOUS
<1>1. CASE LocationStep
  <2>1. part = "location" /\ Location!Next  BY <1>1 DEF LocationStep, InLocation
  <2>2. CASE \E c \in Location!Calls : \/ Location!Arrive(c) \/ Location!Request(c) \/ Location!SetInTms(c)
                                       \/ Location!Hook(c) \/ Location!HookLost(c) \/ Location!ChangeStatus(c)
    <3>1. lock' = lock /\ run' = run
      BY <2>2 DEF Location!Arrive, Location!Request, Location!SetInTms, Location!Hook, Location!HookLost,
        Location!ChangeStatus, Location!Refuse, Location!Save, Location!Look, Location!AddPoint, Location!Tell,
        Location!TellFails, Location!HookFind, Location!HookSave, Location!batch
    <3> QED  BY <2>1, <3>1, LocksStay
  <2>3. CASE \E c \in Location!Calls : Location!Crash(c)  BY <2>1, <2>3, CrashUnlocks
  <2>4. CASE \E i \in Instances, c \in Conns : Location!Begin(i, c)
    <3>1. PICK i \in Instances, c \in Conns : Location!Begin(i, c)  BY <2>4
    <3>2. PICK j \in Jobs : Location!Start(j, i, c)
      BY <3>1, InstancesAssumption DEF Location!Begin, Location!LocationTick, Location!AppTick
    <3> QED  BY <2>1, <3>2, StartLocks
  <2>5. CASE \E i \in Instances : Location!CoolDown(i)
    <3>1. lock' = lock /\ run' = run  BY <2>5 DEF Location!CoolDown
    <3> QED  BY <2>1, <3>1, LocksStay
  <2>6. CASE \E r \in DOMAIN run : Location!Job(r)
    <3>1. PICK r \in DOMAIN run : Location!Job(r)  BY <2>6
    <3>2. CASE Location!ReadDrivers(r) \/ Location!SendChunk(r) \/ Location!SendChunkFails(r)
      <4>1. lock' = lock /\ DOMAIN run' = DOMAIN run
        BY <3>2 DEF Location!ReadDrivers, Location!SendChunk, Location!SendChunkFails, Location!Sent
      <4> QED  BY <2>1, <4>1, LocksStay
    <3>3. CASE \E c \in Conns : Location!Unlock(r, c)  BY <2>1, <3>3, UnlockKeeps
    <3> QED  BY <3>1, <3>2, <3>3 DEF Location!Job
  <2>7. CASE (\E m \in late : Location!PostLands(m)) \/ Location!Tick
    <3>1. lock' = lock /\ run' = run  BY <2>7 DEF Location!PostLands, Location!Tick, Location!batch
    <3> QED  BY <2>1, <3>1, LocksStay
  <2> QED  BY <2>1, <2>2, <2>3, <2>4, <2>5, <2>6, <2>7 DEF Location!Next
<1>2. CASE DirectoryStep \/ NoticeStep \/ TemplateStep \/ BoardStep
  <2>1. part' # "location"
    BY <1>2 DEF DirectoryStep, NoticeStep, TemplateStep, BoardStep, InDirectory, InNotices, InTemplates, InBoard
  <2> QED  BY <2>1 DEF LocksInv
<1>3. CASE UNCHANGED vars
  <2>1. UNCHANGED <<part, lock, run>>  BY <1>3 DEF vars, locationVars
  <2> QED  BY <2>1, Zenon DEF LocksInv, Location!Sessions
<1> QED  BY <1>1, <1>2, <1>3 DEF Next

-----------------------------------------------------------------------------
(* The points of a load's history: the invariant.                          *)

\* A call under way has come once, and wrote the database at a time that is past.
CallRight(c) ==
  /\ c \in mix.calls /\ c \notin todo /\ c.kind \in {"manual", "ping"}
  /\ DOMAIN req[c] = {"at", "user", "tries"}
  /\ req[c].at \in {"queued", "ready", "saved", "point", "send"}
  /\ req[c].at \in {"saved", "point"} => req[c].user.seen \in Nat /\ req[c].user.seen <= now

\* Pings wait in the queue once, and those that do not wait have the permits that are not free.
WaitQueue ==
  /\ waiters \in Seq(mix.calls)
  /\ \A k \in DOMAIN waiters : waiters[k] \in DOMAIN req /\ req[waiters[k]].at = "queued" /\ waiters[k].kind = "ping"
  /\ \A k, l \in DOMAIN waiters : waiters[k] = waiters[l] => k = l
Pings == {c \in DOMAIN req : c.kind = "ping" /\ req[c].at # "queued"}
PermitCount == free \in Nat /\ free + Cardinality(Pings) = mix.permits
Manuals == {c \in mix.calls : c.kind = "manual"}

\* A point is of one call, which is past it.
PointRight(p) ==
  /\ p.by \in mix.calls /\ p.by \notin todo
  /\ p.time \in Nat /\ p.time <= now
  /\ p.by \in DOMAIN req => req[p.by].at = "send"

\* The calls that have made a point of load e in the interval from t on, and those that will.
Near(t) == t .. (t + Interval - 1)
Made(e, t) == {p.by : p \in {q \in points : q.id = e /\ q.time \in Near(t)}}
Making(e, t) == {c \in DOMAIN req : req[c].at = "point" /\ Location!Driver(c) = e /\ req[c].user.seen \in Near(t)}
Spaced(e, t) == Cardinality(Made(e, t) \cup Making(e, t)) <= mix.permits + Cardinality(Manuals)

CallsInv ==
  part = "location" =>
    /\ mix \in LocationMixes /\ todo \subseteq mix.calls /\ now \in Nat
    /\ DOMAIN db = DOMAIN mix.db /\ \A r \in DOMAIN db : "seen" \in DOMAIN db[r]
    /\ \A c \in DOMAIN req : CallRight(c)
    /\ WaitQueue /\ PermitCount
    /\ \A p \in points : PointRight(p)
    /\ \A p, q \in points : p.by = q.by => p = q
    /\ \A e : \A t \in Nat : Spaced(e, t)

-----------------------------------------------------------------------------
(* The points of a load's history: lemmas.                                 *)

\* As many calls look at once as hold a permit or are by hand.
LEMMA AtOnce ==
  ASSUME NEW P, IsFiniteSet(P), NEW M, IsFiniteSet(M), NEW n \in Nat, NEW f \in Nat, f + Cardinality(P) = n,
         NEW S, S \subseteq P \cup M
  PROVE  Cardinality(S) <= n + Cardinality(M)
<1>1. /\ IsFiniteSet(P \cup M)
      /\ Cardinality(P \cup M) = Cardinality(P) + Cardinality(M) - Cardinality(P \cap M)
  BY FS_Union
<1>2. IsFiniteSet(S) /\ Cardinality(S) <= Cardinality(P \cup M)  BY <1>1, FS_Subset
<1>3. IsFiniteSet(P \cap M)  BY FS_Subset
<1>4. /\ Cardinality(P) \in Nat /\ Cardinality(M) \in Nat /\ Cardinality(P \cap M) \in Nat
      /\ Cardinality(S) \in Nat /\ Cardinality(P \cup M) \in Nat
  BY <1>1, <1>2, <1>3, FS_CardinalityType
<1> QED  BY <1>1, <1>2, <1>4

\* Of a bounded set of naturals that is not empty one is the greatest.
LEMMA GreatestNat ==
  ASSUME NEW S, NEW n \in Nat, S \subseteq 0 .. n, S # {}
  PROVE  \E x \in S : \A y \in S : y <= x
<1> DEFINE T == {n - x : x \in S}
<1>0. \A x \in S : x \in Nat /\ n - x \in Nat
  <2>1. \A x \in S : x \in 0 .. n  OBVIOUS
  <2> QED  BY <2>1
<1>1. T \subseteq Nat /\ T # {}  BY <1>0, Zenon
<1>2. PICK r \in T : \A s \in T : ~ (<<s, r>> \in OpToRel(<, Nat))
  BY <1>1, NatLessThanWellFounded, WFMin, Zenon
<1>3. \A s \in T : r <= s
  <2>1. \A s \in T : ~ (s < r)  BY <1>1, <1>2, Zenon DEF OpToRel
  <2> HIDE DEF T
  <2> QED  BY <1>1, <2>1
<1>4. PICK x \in S : r = n - x  OBVIOUS
<1>5. ASSUME NEW y \in S  PROVE y <= x
  <2>1. n - y \in T  OBVIOUS
  <2>2. n - x <= n - y /\ x \in Nat /\ y \in Nat  BY <1>0, <1>3, <1>4, <2>1
  <2> QED  BY <2>2
<1> QED  BY <1>5

\* A load that has a point in the interval from t on has its latest point at t or after it.
LEMMA LatestLater ==
  ASSUME CallsInv, part = "location", NEW p \in points
  PROVE  \E q \in Location!Latest(p.id) : q.time >= p.time
<1> DEFINE mine == {q \in points : q.id = p.id}
           S == {q.time : q \in mine}
<1>1. \A q \in points : q.time \in Nat /\ q.time <= now  BY DEF CallsInv, PointRight
<1>2. now \in Nat  BY DEF CallsInv
<1>3. S \subseteq 0 .. now /\ S # {}  BY <1>1, <1>2
<1>4. PICK x \in S : \A y \in S : y <= x  
  <2> HIDE DEF S
  <2> QED  BY <1>2, <1>3, GreatestNat, Zenon
<1>5. PICK q \in mine : q.time = x  OBVIOUS
<1>6. \A r \in mine : r.time <= q.time  BY <1>4, <1>5
<1>7. q \in Location!Latest(p.id)  BY <1>6 DEF Location!Latest
<1>8. p.time \in Nat /\ q.time \in Nat /\ p.time <= q.time  BY <1>1, <1>6
<1> QED  BY <1>7, <1>8

\* Rows keep their columns.
RowsStay == DOMAIN db' = DOMAIN db /\ \A r \in DOMAIN db : DOMAIN db'[r] = DOMAIN db[r]

\* A step keeps the points apart when nobody comes to make a point of an interval that has one.
LEMMA CallsWrite ==
  ASSUME CallsInv, part = "location", mix' = mix, todo' \subseteq todo, now' \in Nat, RowsStay,
         WaitQueue', PermitCount',
         \A c \in DOMAIN req' : CallRight(c)',
         \A p \in points' : PointRight(p)',
         \A p, q \in points' : p.by = q.by => p = q,
         \A e : \A t \in Nat : \/ Made(e, t)' = {}
                               \/ Made(e, t)' \cup Making(e, t)' \subseteq Made(e, t) \cup Making(e, t)
  PROVE  CallsInv'
<1>1. /\ mix \in LocationMixes /\ todo' \subseteq mix.calls
      /\ DOMAIN db' = DOMAIN mix.db /\ \A r \in DOMAIN db' : "seen" \in DOMAIN db'[r]
  BY DEF CallsInv, RowsStay
<1>2. IsFiniteSet(mix.calls) /\ mix.permits \in Nat  BY <1>1, LocationAssumption
<1>3. Manuals \subseteq mix.calls /\ Manuals' = Manuals  BY DEF Manuals
<1>4. IsFiniteSet(Manuals)  BY <1>2, <1>3, FS_Subset
<1>5. ASSUME NEW e, NEW t \in Nat  PROVE Spaced(e, t)'
  <2>1. CASE Made(e, t)' = {}
    <3>1. PICK P : P = Pings'  OBVIOUS
    <3>2. PICK S : S = Made(e, t)' \cup Making(e, t)'  BY Zenon
    <3>3. P \subseteq mix.calls  BY <3>1 DEF Pings, CallRight
    <3>4. S \subseteq P \cup Manuals
      BY <2>1, <3>1, <3>2 DEF Making, Pings, Manuals, CallRight
    <3>5. free' \in Nat /\ free' + Cardinality(P) = mix.permits  BY <3>1 DEF PermitCount
    <3>6. IsFiniteSet(P)  BY <1>2, <3>3, FS_Subset
    <3>7. Cardinality(S) <= mix.permits + Cardinality(Manuals)
      <4>1. PICK f \in Nat : f = free'  BY <3>5
      <4>2. f + Cardinality(P) = mix.permits  BY <3>5, <4>1
      <4> QED  BY ONLY <1>2, <1>4, <3>4, <3>6, <4>1, <4>2, AtOnce
    <3> QED  BY <1>3, <3>2, <3>7 DEF Spaced
  <2>2. CASE Made(e, t)' \cup Making(e, t)' \subseteq Made(e, t) \cup Making(e, t)
    <3>1. PICK S : S = Made(e, t)' \cup Making(e, t)'  BY Zenon
    <3>2. PICK R : R = Made(e, t) \cup Making(e, t)  BY Zenon
    <3>3. R \subseteq mix.calls  BY <3>2 DEF CallsInv, Made, Making, CallRight, PointRight
    <3>4. IsFiniteSet(R)  BY <1>2, <3>3, FS_Subset
    <3>5. S \subseteq R  BY <2>2, <3>1, <3>2
    <3>6. Cardinality(S) <= Cardinality(R) /\ IsFiniteSet(S)  BY ONLY <3>4, <3>5, FS_Subset
    <3>7. Cardinality(R) <= mix.permits + Cardinality(Manuals)  BY <3>2 DEF CallsInv, Spaced
    <3>8. Cardinality(S) \in Nat /\ Cardinality(R) \in Nat /\ Cardinality(Manuals) \in Nat
      BY ONLY <1>4, <3>4, <3>6, FS_CardinalityType
    <3>9. Cardinality(S) <= mix.permits + Cardinality(Manuals)  BY ONLY <1>2, <3>6, <3>7, <3>8
    <3> QED  BY <1>3, <3>1, <3>9 DEF Spaced
  <2> QED  BY <2>1, <2>2
<1> QED  BY <1>1, <1>5 DEF CallsInv

\* A call that a step leaves alone, or whose turn comes.
Stays(c) ==
  /\ c \in DOMAIN req
  /\ \/ req'[c] = req[c]
     \/ req[c].at = "queued" /\ req'[c] = [req[c] EXCEPT !.at = "ready"]

\* Calls that stay are right still.
LEMMA StaysRight ==
  ASSUME CallsInv, part = "location", NEW c \in DOMAIN req', Stays(c), mix' = mix, todo' \subseteq todo,
         now' \in Nat, now <= now'
  PROVE  /\ CallRight(c)'
         /\ \A p \in points : p.by = c => req'[c].at = "send"
         /\ \A e, t : c \in Making(e, t)' => c \in Making(e, t)
<1>1. PICK s : s = req[c]  OBVIOUS
<1>2. PICK n : n = now  OBVIOUS
<1>3. /\ c \in mix.calls /\ c \notin todo /\ c.kind \in {"manual", "ping"}
      /\ DOMAIN s = {"at", "user", "tries"}
      /\ s.at \in {"queued", "ready", "saved", "point", "send"}
      /\ s.at \in {"saved", "point"} => s.user.seen \in Nat /\ s.user.seen <= n
      /\ n \in Nat
  BY <1>1, <1>2 DEF CallsInv, CallRight, Stays
<1>4. req'[c] = s \/ (s.at = "queued" /\ req'[c] = [s EXCEPT !.at = "ready"])  BY <1>1 DEF Stays
<1>5. CASE req'[c] = s
  <2>1. s.at \in {"saved", "point"} => s.user.seen <= now'  BY <1>2, <1>3
  <2>2. CallRight(c)'  BY <1>3, <1>5, <2>1 DEF CallRight
  <2>3. \A p \in points : p.by = c => req'[c].at = "send"  BY <1>1, <1>5 DEF CallsInv, PointRight, Stays
  <2>4. \A e, t : c \in Making(e, t)' => c \in Making(e, t)
    BY <1>1, <1>5 DEF Making, Near, Stays, Location!Driver
  <2> QED  BY <2>2, <2>3, <2>4
<1>6. CASE s.at = "queued" /\ req'[c] = [s EXCEPT !.at = "ready"]
  <2>1. DOMAIN req'[c] = {"at", "user", "tries"} /\ req'[c].at = "ready"  BY <1>3, <1>6
  <2>2. CallRight(c)'  BY <1>3, <2>1 DEF CallRight
  <2>3. \A p \in points : p.by # c  BY <1>1, <1>6 DEF CallsInv, PointRight, Stays
  <2>4. \A e, t : c \notin Making(e, t)'  BY <2>1 DEF Making
  <2> QED  BY <2>2, <2>3, <2>4
<1> QED  BY <1>4, <1>5, <1>6

\* A step that makes no point.
LEMMA CallSteps ==
  ASSUME CallsInv, part = "location", mix' = mix, points' = points, todo' \subseteq todo, now' \in Nat, now <= now', RowsStay,
         WaitQueue', PermitCount',
         \A c \in DOMAIN req' :
           \/ Stays(c)
           \/ /\ CallRight(c)'
              /\ \A p \in points : p.by = c => req'[c].at = "send"
              /\ req'[c].at = "point" =>
                   \A p \in points : p.id = Location!Driver(c) => req'[c].user.seen >= p.time + Interval
  PROVE  CallsInv'
<1>1. \A c \in DOMAIN req' : CallRight(c)' /\ \A p \in points : p.by = c => req'[c].at = "send"
  BY StaysRight
<1>2. ASSUME NEW p \in points'  PROVE PointRight(p)'
  <2>1. p.by \in mix.calls /\ p.by \notin todo /\ p.time \in Nat /\ p.time <= now  BY <1>2 DEF CallsInv, PointRight
  <2>2. p.time <= now'
    <3>1. now \in Nat  BY DEF CallsInv
    <3> QED  BY <2>1, <3>1
  <2> QED  BY <1>1, <1>2, <2>1, <2>2 DEF PointRight
<1>3. \A p, q \in points' : p.by = q.by => p = q  BY DEF CallsInv
<1>4. ASSUME NEW e, NEW t \in Nat, Made(e, t)' # {}
      PROVE  Made(e, t)' \cup Making(e, t)' \subseteq Made(e, t) \cup Making(e, t)
  <2>1. Made(e, t)' = Made(e, t)  BY DEF Made, Near
  <2>2. PICK p \in points : p.id = e /\ p.time \in Near(t)  BY <1>4, <2>1 DEF Made
  <2>3. p.time \in Nat /\ p.time >= t  BY <2>2 DEF CallsInv, PointRight, Near
  <2>4. ASSUME NEW c \in Making(e, t)'  PROVE c \in Making(e, t)
    <3>1. c \in DOMAIN req' /\ req'[c].at = "point" /\ Location!Driver(c) = e /\ req'[c].user.seen \in Near(t)
      BY <2>4 DEF Making, Near, Location!Driver
    <3>2. CASE Stays(c)  BY <2>4, <3>1, <3>2, StaysRight
    <3>3. CASE ~Stays(c)
      <4>1. req'[c].user.seen >= p.time + Interval  BY <2>2, <3>1, <3>3
      <4>2. PICK k : k = req'[c].user.seen  OBVIOUS
      <4>3. k \in Nat /\ k >= p.time + Interval /\ k <= t + Interval - 1 /\ Interval \in Nat
        BY <3>1, <4>1, <4>2, InstancesAssumption DEF Near
      <4> QED  BY <2>3, <4>3
    <3> QED  BY <3>2, <3>3
  <2> QED  BY <2>1, <2>4
<1> QED  BY <1>1, <1>2, <1>3, <1>4, CallsWrite

-----------------------------------------------------------------------------
(* The points of a load's history: the semaphore of the pings.             *)

\* The pings that hold a permit are finitely many.
LEMMA PingsFinite == ASSUME CallsInv, part = "location"  PROVE Pings \subseteq mix.calls /\ IsFiniteSet(Pings)
<1>1. Pings \subseteq mix.calls  BY DEF Pings, CallsInv, CallRight
<1>2. IsFiniteSet(mix.calls)  BY LocationAssumption DEF CallsInv
<1> QED  BY <1>1, <1>2, FS_Subset

\* A call goes on and keeps its permit.
LEMMA GoesOn ==
  ASSUME CallsInv, part = "location", NEW c \in DOMAIN req, req[c].at # "queued",
         NEW s, s.at # "queued", req' = [req EXCEPT ![c] = s], UNCHANGED <<free, waiters, mix>>
  PROVE  /\ WaitQueue' /\ PermitCount'
         /\ DOMAIN req' = DOMAIN req /\ req'[c] = s
         /\ \A d \in DOMAIN req' : d # c => Stays(d)
<1>1. DOMAIN req' = DOMAIN req /\ req'[c] = s /\ \A d \in DOMAIN req : d # c => req'[d] = req[d]
  OBVIOUS
<1>2. WaitQueue /\ PermitCount  BY DEF CallsInv
<1>3. Pings' = Pings  BY <1>1 DEF Pings
<1>4. PermitCount'  BY <1>2, <1>3 DEF PermitCount
<1>5. WaitQueue'  BY <1>1, <1>2 DEF WaitQueue
<1>6. \A d \in DOMAIN req' : d # c => Stays(d)  BY <1>1 DEF Stays
<1> QED  BY <1>1, <1>4, <1>5, <1>6

\* AsyncSemaphore.release(): a ping that ends hands its permit to the first that waits, or back.
LEMMA Ends ==
  ASSUME CallsInv, part = "location", NEW c \in DOMAIN req, req[c].at # "queued", Location!Finish(c), mix' = mix
  PROVE  /\ WaitQueue' /\ PermitCount'
         /\ c \notin DOMAIN req'
         /\ \A d \in DOMAIN req' : Stays(d)
<1>1. /\ waiters \in Seq(mix.calls) /\ DOMAIN waiters = 1 .. Len(waiters) /\ Len(waiters) \in Nat
      /\ \A k \in DOMAIN waiters : waiters[k] \in DOMAIN req /\ req[waiters[k]].at = "queued" /\ waiters[k].kind = "ping"
      /\ \A k, l \in DOMAIN waiters : waiters[k] = waiters[l] => k = l
  BY DEF CallsInv, WaitQueue
<1>2. free \in Nat /\ free + Cardinality(Pings) = mix.permits  BY DEF CallsInv, PermitCount
<1>3. mix.permits \in Nat  BY LocationAssumption DEF CallsInv
<1>4. IsFiniteSet(Pings) /\ Cardinality(Pings) \in Nat  BY PingsFinite, FS_CardinalityType
<1>5. \A f, x : DOMAIN Location!Without(f, x) = DOMAIN f \ {x} /\ \A y \in DOMAIN f \ {x} : Location!Without(f, x)[y] = f[y]
  BY DEF Location!Without, Location!Restrict
<1>9. req' = Location!Without(req, c) => DOMAIN req' = DOMAIN req \ {c} /\ \A d \in DOMAIN req' : req'[d] = req[d]
  BY <1>5
<1>6. CASE c.kind # "ping"
  <2>1. req' = Location!Without(req, c) /\ UNCHANGED <<free, waiters>>  BY <1>6 DEF Location!Finish
  <2>2. DOMAIN req' = DOMAIN req \ {c} /\ \A d \in DOMAIN req' : req'[d] = req[d]  BY <1>9, <2>1
  <2>3. Pings' = Pings  BY <1>6, <2>2 DEF Pings
  <2>4. PermitCount'  BY <1>2, <2>1, <2>3 DEF PermitCount
  <2>5. WaitQueue'  BY <1>1, <2>1, <2>2 DEF WaitQueue
  <2> QED  BY <2>2, <2>4, <2>5 DEF Stays
<1>7. CASE c.kind = "ping" /\ waiters = <<>>
  <2>1. req' = Location!Without(req, c) /\ free' = free + 1 /\ UNCHANGED waiters  BY <1>7 DEF Location!Finish
  <2>2. DOMAIN req' = DOMAIN req \ {c} /\ \A d \in DOMAIN req' : req'[d] = req[d]  BY <1>9, <2>1
  <2>3. Pings' = Pings \ {c} /\ c \in Pings  BY <1>7, <2>2 DEF Pings
  <2>4. Cardinality(Pings \ {c}) = Cardinality(Pings) - 1  BY <1>4, <2>3, FS_RemoveElement, Zenon
  <2>5. PermitCount'  BY <1>2, <1>3, <1>4, <2>1, <2>3, <2>4 DEF PermitCount
  <2>6. WaitQueue'  BY <1>1, <1>7, <2>1, <2>2 DEF WaitQueue
  <2> QED  BY <2>2, <2>5, <2>6 DEF Stays
<1>8. CASE c.kind = "ping" /\ waiters # <<>>
  <2>1. PICK h : h = Head(waiters)  OBVIOUS
  <2>2. PICK s : s = [req[h] EXCEPT !.at = "ready"]  BY Zenon
  <2>3. /\ req' = Location!Without([req EXCEPT ![h] = s], c)
        /\ waiters' = Tail(waiters) /\ UNCHANGED free
    BY <1>8, <2>1, <2>2 DEF Location!Finish
  <2>4. 1 \in DOMAIN waiters /\ h = waiters[1]  BY <1>1, <1>8, <2>1
  <2>5. h \in DOMAIN req /\ req[h].at = "queued" /\ h.kind = "ping" /\ h # c  BY <1>1, <2>4
  <2>6. "at" \in DOMAIN req[h]  BY <2>5 DEF CallsInv, CallRight
  <2>7. s.at = "ready"  BY <2>2, <2>6
  <2>8. /\ DOMAIN req' = DOMAIN req \ {c} /\ req'[h] = s
        /\ \A d \in DOMAIN req' : d # h => req'[d] = req[d]
    <3>1. PICK g : g = [req EXCEPT ![h] = s]  BY Zenon
    <3>2. DOMAIN g = DOMAIN req /\ g[h] = s /\ \A d \in DOMAIN req : d # h => g[d] = req[d]  BY <2>5, <3>1
    <3>3. req' = Location!Without(g, c)  BY <2>3, <3>1
    <3>4. DOMAIN req' = DOMAIN g \ {c} /\ \A d \in DOMAIN g \ {c} : req'[d] = g[d]  BY ONLY <1>5, <3>3
    <3> QED  BY ONLY <2>5, <3>2, <3>4
  <2>9. Pings' = (Pings \ {c}) \cup {h} /\ c \in Pings /\ h \notin Pings
    BY <1>8, <2>5, <2>7, <2>8 DEF Pings
  <2>10. Cardinality((Pings \ {c}) \cup {h}) = Cardinality(Pings)
    <3>1. IsFiniteSet(Pings \ {c}) /\ Cardinality(Pings \ {c}) = Cardinality(Pings) - 1
      BY <1>4, <2>9, FS_RemoveElement
    <3>2. h \notin Pings \ {c}  BY <2>9
    <3>3. Cardinality((Pings \ {c}) \cup {h}) = Cardinality(Pings \ {c}) + 1  BY <3>1, <3>2, FS_AddElement, Zenon
    <3> QED  BY <1>4, <3>1, <3>3
  <2>11. PermitCount'  BY <1>2, <2>3, <2>9, <2>10 DEF PermitCount
  <2>12. /\ waiters' \in Seq(mix.calls) /\ DOMAIN waiters' = 1 .. (Len(waiters) - 1)
         /\ \A k \in DOMAIN waiters' : k + 1 \in DOMAIN waiters /\ waiters'[k] = waiters[k + 1] /\ k + 1 # 1 /\ k \in Nat
    BY <1>1, <1>8, <2>3
  <2>13. ASSUME NEW k \in DOMAIN waiters'
         PROVE  waiters'[k] \in DOMAIN req' /\ req'[waiters'[k]].at = "queued" /\ waiters'[k].kind = "ping"
    <3>1. PICK d : d = waiters[k + 1]  OBVIOUS
    <3>2. d \in DOMAIN req /\ req[d].at = "queued" /\ d.kind = "ping" /\ d # h /\ d = waiters'[k]
      BY <1>1, <2>4, <2>12, <3>1
    <3> QED  BY <2>8, <3>2
  <2>14. ASSUME NEW k \in DOMAIN waiters', NEW l \in DOMAIN waiters', waiters'[k] = waiters'[l]  PROVE k = l
    <3>1. k + 1 = l + 1 /\ k \in Nat /\ l \in Nat  BY <1>1, <2>12, <2>14
    <3> QED  BY <3>1
  <2>15. WaitQueue'  BY <2>12, <2>13, <2>14 DEF WaitQueue
  <2>16. \A d \in DOMAIN req' : Stays(d)  BY <2>2, <2>5, <2>8 DEF Stays
  <2> QED  BY <2>8, <2>11, <2>15, <2>16
<1> QED  BY <1>6, <1>7, <1>8

\* AsyncSemaphore.acquire(): a ping takes a permit or waits for one.
LEMMA Arrives ==
  ASSUME CallsInv, part = "location", NEW c, Location!Arrive(c)
  PROVE  CallsInv'
<1>0. /\ c \in todo /\ c \in mix.calls /\ c.kind \in {"manual", "ping"} /\ todo' = todo \ {c}
      /\ UNCHANGED <<db, points, now, mix>> /\ now \in Nat
  BY DEF Location!Arrive, CallsInv
<1>1. /\ waiters \in Seq(mix.calls) /\ DOMAIN waiters = 1 .. Len(waiters) /\ Len(waiters) \in Nat
      /\ \A k \in DOMAIN waiters : waiters[k] \in DOMAIN req /\ req[waiters[k]].at = "queued" /\ waiters[k].kind = "ping"
      /\ \A k, l \in DOMAIN waiters : waiters[k] = waiters[l] => k = l
  BY DEF CallsInv, WaitQueue
<1>2. free \in Nat /\ free + Cardinality(Pings) = mix.permits  BY DEF CallsInv, PermitCount
<1>3. IsFiniteSet(Pings) /\ Cardinality(Pings) \in Nat /\ mix.permits \in Nat
  BY PingsFinite, FS_CardinalityType, LocationAssumption DEF CallsInv
<1>4. c \notin DOMAIN req /\ \A p \in points : p.by # c  BY <1>0 DEF CallsInv, CallRight, PointRight
<1>5. PICK s : \/ s = Location!New /\ ~(c.kind = "ping" /\ free = 0)
               \/ s = [Location!New EXCEPT !.at = "queued"] /\ c.kind = "ping" /\ free = 0
  BY Zenon
<1>6. /\ DOMAIN s = {"at", "user", "tries"}
      /\ s.at = IF c.kind = "ping" /\ free = 0 THEN "queued" ELSE "ready"
  BY <1>5 DEF Location!New
<1>7. req' = Location!With(req, c, s)  BY <1>5 DEF Location!Arrive
<1>8. DOMAIN req' = DOMAIN req \cup {c} /\ req'[c] = s /\ \A d \in DOMAIN req : req'[d] = req[d]
  BY <1>4, <1>7 DEF Location!With
<1>9. \A d \in DOMAIN req' : d # c => Stays(d)  BY <1>8 DEF Stays
<1>10. CallRight(c)'  BY <1>0, <1>6, <1>8 DEF CallRight
<1>11. WaitQueue'
  <2>1. CASE c.kind = "ping" /\ free = 0
    <3>1. waiters' = Append(waiters, c)  BY <2>1 DEF Location!Arrive
    <3>2. /\ waiters' \in Seq(mix.calls) /\ DOMAIN waiters' = 1 .. (Len(waiters) + 1)
          /\ waiters'[Len(waiters) + 1] = c /\ \A k \in DOMAIN waiters : waiters'[k] = waiters[k]
      BY <1>0, <1>1, <3>1
    <3>3. \A k \in DOMAIN waiters' : k \in DOMAIN waiters \/ k = Len(waiters) + 1  BY <1>1, <3>2
    <3>4. \A k \in DOMAIN waiters' : waiters'[k] \in DOMAIN req' /\ req'[waiters'[k]].at = "queued" /\ waiters'[k].kind = "ping"
      BY <1>1, <1>6, <1>8, <2>1, <3>2, <3>3
    <3>5. \A k \in DOMAIN waiters : waiters'[k] # c  BY <1>1, <1>4, <3>2
    <3>6. \A k, l \in DOMAIN waiters' : waiters'[k] = waiters'[l] => k = l  BY <1>1, <3>2, <3>3, <3>5
    <3> QED  BY <1>0, <3>2, <3>4, <3>6 DEF WaitQueue
  <2>2. CASE ~(c.kind = "ping" /\ free = 0)
    <3>1. waiters' = waiters  BY <2>2 DEF Location!Arrive
    <3> QED  BY <1>0, <1>1, <1>8, <3>1 DEF WaitQueue
  <2> QED  BY <2>1, <2>2
<1>12. PermitCount'
  <2>1. CASE c.kind = "ping" /\ free # 0
    <3>1. free' = free - 1  BY <2>1 DEF Location!Arrive
    <3>2. Pings' = Pings \cup {c} /\ c \notin Pings  BY <1>4, <1>6, <1>8, <2>1 DEF Pings
    <3>3. Cardinality(Pings \cup {c}) = Cardinality(Pings) + 1  BY <1>3, <3>2, FS_AddElement
    <3> QED  BY <1>0, <1>2, <1>3, <2>1, <3>1, <3>2, <3>3 DEF PermitCount
  <2>2. CASE ~(c.kind = "ping" /\ free # 0)
    <3>1. free' = free  BY <2>2 DEF Location!Arrive
    <3>2. Pings' = Pings  BY <1>4, <1>6, <1>8, <2>2 DEF Pings
    <3> QED  BY <1>0, <1>2, <3>1, <3>2 DEF PermitCount
  <2> QED  BY <2>1, <2>2
<1>13. s.at # "point" /\ todo' \subseteq todo /\ RowsStay /\ now <= now' /\ now' \in Nat  BY <1>0, <1>6 DEF RowsStay
<1> QED  BY <1>0, <1>4, <1>8, <1>9, <1>10, <1>11, <1>12, <1>13, CallSteps

-----------------------------------------------------------------------------
(* The points of a load's history: steps.                                  *)

\* A call ends, and nothing else but TMS and the failures changes.
LEMMA CallEnds ==
  ASSUME CallsInv, part = "location", NEW c \in DOMAIN req, req[c].at # "queued", Location!Finish(c),
         UNCHANGED <<db, points, now, todo, mix>>
  PROVE  CallsInv'
<1>1. /\ WaitQueue' /\ PermitCount' /\ c \notin DOMAIN req' /\ \A d \in DOMAIN req' : Stays(d)  BY Ends
<1>2. now \in Nat /\ now <= now' /\ now' \in Nat /\ RowsStay /\ todo' \subseteq todo  BY DEF CallsInv, RowsStay
<1> QED  BY <1>1, <1>2, CallSteps

\* A call goes on, with nothing but its own record changed, and will not make a point.
LEMMA CallGoes ==
  ASSUME CallsInv, part = "location", NEW c \in DOMAIN req, req[c].at # "queued",
         NEW s, req' = [req EXCEPT ![c] = s], s.at = "send", DOMAIN s = DOMAIN req[c],
         \A p \in points : p.by = c => req[c].at = "send",
         UNCHANGED <<db, points, free, waiters, now, todo, mix>>
  PROVE  CallsInv'
<1>1. /\ WaitQueue' /\ PermitCount' /\ DOMAIN req' = DOMAIN req /\ req'[c] = s
      /\ \A d \in DOMAIN req' : d # c => Stays(d)
  BY GoesOn, Zenon
<1>2. now \in Nat /\ now <= now' /\ now' \in Nat /\ RowsStay /\ todo' \subseteq todo  BY DEF CallsInv, RowsStay
<1>3. CallRight(c)'  BY <1>1 DEF CallsInv, CallRight
<1> QED  BY <1>1, <1>2, <1>3, CallSteps

\* updateUserLocation() writes the row, and keeps what it wrote.
LEMMA SavesRow == ASSUME CallsInv, part = "location", NEW c, Location!Save(c)  PROVE CallsInv'
<1>1. PICK u : u = Location!Patched(db[c.row], c)  OBVIOUS
<1>2. PICK s : s = [req[c] EXCEPT !.at = "saved", !.user = u]  OBVIOUS
<1>3. /\ c \in DOMAIN req /\ req[c].at = "ready"
      /\ db' = [db EXCEPT ![c.row] = u] /\ req' = [req EXCEPT ![c] = s]
      /\ UNCHANGED <<points, free, waiters, now, todo, mix>>
  BY <1>1, <1>2, Zenon DEF Location!Save
<1>4. c \in mix.calls /\ c.kind \in {"manual", "ping"} /\ c \notin todo /\ DOMAIN req[c] = {"at", "user", "tries"}
  BY <1>3 DEF CallsInv, CallRight
<1>5. c.row \in DOMAIN db /\ "seen" \in DOMAIN db[c.row] /\ now \in Nat
  BY <1>4, LocationAssumption DEF CallsInv
<1>6. DOMAIN u = DOMAIN db[c.row] /\ u.seen = now  BY <1>1, <1>5 DEF Location!Patched
<1>7. DOMAIN s = {"at", "user", "tries"} /\ s.at = "saved" /\ s.user = u  BY <1>2, <1>4
<1>8. RowsStay  BY <1>3, <1>6 DEF RowsStay
<1>9. /\ WaitQueue' /\ PermitCount' /\ DOMAIN req' = DOMAIN req /\ req'[c] = s
      /\ \A d \in DOMAIN req' : d # c => Stays(d)
  BY <1>3, <1>7, GoesOn, Zenon
<1>10. CallRight(c)'  BY <1>3, <1>4, <1>5, <1>6, <1>7, <1>9 DEF CallRight
<1>11. \A p \in points : p.by # c  BY <1>3 DEF CallsInv, PointRight
<1>12. now <= now' /\ now' \in Nat /\ todo' \subseteq todo  BY <1>3, <1>5
<1> QED  BY <1>3, <1>7, <1>8, <1>9, <1>10, <1>11, <1>12, CallSteps

\* maybeCreateDriverTrackingPoint() reads the latest point, and goes on when it is long past.
LEMMA LooksBack == ASSUME CallsInv, part = "location", NEW c, Location!Look(c)  PROVE CallsInv'
<1>1. c \in DOMAIN req /\ req[c].at = "saved" /\ UNCHANGED <<db, points, now, todo, mix>>  BY DEF Location!Look
<1>2. /\ c \in mix.calls /\ c \notin todo /\ c.kind \in {"manual", "ping"} /\ DOMAIN req[c] = {"at", "user", "tries"}
      /\ req[c].user.seen \in Nat /\ req[c].user.seen <= now
  BY <1>1 DEF CallsInv, CallRight
<1>3. \A p \in points : p.by # c  BY <1>1 DEF CallsInv, PointRight
<1>4. CASE Location!Saved(c)
  <2>1. CASE c.kind = "ping"
    <3>1. Location!Finish(c)  BY <1>4, <2>1 DEF Location!Saved
    <3> QED  BY <1>1, <3>1, CallEnds
  <2>2. CASE c.kind # "ping"
    <3>1. PICK s : s = [req[c] EXCEPT !.at = "send"]  BY Zenon
    <3>2. req' = [req EXCEPT ![c] = s] /\ UNCHANGED <<free, waiters>>  BY <1>4, <2>2, <3>1 DEF Location!Saved
    <3>3. s.at = "send" /\ DOMAIN s = DOMAIN req[c]  BY <1>2, <3>1
    <3> QED  BY <1>1, <1>3, <3>2, <3>3, CallGoes, Zenon
  <2> QED  BY <2>1, <2>2
<1>5. CASE ~Location!Saved(c)
  <2>1. PICK u : u = req[c].user  OBVIOUS
  <2>2. PICK s : s = [req[c] EXCEPT !.at = "point"]  BY Zenon
  <2>3. /\ Location!Due(u, Location!Driver(c))
        /\ req' = [req EXCEPT ![c] = s] /\ UNCHANGED <<free, waiters>>
    BY <1>5, <2>1, <2>2 DEF Location!Look
  <2>4. DOMAIN s = {"at", "user", "tries"} /\ s.at = "point" /\ s.user = u  BY <1>2, <2>1, <2>2
  <2>5. /\ WaitQueue' /\ PermitCount' /\ DOMAIN req' = DOMAIN req /\ req'[c] = s
        /\ \A d \in DOMAIN req' : d # c => Stays(d)
    BY <1>1, <2>3, <2>4, GoesOn, Zenon
  <2>6. CallRight(c)'  BY <1>1, <1>2, <2>1, <2>4, <2>5 DEF CallRight
  <2>7. ASSUME NEW p \in points, p.id = Location!Driver(c)  PROVE req'[c].user.seen >= p.time + Interval
    <3>1. PICK q \in Location!Latest(p.id) : q.time >= p.time  BY LatestLater
    <3>2. q \in points /\ u.seen >= q.time + Interval  BY <2>3, <2>7, <3>1 DEF Location!Due, Location!Latest
    <3>3. p.time \in Nat /\ q.time \in Nat /\ u.seen \in Nat /\ Interval \in Nat
      BY <1>2, <2>1, <3>2, InstancesAssumption DEF CallsInv, PointRight
    <3>4. u.seen >= p.time + Interval  BY <3>1, <3>2, <3>3
    <3> QED  BY <2>4, <2>5, <3>4
  <2>8. now \in Nat /\ now <= now' /\ now' \in Nat /\ RowsStay /\ todo' \subseteq todo  BY <1>1 DEF CallsInv, RowsStay
  <2> QED  BY <1>1, <1>3, <2>5, <2>6, <2>7, <2>8, CallSteps
<1> QED  BY <1>4, <1>5

\* The point is written.
LEMMA AddsPoint == ASSUME CallsInv, part = "location", NEW c, Location!AddPoint(c)  PROVE CallsInv'
<1>1. /\ c \in DOMAIN req /\ req[c].at = "point" /\ Location!Saved(c) /\ UNCHANGED <<db, now, todo, mix>>
  BY DEF Location!AddPoint
<1>2. PICK n : n = [id |-> Location!Driver(c), time |-> req[c].user.seen, place |-> req[c].user.place, by |-> c]  BY Zenon
<1>3. points' = points \cup {n} /\ n.id = Location!Driver(c) /\ n.time = req[c].user.seen /\ n.by = c
  BY <1>2 DEF Location!AddPoint
<1>4. /\ c \in mix.calls /\ c \notin todo /\ c.kind \in {"manual", "ping"} /\ DOMAIN req[c] = {"at", "user", "tries"}
      /\ n.time \in Nat /\ n.time <= now /\ now \in Nat
  BY <1>1, <1>3 DEF CallsInv, CallRight
<1>5. \A p \in points : p.by # c  BY <1>1 DEF CallsInv, PointRight
<1>6. /\ WaitQueue' /\ PermitCount'
      /\ \A d \in DOMAIN req' : d # c => Stays(d)
      /\ c \in DOMAIN req' => CallRight(c)' /\ req'[c].at = "send"
  <2>1. CASE c.kind = "ping"
    <3>1. Location!Finish(c)  BY <1>1, <2>1 DEF Location!Saved
    <3> QED  BY <1>1, <3>1, Ends
  <2>2. CASE c.kind # "ping"
    <3>1. PICK s : s = [req[c] EXCEPT !.at = "send"]  BY Zenon
    <3>2. req' = [req EXCEPT ![c] = s] /\ UNCHANGED <<free, waiters>>  BY <1>1, <2>2, <3>1 DEF Location!Saved
    <3>3. s.at = "send" /\ DOMAIN s = {"at", "user", "tries"}  BY <1>4, <3>1
    <3>4. /\ WaitQueue' /\ PermitCount' /\ DOMAIN req' = DOMAIN req /\ req'[c] = s
          /\ \A d \in DOMAIN req' : d # c => Stays(d)
      BY <1>1, <3>2, <3>3, GoesOn, Zenon
    <3> QED  BY <1>1, <1>4, <3>3, <3>4 DEF CallRight
  <2> QED  BY <2>1, <2>2
<1>7. now <= now' /\ now' \in Nat /\ RowsStay /\ todo' \subseteq todo  BY <1>1, <1>4 DEF RowsStay
<1>8. /\ \A d \in DOMAIN req' : CallRight(d)'
      /\ \A d \in DOMAIN req' : d # c => \A p \in points : p.by = d => req'[d].at = "send"
      /\ \A d \in DOMAIN req' : d # c => \A e, t : d \in Making(e, t)' => d \in Making(e, t)
  BY <1>1, <1>6, <1>7, StaysRight
<1>9. ASSUME NEW p \in points'  PROVE PointRight(p)'
  <2>1. CASE p = n  BY <1>1, <1>3, <1>4, <1>6, <2>1 DEF PointRight
  <2>2. CASE p \in points
    <3>1. p.by \in mix.calls /\ p.by \notin todo /\ p.time \in Nat /\ p.time <= now /\ p.by # c
      BY <1>5, <2>2 DEF CallsInv, PointRight
    <3> QED  BY <1>1, <1>8, <2>2, <3>1 DEF PointRight
  <2> QED  BY <1>3, <1>9, <2>1, <2>2
<1>10. \A p, q \in points' : p.by = q.by => p = q  BY <1>3, <1>5 DEF CallsInv
<1>11. ASSUME NEW e, NEW t \in Nat  PROVE Made(e, t)' \cup Making(e, t)' \subseteq Made(e, t) \cup Making(e, t)
  <2>1. ASSUME NEW d \in Made(e, t)'  PROVE d \in Made(e, t) \cup Making(e, t)
    <3>1. PICK p \in points' : p.id = e /\ p.time \in Near(t) /\ d = p.by  BY <2>1 DEF Made, Near
    <3>2. CASE p \in points  BY <3>1, <3>2 DEF Made
    <3>3. CASE p = n  BY <1>1, <1>3, <3>1, <3>3 DEF Making
    <3> QED  BY <1>3, <3>1, <3>2, <3>3
  <2>2. ASSUME NEW d \in Making(e, t)'  PROVE d \in Making(e, t)
    <3>1. d \in DOMAIN req' /\ req'[d].at = "point"  BY <2>2 DEF Making
    <3>2. d # c  BY <1>6, <3>1
    <3> QED  BY <1>8, <2>2, <3>1, <3>2
  <2> QED  BY <2>1, <2>2
<1> QED  BY <1>1, <1>6, <1>7, <1>8, <1>9, <1>10, <1>11, CallsWrite

\* A step that leaves the calls, the semaphore and the points alone.
LEMMA CallsStay ==
  ASSUME CallsInv, part = "location", UNCHANGED <<points, req, free, waiters, mix>>, todo' \subseteq todo,
         now' = now \/ now' = now + 1, RowsStay
  PROVE  CallsInv'
<1>1. now \in Nat /\ now' \in Nat /\ now <= now'  BY DEF CallsInv
<1>2. \A c \in DOMAIN req' : Stays(c)  BY DEF Stays
<1>3. WaitQueue' /\ PermitCount'  BY DEF CallsInv, WaitQueue, PermitCount, Pings
<1> QED  BY <1>1, <1>2, <1>3, CallSteps

\* TMS is told, or is not after all.
LEMMA Tells ==
  ASSUME CallsInv, part = "location", NEW c, Location!Refuse(c) \/ Location!Tell(c) \/ Location!TellFails(c)
  PROVE  CallsInv'
<1>1. CASE Location!Refuse(c)
  <2>1. c \in DOMAIN req /\ req[c].at # "queued" /\ Location!Finish(c) /\ UNCHANGED <<db, points, now, todo, mix>>
    BY <1>1 DEF Location!Refuse
  <2> QED  BY <2>1, CallEnds
<1>2. CASE Location!Tell(c)
  <2>1. c \in DOMAIN req /\ req[c].at # "queued" /\ Location!Finish(c) /\ UNCHANGED <<db, points, now, todo, mix>>
    BY <1>2 DEF Location!Tell
  <2> QED  BY <2>1, CallEnds
<1>3. CASE Location!TellFails(c)
  <2>1. c \in DOMAIN req /\ req[c].at = "send" /\ UNCHANGED <<db, points, now, todo, mix>>
    BY <1>3 DEF Location!TellFails
  <2>2. CASE Location!Finish(c)  BY <2>1, <2>2, CallEnds
  <2>3. CASE ~Location!Finish(c)
    <3>1. PICK s : s = [req[c] EXCEPT !.tries = @ + 1]  BY Zenon
    <3>2. req' = [req EXCEPT ![c] = s] /\ UNCHANGED <<free, waiters>>  BY <1>3, <2>3, <3>1 DEF Location!TellFails
    <3>3. "tries" \in DOMAIN req[c] /\ DOMAIN req[c] = {"at", "user", "tries"}  BY <2>1 DEF CallsInv, CallRight
    <3>4. DOMAIN s = DOMAIN req[c] /\ s.at = "send"  BY <2>1, <3>1, <3>3
    <3> QED  BY <2>1, <3>2, <3>4, CallGoes, Zenon
  <2> QED  BY <2>2, <2>3
<1> QED  BY <1>1, <1>2, <1>3

\* Webhooks and accounts write statuses, not times.
LEMMA HooksSave ==
  ASSUME CallsInv, part = "location", NEW c,
         \/ Location!SetInTms(c) \/ Location!HookFind(c) \/ Location!HookSave(c) \/ Location!HookLost(c)
         \/ Location!ChangeStatus(c)
  PROVE  CallsInv'
<1>1. UNCHANGED <<points, req, free, waiters, now, mix>> /\ todo' \subseteq todo
  BY DEF Location!SetInTms, Location!HookFind, Location!HookSave, Location!HookLost, Location!ChangeStatus, Location!server
<1>2. RowsStay
  <2>1. CASE Location!HookSave(c)
    <3>1. PICK r : r = hooks[c].row  OBVIOUS
    <3>2. PICK status, auto : db' = [db EXCEPT ![r].status = status, ![r].auto = auto]  BY <2>1, <3>1, Zenon DEF Location!HookSave
    <3> QED  BY <3>2 DEF RowsStay
  <2>2. CASE Location!ChangeStatus(c)
    <3>1. db' = [db EXCEPT ![c.row].active = c.active]  BY <2>2 DEF Location!ChangeStatus
    <3> QED  BY <3>1 DEF RowsStay
  <2>3. CASE Location!SetInTms(c) \/ Location!HookFind(c) \/ Location!HookLost(c)
    <3>1. db' = db  BY <2>3 DEF Location!SetInTms, Location!HookFind, Location!HookLost, Location!server
    <3> QED  BY <3>1 DEF RowsStay
  <2> QED  BY <2>1, <2>2, <2>3
<1> QED  BY <1>1, <1>2, CallsStay

\* The process that serves the calls ends, and has all its permits when it comes back.
LEMMA CrashLoses == ASSUME CallsInv, part = "location", NEW c, Location!Crash(c)  PROVE CallsInv'
<1>1. todo' \subseteq todo /\ UNCHANGED <<db, points, now, mix>> /\ RowsStay  BY DEF Location!Crash, RowsStay
<1>2. CASE c.instance # One
  <2>1. UNCHANGED <<req, free, waiters>>  BY <1>2 DEF Location!Crash
  <2> QED  BY <1>1, <2>1, CallsStay
<1>3. CASE c.instance = One
  <2>1. req' = <<>> /\ waiters' = <<>> /\ free' = mix.permits  BY <1>3 DEF Location!Crash
  <2>2. DOMAIN req' = {} /\ DOMAIN waiters' = {} /\ Pings' = {}  BY <2>1 DEF Pings
  <2>3. WaitQueue'
    <3>1. waiters' \in Seq(mix'.calls)  BY <2>1
    <3> QED  BY <2>2, <3>1 DEF WaitQueue
  <2>4. mix.permits \in Nat  BY LocationAssumption DEF CallsInv
  <2>5. Cardinality(Pings') = 0  BY <2>2, FS_EmptySet
  <2>6. PermitCount'  BY <1>1, <2>1, <2>4, <2>5 DEF PermitCount
  <2>7. now' \in Nat /\ now <= now'  BY <1>1 DEF CallsInv
  <2> QED  BY <1>1, <2>2, <2>3, <2>6, <2>7, CallSteps
<1> QED  BY <1>2, <1>3

-----------------------------------------------------------------------------
(* The whereabouts of drivers: the theorem.                                *)

\* No call has come and no point is there to begin with.
LEMMA CallsInit == Init => CallsInv
<1> SUFFICES ASSUME Init, part = "location"  PROVE CallsInv
  BY DEF CallsInv
<1>1. /\ mix \in LocationMixes /\ db = mix.db /\ points = {} /\ req = <<>> /\ free = mix.permits /\ waiters = <<>>
      /\ now = 0 /\ todo = mix.calls
  BY DEF Init, Location!Init
<1>2. DOMAIN req = {} /\ DOMAIN waiters = {} /\ waiters \in Seq(mix.calls)  BY <1>1
<1>3. /\ IsFiniteSet(mix.calls) /\ mix.permits \in Nat
      /\ \A r \in DOMAIN mix.db : "seen" \in DOMAIN mix.db[r]
  BY <1>1, LocationAssumption
<1>4. Cardinality({}) = 0  BY FS_EmptySet
<1>5. Pings = {}  BY <1>2 DEF Pings
<1>6. PermitCount  BY <1>1, <1>3, <1>4, <1>5 DEF PermitCount
<1>7. Manuals \subseteq mix.calls  BY DEF Manuals
<1>8. Cardinality(Manuals) \in Nat
  <2>1. IsFiniteSet(Manuals)  BY <1>3, <1>7, FS_Subset
  <2> QED  BY <2>1, FS_CardinalityType
<1>9. ASSUME NEW e, NEW t \in Nat  PROVE Spaced(e, t)
  <2>1. Made(e, t) \cup Making(e, t) = {}  BY <1>1, <1>2 DEF Made, Making
  <2>2. 0 <= mix.permits + Cardinality(Manuals)  BY ONLY <1>3, <1>8
  <2> QED  BY ONLY <1>4, <2>1, <2>2, Zenon DEF Spaced
<1>10. WaitQueue  BY <1>2 DEF WaitQueue
<1> QED  BY <1>1, <1>2, <1>3, <1>6, <1>9, <1>10 DEF CallsInv

\* Every step keeps the points apart.
LEMMA CallsNext == CallsInv /\ [Next]_vars => CallsInv'
<1> SUFFICES ASSUME CallsInv, [Next]_vars  PROVE CallsInv'
  OBVIOUS
<1>1. CASE LocationStep
  <2>1. part = "location" /\ Location!Next  BY <1>1 DEF LocationStep, InLocation
  <2>2. CASE \E c \in Location!Calls : Location!Arrive(c) \/ Location!Crash(c)
    BY <2>1, <2>2, Arrives, CrashLoses
  <2>3. CASE \E c \in Location!Calls : Location!Request(c)
    BY <2>1, <2>3, Tells, SavesRow, LooksBack, AddsPoint DEF Location!Request
  <2>4. CASE \E c \in Location!Calls : \/ Location!SetInTms(c) \/ Location!Hook(c) \/ Location!HookLost(c)
                                       \/ Location!ChangeStatus(c)
    BY <2>1, <2>4, HooksSave DEF Location!Hook
  <2>5. CASE \/ \E i \in Instances, c \in Conns : Location!Begin(i, c)
             \/ \E i \in Instances : Location!CoolDown(i)
             \/ \E r \in DOMAIN run : Location!Job(r)
             \/ \E m \in late : Location!PostLands(m)
    <3>1. UNCHANGED <<db, points, req, free, waiters, now, todo, mix>>
      BY <2>5, Zenon DEF Location!Begin, Location!LocationTick, Location!AppTick, Location!Start, Location!CoolDown,
        Location!Job, Location!ReadDrivers, Location!SendChunk, Location!SendChunkFails, Location!Unlock,
        Location!PostLands, Location!server
    <3>2. RowsStay  BY <3>1 DEF RowsStay
    <3> QED  BY <2>1, <3>1, <3>2, CallsStay
  <2>6. CASE Location!Tick
    <3>1. UNCHANGED <<db, points, req, free, waiters, todo, mix>> /\ now' = now + 1
      BY <2>6 DEF Location!Tick, Location!server
    <3>2. RowsStay  BY <3>1 DEF RowsStay
    <3> QED  BY <2>1, <3>1, <3>2, CallsStay
  <2> QED  BY <2>1, <2>2, <2>3, <2>4, <2>5, <2>6 DEF Location!Next
<1>2. CASE DirectoryStep \/ NoticeStep \/ TemplateStep \/ BoardStep
  <2>1. part' # "location"
    BY <1>2 DEF DirectoryStep, NoticeStep, TemplateStep, BoardStep, InDirectory, InNotices, InTemplates, InBoard
  <2> QED  BY <2>1 DEF CallsInv
<1>3. CASE UNCHANGED vars
  <2>1. UNCHANGED <<part, db, points, req, free, waiters, now, todo, mix>>  BY <1>3 DEF vars, locationVars
  <2>2. RowsStay  BY <2>1 DEF RowsStay
  <2>3. CASE part = "location"  BY <2>1, <2>2, <2>3, CallsStay
  <2>4. CASE part # "location"  BY <2>1, <2>4 DEF CallsInv
  <2> QED  BY <2>3, <2>4
<1> QED  BY <1>1, <1>2, <1>3 DEF Next

\* A job of the location service never runs in two instances at once, however its locks are left
\* behind, and no more points of a load come in one interval than calls can look at once
\* (tms-location-batch.scheduler.ts, updateUserLocation() of users.service.ts), whatever the calls,
\* the pools, the permits and the interval.
THEOREM LocationRight == Spec => []LocationKept
<1>1. LocksInv /\ CallsInv => LocationKept
  <2> SUFFICES ASSUME LocksInv, CallsInv, part = "location"
               PROVE  Location!InstancesExclude /\ Location!PointsSpaced
    BY DEF LocationKept
  <2>1. Location!InstancesExclude  BY RunsTogether DEF Location!InstancesExclude
  <2>2. ASSUME NEW p \in points
        PROVE  Cardinality({q \in points : q.id = p.id /\ q.time \in p.time .. (p.time + Interval - 1)})
                 <= mix.permits + Cardinality({c \in Location!Calls : c.kind = "manual"})
    <3>1. PICK P : P = {q \in points : q.id = p.id /\ q.time \in Near(p.time)}  BY Zenon
    <3>2. PICK B : B = Made(p.id, p.time) \cup Making(p.id, p.time)  BY Zenon
    <3>3. p.time \in Nat /\ Spaced(p.id, p.time)  BY DEF CallsInv, PointRight
    <3>4. B \subseteq mix.calls  BY <3>2 DEF CallsInv, Made, Making, CallRight, PointRight
    <3>5. IsFiniteSet(mix.calls) /\ mix.permits \in Nat  BY LocationAssumption DEF CallsInv
    <3>6. IsFiniteSet(B)  BY <3>4, <3>5, FS_Subset
    <3>7. \A q \in P : q.by \in B  BY <3>1, <3>2 DEF Made
    <3>8. \A q, r \in P : q.by = r.by => q = r  BY <3>1 DEF CallsInv
    <3>9. Cardinality(P) <= Cardinality(B) /\ IsFiniteSet(P)
      <4>1. [q \in P |-> q.by] \in Injection(P, B)  BY <3>7, <3>8 DEF Injection, IsInjective
      <4> QED  BY <3>6, <4>1, FS_Injection
    <3>10. Manuals \subseteq mix.calls  BY DEF Manuals
    <3>11. IsFiniteSet(Manuals)  BY <3>5, <3>10, FS_Subset
    <3>12. Cardinality(P) \in Nat /\ Cardinality(B) \in Nat /\ Cardinality(Manuals) \in Nat
      BY <3>6, <3>9, <3>11, FS_CardinalityType
    <3>13. Cardinality(B) <= mix.permits + Cardinality(Manuals)  BY <3>2, <3>3 DEF Spaced
    <3>14. Cardinality(P) <= mix.permits + Cardinality(Manuals)  BY <3>5, <3>9, <3>12, <3>13
    <3>15. {c \in Location!Calls : c.kind = "manual"} = Manuals  BY DEF Manuals, Location!Calls
    <3> QED  BY <3>1, <3>14, <3>15, Zenon DEF Near
  <2>3. \A S : Location!Cardinality(S) = Cardinality(S)  BY DEF Location!Cardinality, Cardinality
  <2>4. Location!PointsSpaced  BY <2>2, <2>3 DEF Location!PointsSpaced
  <2> QED  BY <2>1, <2>4
<1> QED  BY <1>1, LocksInit, LocksNext, CallsInit, CallsNext, PTL DEF Spec
-----------------------------------------------------------------------------
(* The status of a driver: the invariant.                                  *)

\* Who is about to write the status of e, and the statuses on their way to TMS.
Telling(e) ==
  {c \in DOMAIN req : Location!Driver(c) = e /\ req[c].at \in {"saved", "point", "send"} /\ c.kind # "ping"}
Sending(e) == {q \in DOMAIN run : q[1] = "location" /\ e \in DOMAIN run[q].items}
Hooked(e) == {c \in DOMAIN hooks : c.id = e}
Delayed(e) == {m \in late : m.id = e /\ "status" \in DOMAIN m.item}
Carried(e) ==
  {req[c].user.status : c \in Telling(e)} \cup {run[q].items[e].status : q \in Sending(e)} \cup {m.item.status : m \in Delayed(e)}

\* What is on its way is what the database says, unless TMS says something else itself, and
\* TMS shows what the database says as long as no call is to tell it.
StatusKept(e) ==
  /\ \A r, q \in Location!RowsOf(e) : r = q
  /\ Hooked(e) # {} => Carried(e) = {}
  /\ \A c \in Hooked(e) : c.status = tms[e].status
  /\ \A r \in Location!RowsOf(e) :
       /\ Carried(e) \subseteq {db[r].status}
       /\ Hooked(e) = {} /\ Telling(e) = {} => tms[e].status = db[r].status

Columns == {"status", "auto", "active", "place", "seen"}
Shown(t) == DOMAIN t = Location!Ids /\ \A e \in Location!Ids : "status" \in DOMAIN t[e]
RunRight(q) ==
  /\ q[1] \in Jobs /\ DOMAIN run[q] = {"at", "items", "tries"}
  /\ \A e \in DOMAIN run[q].items : "status" \in DOMAIN run[q].items[e] <=> q[1] = "location"
StatusTypes ==
  /\ \A r \in DOMAIN db : DOMAIN db[r] = Columns
  /\ Shown(tms)
  /\ \A c \in DOMAIN req : req[c].at = "send" => c.kind # "ping"
  /\ \A c \in DOMAIN hooks : hooks[c].row # NULL => hooks[c].row \in Location!RowsOf(c.id)
  /\ \A q \in DOMAIN run : RunRight(q)

StatusInv == part = "location" => StatusTypes /\ \A e \in Location!Ids \ torn : StatusKept(e)

-----------------------------------------------------------------------------
(* The status of a driver: lemmas.                                         *)

\* TMS takes what is posted field by field.
LEMMA ShowStatus ==
  ASSUME NEW t, NEW f, NEW e \in DOMAIN t, "status" \in DOMAIN t[e]
  PROVE  /\ "status" \in DOMAIN Location!Show(t, f)[e]
         /\ Location!Show(t, f)[e].status = IF e \in DOMAIN f /\ "status" \in DOMAIN f[e] THEN f[e].status ELSE t[e].status
<1>1. CASE e \in DOMAIN f  BY <1>1 DEF Location!Show, Location!Over
<1>2. CASE e \notin DOMAIN f  BY <1>2 DEF Location!Show
<1> QED  BY <1>1, <1>2

\* Whoever is not about to write the status of e carries none.
LEMMA IdleCarries ==
  ASSUME NEW e, ~Location!Busy(e)
  PROVE  Telling(e) = {} /\ Sending(e) = {} /\ Hooked(e) = {} /\ Delayed(e) = {} /\ Carried(e) = {}
<1>1. Telling(e) = {} /\ Sending(e) = {} /\ Hooked(e) = {} /\ Delayed(e) = {}
  BY DEF Location!Busy, Telling, Sending, Hooked, Delayed
<1> QED  BY <1>1 DEF Carried

\* The ids whose statuses are kept are marked once and for all.
LEMMA MarksBusy ==
  ASSUME NEW S, Location!Tear(S), NEW e, e \notin torn'
  PROVE  e \notin torn /\ (e \in S => ~Location!Busy(e))
BY DEF Location!Tear

\* What is carried after a step was carried before it.
CarriesLess(e) ==
  /\ \A c \in DOMAIN req' : c \in Telling(e)' => c \in Telling(e) /\ req'[c].user.status = req[c].user.status
  /\ \A q \in DOMAIN run' : q \in Sending(e)' => q \in Sending(e) /\ run'[q].items[e].status = run[q].items[e].status
  /\ \A m \in late' : m \in Delayed(e)' => m.item.status \in Carried(e)

LEMMA LessCarried == ASSUME NEW e, CarriesLess(e)  PROVE Carried(e)' \subseteq Carried(e)
<1>1. ASSUME NEW x \in Carried(e)'  PROVE x \in Carried(e)
  <2>1. CASE \E c \in Telling(e)' : x = req'[c].user.status
    <3>1. PICK c \in Telling(e)' : x = req'[c].user.status  BY <2>1
    <3>2. c \in DOMAIN req'  BY <3>1 DEF Telling
    <3>3. c \in Telling(e) /\ x = req[c].user.status  BY <3>1, <3>2 DEF CarriesLess
    <3> QED  BY <3>3 DEF Carried
  <2>2. CASE \E q \in Sending(e)' : x = run'[q].items[e].status
    <3>1. PICK q \in Sending(e)' : x = run'[q].items[e].status  BY <2>2
    <3>2. q \in DOMAIN run'  BY <3>1 DEF Sending
    <3>3. q \in Sending(e) /\ x = run[q].items[e].status  BY <3>1, <3>2 DEF CarriesLess
    <3> QED  BY <3>3 DEF Carried
  <2>3. CASE \E m \in Delayed(e)' : x = m.item.status
    <3>1. PICK m \in Delayed(e)' : x = m.item.status  BY <2>3
    <3>2. m \in late'  BY <3>1 DEF Delayed
    <3> QED  BY <3>1, <3>2 DEF CarriesLess
  <2> QED  BY <1>1, <2>1, <2>2, <2>3 DEF Carried
<1> QED  BY <1>1

\* The status of e is kept when the database and the webhooks stay, and TMS shows what it
\* showed or what was on its way.
LEMMA StaysKept ==
  ASSUME NEW e, StatusKept(e), Carried(e)' \subseteq Carried(e), Hooked(e)' = Hooked(e),
         mix' = mix, DOMAIN db' = DOMAIN db,
         \A r \in Location!RowsOf(e) : db'[r].status = db[r].status,
         \/ tms'[e].status = tms[e].status /\ (Telling(e)' = {} => Telling(e) = {})
         \/ tms'[e].status \in Carried(e)
  PROVE  StatusKept(e)'
<1>1. Location!RowsOf(e)' = Location!RowsOf(e)  BY DEF Location!RowsOf
<1>2. \A r, q \in Location!RowsOf(e)' : r = q  BY <1>1 DEF StatusKept
<1>3. Hooked(e)' # {} => Carried(e)' = {}  BY DEF StatusKept
<1>4. \A c \in Hooked(e)' : c.status = tms'[e].status  BY DEF StatusKept
<1>5. ASSUME NEW r \in Location!RowsOf(e)
      PROVE  /\ Carried(e)' \subseteq {db'[r].status}
             /\ Hooked(e)' = {} /\ Telling(e)' = {} => tms'[e].status = db'[r].status
  BY <1>5 DEF StatusKept
<1> QED  BY <1>1, <1>2, <1>3, <1>4, <1>5 DEF StatusKept

-----------------------------------------------------------------------------
(* The status of a driver: calls.                                          *)

\* A call has the status it wrote from then on until it has told TMS.
TellingAt == {"saved", "point", "send"}

\* A call that goes on with what it wrote, and does not begin to tell TMS.
CallSame(c) ==
  /\ c \in DOMAIN req /\ req'[c].user = req[c].user
  /\ req'[c].at \in TellingAt => req[c].at \in TellingAt
  /\ req'[c].at = "send" => c.kind # "ping"

\* A call that a step leaves alone is one.
LEMMA StaysSame ==
  ASSUME CallsInv, StatusInv, part = "location", NEW c, Stays(c)
  PROVE  CallSame(c)
<1>1. DOMAIN req[c] = {"at", "user", "tries"} /\ c \in DOMAIN req  BY DEF CallsInv, CallRight, Stays
<1>2. req[c].at = "send" => c.kind # "ping"  BY <1>1 DEF StatusInv, StatusTypes
<1>3. CASE req'[c] = req[c]  BY <1>1, <1>2, <1>3 DEF CallSame
<1>4. CASE req[c].at = "queued" /\ req'[c] = [req[c] EXCEPT !.at = "ready"]
  <2>1. req'[c].at = "ready" /\ req'[c].user = req[c].user  BY <1>1, <1>4
  <2> QED  BY <1>1, <2>1 DEF CallSame, TellingAt
<1> QED  BY <1>3, <1>4 DEF Stays

\* Calls other than c that hold a permit go on as they were.
OthersGo(c) ==
  \A d \in DOMAIN req : d # c /\ req[d].at # "queued" => d \in DOMAIN req' /\ req'[d] = req[d]

LEMMA EndsAlone ==
  ASSUME CallsInv, part = "location", NEW c \in DOMAIN req, Location!Finish(c)
  PROVE  OthersGo(c)
<1>1. \A f, x : DOMAIN Location!Without(f, x) = DOMAIN f \ {x} /\ \A y \in DOMAIN f \ {x} : Location!Without(f, x)[y] = f[y]
  BY DEF Location!Without, Location!Restrict
<1>2. CASE req' = Location!Without(req, c)
  <2>1. DOMAIN req' = DOMAIN req \ {c} /\ \A d \in DOMAIN req \ {c} : req'[d] = req[d]  BY <1>1, <1>2
  <2> QED  BY <2>1 DEF OthersGo
<1>3. CASE waiters # <<>> /\ req' = Location!Without([req EXCEPT ![Head(waiters)].at = "ready"], c)
  <2>1. PICK h : h = Head(waiters)  OBVIOUS
  <2>2. PICK g : g = [req EXCEPT ![h].at = "ready"]  BY Zenon
  <2>3. waiters \in Seq(mix.calls) /\ \A k \in DOMAIN waiters : req[waiters[k]].at = "queued"
    BY DEF CallsInv, WaitQueue
  <2>4. 1 \in DOMAIN waiters /\ h = waiters[1]  BY <1>3, <2>1, <2>3
  <2>5. req[h].at = "queued"  BY <2>3, <2>4
  <2>6. DOMAIN g = DOMAIN req /\ \A d \in DOMAIN req : d # h => g[d] = req[d]  BY <2>2
  <2>7. req' = Location!Without(g, c)  BY <1>3, <2>1, <2>2
  <2>8. DOMAIN req' = DOMAIN g \ {c} /\ \A d \in DOMAIN g \ {c} : req'[d] = g[d]  BY <1>1, <2>7
  <2> QED  BY <2>5, <2>6, <2>8 DEF OthersGo
<1> QED  BY <1>2, <1>3 DEF Location!Finish

\* What call c sends is the status it wrote.
LEMMA ItemCarries ==
  ASSUME StatusInv, part = "location", NEW c \in DOMAIN req, req[c].at = "send"
  PROVE  /\ DOMAIN Location!Item(c) = {Location!Driver(c)}
         /\ "status" \in DOMAIN Location!Item(c)[Location!Driver(c)]
         /\ Location!Item(c)[Location!Driver(c)].status \in Carried(Location!Driver(c))
         /\ c \in Telling(Location!Driver(c))
<1>1. PICK e : e = Location!Driver(c)  OBVIOUS
<1>2. PICK i : i = [status |-> req[c].user.status, place |-> req[c].user.place]  BY Zenon
<1>3. Location!Item(c) = Location!With(<<>>, e, i)  BY <1>1, <1>2 DEF Location!Item
<1>4. DOMAIN Location!Item(c) = {e} /\ Location!Item(c)[e] = i  BY <1>3 DEF Location!With
<1>5. c \in Telling(e)  BY <1>1 DEF Telling, StatusInv, StatusTypes
<1>6. i.status = req[c].user.status /\ "status" \in DOMAIN i  BY <1>2
<1>7. i.status \in Carried(e)  BY <1>5, <1>6 DEF Carried
<1> QED  BY <1>1, <1>4, <1>5, <1>6, <1>7

\* A step of a call that is not its write keeps statuses, and so does one that tells TMS.
LEMMA CallKeeps ==
  ASSUME CallsInv, StatusInv, part = "location", NEW c,
         UNCHANGED <<db, run, hooks, mix>>, torn \subseteq torn',
         \A d \in DOMAIN req' : \/ Stays(d)
                                \/ d = c /\ (CallSame(c) \/ req'[c].at \notin TellingAt),
         OthersGo(c),
         \/ /\ tms' = tms
            /\ \/ c \in DOMAIN req' /\ req'[c].at \in TellingAt
               \/ Location!Driver(c) \in torn'
               \/ c \notin Telling(Location!Driver(c))
         \/ tms' = Location!Show(tms, Location!Item(c)) /\ c \in DOMAIN req /\ req[c].at = "send",
         \/ late' = late
         \/ /\ late' = late \cup {[id |-> e, item |-> Location!Item(c)[e]] : e \in DOMAIN Location!Item(c)}
            /\ c \in DOMAIN req /\ req[c].at = "send"
  PROVE  StatusInv'
<1>0. StatusTypes /\ \A e \in Location!Ids \ torn : StatusKept(e)  BY DEF StatusInv
<1>1. \A d \in DOMAIN req' : CallSame(d) \/ (d = c /\ req'[c].at \notin TellingAt)  BY StaysSame
<1>2. /\ Location!Ids' = Location!Ids
      /\ \A d : Location!Driver(d)' = Location!Driver(d)
      /\ \A e : Location!RowsOf(e)' = Location!RowsOf(e)
  BY DEF Location!Ids, Location!Driver, Location!RowsOf, Location!Range
<1>3. Shown(tms)'
  <2>1. CASE tms' = tms  BY <1>0, <1>2, <2>1 DEF Shown, StatusTypes
  <2>2. CASE tms' = Location!Show(tms, Location!Item(c))
    <3>1. DOMAIN tms' = DOMAIN tms  BY <2>2 DEF Location!Show
    <3> QED  BY <1>0, <1>2, <2>2, <3>1, ShowStatus DEF Shown, StatusTypes
  <2> QED  BY <2>1, <2>2
<1>4. \A d \in DOMAIN req' : req'[d].at = "send" => d.kind # "ping"  BY <1>1 DEF CallSame, TellingAt
<1>5. StatusTypes'  BY <1>0, <1>2, <1>3, <1>4 DEF StatusTypes, RunRight
<1>6. ASSUME NEW e \in Location!Ids \ torn'  PROVE StatusKept(e)'
  <2>1. StatusKept(e)  BY <1>0, <1>6
  <2>2. ASSUME NEW d \in DOMAIN req', d \in Telling(e)'
        PROVE  d \in Telling(e) /\ req'[d].user.status = req[d].user.status
    <3>1. Location!Driver(d) = e /\ req'[d].at \in TellingAt /\ d.kind # "ping"  BY <1>2, <2>2 DEF Telling, TellingAt
    <3>2. CallSame(d)  BY <1>1, <3>1
    <3> QED  BY <3>1, <3>2 DEF CallSame, Telling, TellingAt
  <2>3. ASSUME NEW m \in late', m \in Delayed(e)'  PROVE m.item.status \in Carried(e)
    <3>1. m.id = e /\ "status" \in DOMAIN m.item  BY <2>3 DEF Delayed
    <3>2. CASE m \in late
      <4>1. m \in Delayed(e)  BY <3>1, <3>2 DEF Delayed
      <4> QED  BY <4>1 DEF Carried
    <3>3. CASE m \notin late
      <4>1. PICK x \in DOMAIN Location!Item(c) : m = [id |-> x, item |-> Location!Item(c)[x]]  BY <2>3, <3>3
      <4>2. c \in DOMAIN req /\ req[c].at = "send"  BY <2>3, <3>3
      <4>3. x = Location!Driver(c)  BY <4>1, <4>2, ItemCarries, Zenon
      <4>4. m.id = x /\ m.item = Location!Item(c)[x]  BY <4>1
      <4> QED  BY <3>1, <4>2, <4>3, <4>4, ItemCarries, Zenon
    <3> QED  BY <3>2, <3>3
  <2>4. CarriesLess(e)  BY <2>2, <2>3 DEF CarriesLess, Sending
  <2>5. Carried(e)' \subseteq Carried(e)  BY <2>4, LessCarried
  <2>6. Hooked(e)' = Hooked(e)  BY DEF Hooked
  <2>7. ASSUME NEW d \in Telling(e), d # c  PROVE d \in Telling(e)'
    <3>1. d \in DOMAIN req /\ req[d].at \in TellingAt /\ Location!Driver(d) = e /\ d.kind # "ping"  BY <2>7 DEF Telling, TellingAt
    <3>2. d \in DOMAIN req' /\ req'[d] = req[d]  BY <2>7, <3>1 DEF OthersGo, TellingAt
    <3> QED  BY <1>2, <3>1, <3>2 DEF Telling, TellingAt
  <2>8. \/ tms'[e].status = tms[e].status /\ (Telling(e)' = {} => Telling(e) = {})
        \/ tms'[e].status \in Carried(e)
    <3>1. CASE /\ tms' = tms
               /\ \/ c \in DOMAIN req' /\ req'[c].at \in TellingAt
                  \/ Location!Driver(c) \in torn'
                  \/ c \notin Telling(Location!Driver(c))
      <4>1. ASSUME c \in Telling(e), Telling(e)' = {}  PROVE FALSE
        <5>1. Location!Driver(c) = e /\ c.kind # "ping"  BY <4>1 DEF Telling
        <5>2. CASE c \in DOMAIN req' /\ req'[c].at \in TellingAt
          BY <1>2, <4>1, <5>1, <5>2 DEF Telling, TellingAt
        <5>3. CASE Location!Driver(c) \in torn'  BY <1>6, <5>1, <5>3
        <5> QED  BY <3>1, <4>1, <5>1, <5>2, <5>3
      <4> QED  BY <2>7, <3>1, <4>1
    <3>2. CASE tms' = Location!Show(tms, Location!Item(c)) /\ c \in DOMAIN req /\ req[c].at = "send"
      <4>1. e \in DOMAIN tms /\ "status" \in DOMAIN tms[e]  BY <1>0, <1>6 DEF StatusTypes, Shown
      <4>2. CASE e = Location!Driver(c)
        <5>1. PICK f : f = Location!Item(c)  OBVIOUS
        <5>2. e \in DOMAIN f /\ "status" \in DOMAIN f[e] /\ f[e].status \in Carried(e)
          BY <3>2, <4>2, <5>1, ItemCarries, Zenon
        <5>3. tms'[e].status = f[e].status  BY <3>2, <4>1, <5>1, <5>2, ShowStatus
        <5> QED  BY <5>2, <5>3
      <4>3. CASE e # Location!Driver(c)
        <5>1. tms'[e].status = tms[e].status  BY <3>2, <4>1, <4>3, ItemCarries, ShowStatus, Zenon
        <5>2. c \notin Telling(e)  BY <4>3 DEF Telling
        <5> QED  BY <2>7, <5>1, <5>2
      <4> QED  BY <4>2, <4>3
    <3> QED  BY <3>1, <3>2
  <2> QED  BY <2>1, <2>5, <2>6, <2>8, StaysKept
<1> QED  BY <1>2, <1>5, <1>6 DEF StatusInv

\* AsyncSemaphore.acquire(): nobody is told yet.
LEMMA ArriveKeeps ==
  ASSUME CallsInv, StatusInv, part = "location", NEW c, Location!Arrive(c)
  PROVE  StatusInv'
<1>1. /\ c \in todo /\ UNCHANGED <<db, run, hooks, mix, tms, torn, late>>
  BY DEF Location!Arrive, Location!batch
<1>2. c \notin DOMAIN req  BY <1>1 DEF CallsInv, CallRight
<1>3. PICK s : /\ s = Location!New \/ s = [Location!New EXCEPT !.at = "queued"]
               /\ req' = Location!With(req, c, s)
  BY DEF Location!Arrive
<1>4. s.at \notin TellingAt  BY <1>3 DEF Location!New, TellingAt
<1>5. DOMAIN req' = DOMAIN req \cup {c} /\ req'[c] = s /\ \A d \in DOMAIN req : req'[d] = req[d]
  BY <1>2, <1>3 DEF Location!With
<1>6. \A d \in DOMAIN req' : Stays(d) \/ (d = c /\ req'[c].at \notin TellingAt)  BY <1>4, <1>5 DEF Stays
<1>7. OthersGo(c)  BY <1>5 DEF OthersGo
<1>8. c \notin Telling(Location!Driver(c))  BY <1>2 DEF Telling
<1> QED  BY <1>1, <1>6, <1>7, <1>8, CallKeeps

\* A call that ends without having told TMS is a ping, or was refused.
LEMMA EndKeeps ==
  ASSUME CallsInv, StatusInv, part = "location", NEW c \in DOMAIN req, req[c].at # "queued", Location!Finish(c),
         c \notin Telling(Location!Driver(c)), UNCHANGED <<db, run, hooks, mix, tms, torn, late>>
  PROVE  StatusInv'
<1>1. \A d \in DOMAIN req' : Stays(d)  BY Ends
<1>2. OthersGo(c)  BY EndsAlone
<1> QED  BY <1>1, <1>2, CallKeeps

\* A call goes on: a ping does not send.
LEMMA GoKeeps ==
  ASSUME CallsInv, StatusInv, part = "location", NEW c \in DOMAIN req, req[c].at \in TellingAt,
         NEW s, s.at \in TellingAt, s.at = "send" => c.kind # "ping", s.user = req[c].user,
         req' = [req EXCEPT ![c] = s], UNCHANGED <<db, run, hooks, mix, tms>>, torn' = torn,
         \/ late' = late
         \/ /\ late' = late \cup {[id |-> e, item |-> Location!Item(c)[e]] : e \in DOMAIN Location!Item(c)}
            /\ req[c].at = "send"
  PROVE  StatusInv'
<1>1. DOMAIN req' = DOMAIN req /\ req'[c] = s /\ \A d \in DOMAIN req : d # c => req'[d] = req[d]
  OBVIOUS
<1>2. CallSame(c)  BY <1>1 DEF CallSame
<1>3. \A d \in DOMAIN req' : Stays(d) \/ (d = c /\ CallSame(c))  BY <1>1, <1>2 DEF Stays
<1>4. OthersGo(c)  BY <1>1 DEF OthersGo
<1>5. c \in DOMAIN req' /\ req'[c].at \in TellingAt  BY <1>1
<1> QED  BY <1>3, <1>4, <1>5, CallKeeps

\* The call after its point: a ping ends, another sends.
LEMMA SavedKeeps ==
  ASSUME CallsInv, StatusInv, part = "location", NEW c \in DOMAIN req, req[c].at \in {"saved", "point"}, Location!Saved(c),
         UNCHANGED <<db, run, hooks, mix, tms, torn, late>>
  PROVE  StatusInv'
<1>1. CASE c.kind = "ping"
  <2>1. Location!Finish(c)  BY <1>1 DEF Location!Saved
  <2>2. c \notin Telling(Location!Driver(c))  BY <1>1 DEF Telling
  <2> QED  BY <2>1, <2>2, EndKeeps
<1>2. CASE c.kind # "ping"
  <2>1. PICK s : s = [req[c] EXCEPT !.at = "send"]  BY Zenon
  <2>2. req' = [req EXCEPT ![c] = s]  BY <1>2, <2>1 DEF Location!Saved
  <2>3. DOMAIN req[c] = {"at", "user", "tries"}  BY DEF CallsInv, CallRight
  <2>4. s.at = "send" /\ s.user = req[c].user  BY <2>1, <2>3
  <2>5. s.at \in TellingAt /\ req[c].at \in TellingAt  BY <2>4 DEF TellingAt
  <2> QED  BY <1>2, <2>2, <2>4, <2>5, GoKeeps, Zenon
<1> QED  BY <1>1, <1>2

\* maybeCreateDriverTrackingPoint() and what follows it.
LEMMA PointKeeps ==
  ASSUME CallsInv, StatusInv, part = "location", NEW c, Location!Look(c) \/ Location!AddPoint(c)
  PROVE  StatusInv'
<1>1. c \in DOMAIN req /\ UNCHANGED <<db, run, hooks, mix, tms, torn, late>>
  BY DEF Location!Look, Location!AddPoint, Location!batch
<1>2. CASE Location!Look(c)
  <2>1. req[c].at = "saved"  BY <1>2 DEF Location!Look
  <2>2. CASE Location!Saved(c)  BY <1>1, <2>1, <2>2, SavedKeeps
  <2>3. CASE ~Location!Saved(c)
    <3>1. PICK s : s = [req[c] EXCEPT !.at = "point"]  BY Zenon
    <3>2. req' = [req EXCEPT ![c] = s]  BY <1>2, <2>3, <3>1 DEF Location!Look
    <3>3. DOMAIN req[c] = {"at", "user", "tries"}  BY <1>1 DEF CallsInv, CallRight
    <3>4. s.at = "point" /\ s.user = req[c].user  BY <3>1, <3>3
    <3>5. s.at \in TellingAt /\ req[c].at \in TellingAt  BY <2>1, <3>4 DEF TellingAt
    <3> QED  BY <1>1, <3>2, <3>4, <3>5, GoKeeps, Zenon
  <2> QED  BY <2>2, <2>3
<1>3. CASE Location!AddPoint(c)
  <2>1. req[c].at = "point" /\ Location!Saved(c)  BY <1>3 DEF Location!AddPoint
  <2> QED  BY <1>1, <2>1, SavedKeeps
<1> QED  BY <1>2, <1>3

\* Refused calls have written nothing.
LEMMA RefuseKeeps ==
  ASSUME CallsInv, StatusInv, part = "location", NEW c, Location!Refuse(c)
  PROVE  StatusInv'
<1>1. /\ c \in DOMAIN req /\ req[c].at = "ready" /\ Location!Finish(c)
      /\ UNCHANGED <<db, run, hooks, mix, tms, torn, late>>
  BY DEF Location!Refuse, Location!batch
<1>2. c \notin Telling(Location!Driver(c))  BY <1>1 DEF Telling
<1> QED  BY <1>1, <1>2, EndKeeps

\* TMS is told, or the second attempt has failed as well and the id is marked.
LEMMA TellKeeps ==
  ASSUME CallsInv, StatusInv, part = "location", NEW c, Location!Tell(c) \/ Location!TellFails(c)
  PROVE  StatusInv'
<1>1. c \in DOMAIN req /\ req[c].at = "send" /\ UNCHANGED <<db, run, hooks, mix>>
  BY DEF Location!Tell, Location!TellFails, Location!batch
<1>2. Location!Finish(c) => (\A d \in DOMAIN req' : Stays(d)) /\ OthersGo(c)  BY <1>1, Ends, EndsAlone
<1>3. CASE Location!Tell(c)
  <2>1. /\ tms' = Location!Show(tms, Location!Item(c)) /\ late' = late /\ torn' = torn /\ Location!Finish(c)
    BY <1>3 DEF Location!Tell, Location!Post
  <2> QED  BY <1>1, <1>2, <2>1, CallKeeps
<1>4. CASE Location!TellFails(c)
  <2>1. /\ tms' = tms
        /\ \/ late' = late
           \/ late' = late \cup {[id |-> e, item |-> Location!Item(c)[e]] : e \in DOMAIN Location!Item(c)}
    BY <1>4 DEF Location!TellFails, Location!PostFails
  <2>2. CASE Location!Finish(c) /\ torn' = torn \cup {Location!Driver(c)}
    <3>1. Location!Driver(c) \in torn' /\ torn \subseteq torn'  BY <2>2
    <3> QED  BY <1>1, <1>2, <2>1, <2>2, <3>1, CallKeeps
  <2>3. CASE req' = [req EXCEPT ![c].tries = @ + 1] /\ torn' = torn
    <3>1. PICK s : s = [req[c] EXCEPT !.tries = @ + 1]  BY Zenon
    <3>2. req' = [req EXCEPT ![c] = s]  BY <2>3, <3>1
    <3>3. DOMAIN req[c] = {"at", "user", "tries"} /\ c.kind # "ping"
      BY <1>1 DEF CallsInv, CallRight, StatusInv, StatusTypes
    <3>4. s.at = "send" /\ s.user = req[c].user  BY <1>1, <3>1, <3>3
    <3>5. s.at \in TellingAt /\ req[c].at \in TellingAt  BY <1>1, <3>4 DEF TellingAt
    <3> QED  BY <1>1, <2>1, <2>3, <3>2, <3>3, <3>4, <3>5, GoKeeps, Zenon
  <2> QED  BY <1>4, <2>2, <2>3 DEF Location!TellFails
<1> QED  BY <1>3, <1>4

\* updateUserLocation() writes the row: the id is its own now, or marked.
LEMMA SaveKeeps == ASSUME CallsInv, StatusInv, part = "location", NEW c, Location!Save(c)  PROVE StatusInv'
<1>1. PICK u : u = Location!Patched(db[c.row], c)  OBVIOUS
<1>2. PICK s : s = [req[c] EXCEPT !.at = "saved", !.user = u]  OBVIOUS
<1>3. /\ c \in DOMAIN req /\ req[c].at = "ready" /\ Location!Overwrites(c)
      /\ db' = [db EXCEPT ![c.row] = u] /\ req' = [req EXCEPT ![c] = s]
      /\ UNCHANGED <<run, hooks, mix, tms, late>>
  BY <1>1, <1>2, Zenon DEF Location!Save, Location!batch
<1>4. c \in mix.calls /\ c.kind \in {"manual", "ping"} /\ DOMAIN req[c] = {"at", "user", "tries"}
  BY <1>3 DEF CallsInv, CallRight
<1>5. c.row \in DOMAIN db  BY <1>4, LocationAssumption DEF CallsInv
<1>6. StatusTypes /\ \A e \in Location!Ids \ torn : StatusKept(e)  BY DEF StatusInv
<1>7. DOMAIN db[c.row] = Columns  BY <1>5, <1>6 DEF StatusTypes
<1>8. DOMAIN u = Columns /\ u.status = IF c.status = NULL THEN db[c.row].status ELSE c.status
  BY <1>1, <1>7 DEF Location!Patched, Columns
<1>9. s.at = "saved" /\ s.user = u  BY <1>2, <1>4
<1>10. DOMAIN db' = DOMAIN db /\ db'[c.row] = u /\ \A r \in DOMAIN db : r # c.row => db'[r] = db[r]
  BY <1>3, <1>5
<1>11. DOMAIN req' = DOMAIN req /\ req'[c] = s /\ \A d \in DOMAIN req : d # c => req'[d] = req[d]
  BY <1>3
<1>12. /\ Location!Ids' = Location!Ids
       /\ \A d : Location!Driver(d)' = Location!Driver(d)
       /\ \A e : Location!RowsOf(e)' = Location!RowsOf(e)
  BY <1>3, <1>10 DEF Location!Ids, Location!Driver, Location!RowsOf, Location!Range
<1>13. torn \subseteq torn'  BY <1>3 DEF Location!Overwrites, Location!Tear
<1>14. StatusTypes'
  <2>1. \A r \in DOMAIN db' : DOMAIN db'[r] = Columns  BY <1>6, <1>8, <1>10 DEF StatusTypes
  <2>2. \A d \in DOMAIN req' : req'[d].at = "send" => d.kind # "ping"  BY <1>6, <1>9, <1>11 DEF StatusTypes
  <2> QED  BY <1>3, <1>6, <1>12, <2>1, <2>2 DEF StatusTypes, Shown, RunRight
<1>15. ASSUME NEW e \in Location!Ids \ torn'  PROVE StatusKept(e)'
  <2>1. StatusKept(e)  BY <1>6, <1>13, <1>15
  <2>2. Hooked(e)' = Hooked(e) /\ Sending(e)' = Sending(e) /\ Delayed(e)' = Delayed(e)
    BY <1>3 DEF Hooked, Sending, Delayed
  <2>3. CASE Location!Driver(c) # e \/ c.kind = "ping"
    <3>1. Telling(e)' = Telling(e) /\ \A d \in Telling(e) : req'[d] = req[d]
      <4>1. c \notin Telling(e) /\ c \notin Telling(e)'  BY <1>12, <2>3 DEF Telling
      <4>2. \A d : d # c => (d \in Telling(e)' <=> d \in Telling(e))  BY <1>11, <1>12 DEF Telling
      <4>3. \A d \in Telling(e) : req'[d] = req[d]  BY <1>11, <4>1 DEF Telling
      <4> QED  BY <4>1, <4>2, <4>3
    <3>2. CarriesLess(e)  BY <1>3, <2>2, <3>1 DEF CarriesLess, Carried
    <3>3. ASSUME NEW r \in Location!RowsOf(e)  PROVE db'[r].status = db[r].status
      <4>1. r \in DOMAIN db /\ mix.ext[r] = e  BY DEF Location!RowsOf
      <4>2. CASE r = c.row
        <5>1. c.kind = "ping" /\ Location!Driver(c) = e  BY <2>3, <4>1, <4>2 DEF Location!Driver
        <5>2. c.status = NULL  BY <1>3, <1>15, <5>1 DEF Location!Overwrites
        <5> QED  BY <1>8, <1>10, <4>2, <5>2
      <4>3. CASE r # c.row  BY <1>10, <4>1, <4>3
      <4> QED  BY <4>2, <4>3
    <3>4. Carried(e)' \subseteq Carried(e)  BY <3>2, LessCarried
    <3> QED  BY <1>3, <1>10, <2>1, <2>2, <3>1, <3>3, <3>4, StaysKept
  <2>4. CASE Location!Driver(c) = e /\ c.kind # "ping"
    <3>1. Location!Tear({e})  BY <1>3, <2>4 DEF Location!Overwrites
    <3>2. ~Location!Busy(e)  BY <1>15, <3>1, MarksBusy
    <3>3. Telling(e) = {} /\ Sending(e)' = {} /\ Hooked(e)' = {} /\ Delayed(e)' = {}  BY <2>2, <3>2, IdleCarries
    <3>4. Telling(e)' = {c}
      <4>1. \A d : d # c => d \notin Telling(e)'
        <5>1. \A d : d # c /\ d \in Telling(e)' => d \in Telling(e)  BY <1>11, <1>12 DEF Telling
        <5> QED  BY <3>3, <5>1
      <4>2. c \in Telling(e)'  BY <1>3, <1>9, <1>11, <1>12, <2>4 DEF Telling
      <4> QED  BY <4>1, <4>2
    <3>5. Carried(e)' = {u.status}  BY <1>9, <1>11, <3>3, <3>4 DEF Carried
    <3>6. \A r \in Location!RowsOf(e) : r = c.row
      <4>1. c.row \in Location!RowsOf(e)  BY <1>5, <2>4 DEF Location!RowsOf, Location!Driver
      <4> QED  BY <2>1, <4>1 DEF StatusKept
    <3>7. \A r, q \in Location!RowsOf(e)' : r = q  BY <1>12, <3>6
    <3>8. \A r \in Location!RowsOf(e)' : Carried(e)' \subseteq {db'[r].status}  BY <1>10, <1>12, <3>5, <3>6
    <3> QED  BY <3>3, <3>4, <3>7, <3>8 DEF StatusKept
  <2> QED  BY <2>3, <2>4
<1> QED  BY <1>12, <1>13, <1>14, <1>15 DEF StatusInv

-----------------------------------------------------------------------------
(* The status of a driver: TMS.                                            *)

\* A step of other parts keeps the status of e.
LEMMA OthersKeep ==
  ASSUME NEW e, StatusKept(e), UNCHANGED <<req, run, late, mix, tms>>, Hooked(e)' = Hooked(e),
         DOMAIN db' = DOMAIN db, \A r \in Location!RowsOf(e) : db'[r].status = db[r].status
  PROVE  StatusKept(e)'
<1>1. Telling(e)' = Telling(e) /\ Sending(e)' = Sending(e) /\ Delayed(e)' = Delayed(e)
  BY DEF Telling, Sending, Delayed, Location!Driver
<1>2. Carried(e)' = Carried(e)  BY <1>1 DEF Carried
<1> QED  BY <1>1, <1>2, StaysKept

\* The types stay when ids, rows and calls do.
LEMMA TypesStay ==
  ASSUME StatusTypes, mix' = mix, DOMAIN db' = DOMAIN db
  PROVE  /\ Location!Ids' = Location!Ids
         /\ \A e : Location!RowsOf(e)' = Location!RowsOf(e)
         /\ tms' = tms => Shown(tms)'
         /\ run' = run => \A q \in DOMAIN run' : RunRight(q)'
<1>1. Location!Ids' = Location!Ids  BY DEF Location!Ids, Location!Range
<1>2. \A e : Location!RowsOf(e)' = Location!RowsOf(e)  BY DEF Location!RowsOf
<1>3. tms' = tms => Shown(tms)'  BY <1>1 DEF StatusTypes, Shown
<1>4. run' = run => \A q \in DOMAIN run' : RunRight(q)'  BY DEF StatusTypes, RunRight
<1> QED  BY <1>1, <1>2, <1>3, <1>4

\* A dispatcher sets a status in TMS: the webhook is the only one to write the id, or it is marked.
LEMMA SetKeeps == ASSUME CallsInv, StatusInv, part = "location", NEW c, Location!SetInTms(c)  PROVE StatusInv'
<1>1. /\ tms' = [tms EXCEPT ![c.id].status = c.status]
      /\ Location!Tear({c.id}) /\ UNCHANGED <<db, req, run, late, mix>>
  BY DEF Location!SetInTms, Location!server, Location!batch
<1>2. PICK h : h = [row |-> NULL, active |-> FALSE]  BY Zenon
<1>3. hooks' = Location!With(hooks, c, h) /\ h.row = NULL  BY <1>2 DEF Location!SetInTms
<1>4. DOMAIN hooks' = DOMAIN hooks \cup {c} /\ \A d \in DOMAIN hooks' : hooks'[d] = IF d = c THEN h ELSE hooks[d]
  BY <1>3 DEF Location!With
<1>5. StatusTypes /\ \A e \in Location!Ids \ torn : StatusKept(e)  BY DEF StatusInv
<1>6. /\ Location!Ids' = Location!Ids /\ \A e : Location!RowsOf(e)' = Location!RowsOf(e)
      /\ \A q \in DOMAIN run' : RunRight(q)'
  BY <1>1, <1>5, TypesStay
<1>7. StatusTypes'
  <2>1. Shown(tms)'
    <3>1. \A e \in DOMAIN tms : DOMAIN tms'[e] = DOMAIN tms[e]  BY <1>1
    <3>2. DOMAIN tms' = DOMAIN tms  BY <1>1
    <3> QED  BY <1>5, <1>6, <3>1, <3>2 DEF StatusTypes, Shown
  <2>2. \A d \in DOMAIN hooks' : hooks'[d].row # NULL => hooks'[d].row \in Location!RowsOf(d.id)'
    BY <1>3, <1>4, <1>5, <1>6 DEF StatusTypes
  <2> QED  BY <1>1, <1>5, <1>6, <2>1, <2>2 DEF StatusTypes
<1>8. ASSUME NEW e \in Location!Ids \ torn'  PROVE StatusKept(e)'
  <2>1. e \notin torn /\ StatusKept(e)  BY <1>1, <1>5, <1>8, MarksBusy
  <2>2. e \in DOMAIN tms /\ "status" \in DOMAIN tms[e]  BY <1>5, <1>8 DEF StatusTypes, Shown
  <2>3. /\ Telling(e)' = Telling(e) /\ Sending(e)' = Sending(e) /\ Delayed(e)' = Delayed(e)
    BY <1>1 DEF Telling, Sending, Delayed, Location!Driver
  <2>4. Carried(e)' = Carried(e)  BY <1>1, <2>3 DEF Carried
  <2>5. CASE e # c.id
    <3>1. Hooked(e)' = Hooked(e)  BY <1>4, <2>5 DEF Hooked
    <3>2. tms'[e] = tms[e]  BY <1>1, <2>2, <2>5
    <3> QED  BY <1>1, <2>1, <2>3, <2>4, <3>1, <3>2, StaysKept, Zenon
  <2>6. CASE e = c.id
    <3>1. ~Location!Busy(e)  BY <1>1, <1>8, <2>6, MarksBusy
    <3>2. Hooked(e) = {} /\ Carried(e)' = {}  BY <2>4, <3>1, IdleCarries
    <3>3. Hooked(e)' = {c}  BY <1>4, <2>6, <3>2 DEF Hooked
    <3>4. tms'[e].status = c.status  BY <1>1, <2>2, <2>6
    <3>5. \A r, q \in Location!RowsOf(e)' : r = q  BY <1>6, <2>1 DEF StatusKept
    <3> QED  BY <3>2, <3>3, <3>4, <3>5 DEF StatusKept
  <2> QED  BY <2>5, <2>6
<1>9. torn \subseteq torn'  BY <1>1 DEF Location!Tear
<1> QED  BY <1>6, <1>7, <1>8, <1>9 DEF StatusInv

\* The webhook finds its row, and is lost or writes what TMS shows.
LEMMA HookKeeps ==
  ASSUME CallsInv, StatusInv, part = "location", NEW c,
         Location!HookFind(c) \/ Location!HookSave(c) \/ Location!HookLost(c)
  PROVE  StatusInv'
<1>1. c \in DOMAIN hooks /\ UNCHANGED <<req, run, late, mix, tms>> /\ torn \subseteq torn'
  BY DEF Location!HookFind, Location!HookSave, Location!HookLost, Location!server, Location!batch
<1>2. StatusTypes /\ \A e \in Location!Ids \ torn : StatusKept(e)  BY DEF StatusInv
<1>3. \A f, x : DOMAIN Location!Without(f, x) = DOMAIN f \ {x} /\ \A y \in DOMAIN f \ {x} : Location!Without(f, x)[y] = f[y]
  BY DEF Location!Without, Location!Restrict
<1>4. CASE Location!HookFind(c)
  <2>1. PICK r \in Location!RowsOf(c.id) : hooks' = [hooks EXCEPT ![c] = [row |-> r, active |-> db[r].active]]
    BY <1>4, Zenon DEF Location!HookFind
  <2>2. PICK h : h = [row |-> r, active |-> db[r].active]  BY Zenon
  <2>3. DOMAIN hooks' = DOMAIN hooks /\ hooks'[c].row = r /\ \A d \in DOMAIN hooks : d # c => hooks'[d] = hooks[d]
    BY <1>1, <2>1, <2>2
  <2>4. db' = db /\ torn' = torn  BY <1>4 DEF Location!HookFind, Location!server
  <2>5. /\ Location!Ids' = Location!Ids /\ \A e : Location!RowsOf(e)' = Location!RowsOf(e)
        /\ Shown(tms)' /\ \A q \in DOMAIN run' : RunRight(q)'
    BY <1>1, <1>2, <2>4, TypesStay
  <2>6. StatusTypes'  BY <1>1, <1>2, <2>3, <2>4, <2>5 DEF StatusTypes
  <2>7. ASSUME NEW e \in Location!Ids \ torn  PROVE StatusKept(e)'
    <3>1. Hooked(e)' = Hooked(e)  BY <2>3 DEF Hooked
    <3> QED  BY <1>1, <1>2, <2>4, <3>1, OthersKeep
  <2> QED  BY <2>4, <2>5, <2>6, <2>7 DEF StatusInv
<1>5. CASE Location!HookLost(c)
  <2>1. hooks' = Location!Without(hooks, c) /\ torn' = torn \cup {c.id} /\ db' = db
    BY <1>5 DEF Location!HookLost, Location!server
  <2>2. DOMAIN hooks' = DOMAIN hooks \ {c} /\ \A d \in DOMAIN hooks' : hooks'[d] = hooks[d]  BY <1>3, <2>1
  <2>3. /\ Location!Ids' = Location!Ids /\ \A e : Location!RowsOf(e)' = Location!RowsOf(e)
        /\ Shown(tms)' /\ \A q \in DOMAIN run' : RunRight(q)'
    BY <1>1, <1>2, <2>1, TypesStay
  <2>4. StatusTypes'  BY <1>1, <1>2, <2>1, <2>2, <2>3 DEF StatusTypes
  <2>5. ASSUME NEW e \in Location!Ids \ torn'  PROVE StatusKept(e)'
    <3>1. e # c.id /\ e \notin torn  BY <2>1, <2>5
    <3>2. Hooked(e)' = Hooked(e)  BY <2>2, <3>1 DEF Hooked
    <3> QED  BY <1>1, <1>2, <2>1, <2>5, <3>1, <3>2, OthersKeep
  <2> QED  BY <2>3, <2>4, <2>5 DEF StatusInv
<1>6. CASE Location!HookSave(c)
  <2>1. PICK r : r = hooks[c].row  OBVIOUS
  <2>2. r \in Location!RowsOf(c.id) /\ torn' = torn /\ hooks' = Location!Without(hooks, c)
    BY <1>1, <1>2, <1>6, <2>1 DEF Location!HookSave, StatusTypes
  <2>3. PICK auto : db' = [db EXCEPT ![r].status = c.status, ![r].auto = auto]
    BY <1>6, <2>1, Zenon DEF Location!HookSave
  <2>4. r \in DOMAIN db /\ mix.ext[r] = c.id /\ DOMAIN db[r] = Columns  BY <1>2, <2>2 DEF Location!RowsOf, StatusTypes
  <2>5. /\ DOMAIN db' = DOMAIN db /\ \A q \in DOMAIN db : DOMAIN db'[q] = DOMAIN db[q] /\ (q # r => db'[q] = db[q])
        /\ db'[r].status = c.status
    BY <2>3, <2>4, Zenon DEF Columns
  <2>6. DOMAIN hooks' = DOMAIN hooks \ {c} /\ \A d \in DOMAIN hooks' : hooks'[d] = hooks[d]  BY <1>3, <2>2
  <2>7. /\ Location!Ids' = Location!Ids /\ \A e : Location!RowsOf(e)' = Location!RowsOf(e)
        /\ Shown(tms)' /\ \A q \in DOMAIN run' : RunRight(q)'
    BY <1>1, <1>2, <2>5, TypesStay
  <2>8. StatusTypes'  BY <1>1, <1>2, <2>5, <2>6, <2>7 DEF StatusTypes
  <2>9. ASSUME NEW e \in Location!Ids \ torn  PROVE StatusKept(e)'
    <3>1. StatusKept(e)  BY <1>2
    <3>2. CASE e # c.id
      <4>1. Hooked(e)' = Hooked(e)  BY <2>6, <3>2 DEF Hooked
      <4>2. \A q \in Location!RowsOf(e) : db'[q].status = db[q].status  BY <2>4, <2>5, <3>2 DEF Location!RowsOf
      <4> QED  BY <1>1, <2>5, <3>1, <4>1, <4>2, OthersKeep
    <3>3. CASE e = c.id
      <4>1. c \in Hooked(e)  BY <1>1, <3>3 DEF Hooked
      <4>2. Carried(e) = {} /\ c.status = tms[e].status /\ \A q \in Location!RowsOf(e) : q = r
        BY <2>2, <3>1, <3>3, <4>1 DEF StatusKept
      <4>3. Telling(e)' = Telling(e) /\ Sending(e)' = Sending(e) /\ Delayed(e)' = Delayed(e)
        BY <1>1 DEF Telling, Sending, Delayed, Location!Driver
      <4>4. Carried(e)' = {}
        <5>1. Telling(e) = {} /\ Sending(e) = {} /\ Delayed(e) = {}  BY <4>2, Zenon DEF Carried
        <5> QED  BY <4>3, <5>1 DEF Carried
      <4>5. Hooked(e)' \subseteq Hooked(e)  BY <2>6 DEF Hooked
      <4>6. \A d \in Hooked(e)' : d.status = tms'[e].status  BY <1>1, <3>1, <4>5 DEF StatusKept
      <4>7. \A q \in Location!RowsOf(e)' : q = r /\ db'[q].status = tms'[e].status  BY <1>1, <2>5, <2>7, <4>2
      <4> QED  BY <4>4, <4>6, <4>7 DEF StatusKept
    <3> QED  BY <3>2, <3>3
  <2> QED  BY <2>2, <2>7, <2>8, <2>9 DEF StatusInv
<1> QED  BY <1>4, <1>5, <1>6

\* Steps that write neither statuses nor TMS, nor begin to.
LEMMA RestKeeps ==
  ASSUME CallsInv, StatusInv, part = "location",
         UNCHANGED <<req, run, hooks, late, mix, tms, torn>>, RowsStay, \A r \in DOMAIN db : db'[r].status = db[r].status
  PROVE  StatusInv'
<1>1. StatusTypes /\ \A e \in Location!Ids \ torn : StatusKept(e)  BY DEF StatusInv
<1>2. DOMAIN db' = DOMAIN db /\ \A r \in DOMAIN db : DOMAIN db'[r] = DOMAIN db[r]  BY DEF RowsStay
<1>3. /\ Location!Ids' = Location!Ids /\ \A e : Location!RowsOf(e)' = Location!RowsOf(e)
      /\ Shown(tms)' /\ \A q \in DOMAIN run' : RunRight(q)'
  BY <1>1, <1>2, TypesStay
<1>4. StatusTypes'  BY <1>1, <1>2, <1>3 DEF StatusTypes
<1>5. ASSUME NEW e \in Location!Ids \ torn  PROVE StatusKept(e)'
  <2>1. Hooked(e)' = Hooked(e)  BY DEF Hooked
  <2>2. \A r \in Location!RowsOf(e) : db'[r].status = db[r].status  BY DEF Location!RowsOf
  <2> QED  BY <1>1, <1>2, <2>1, <2>2, OthersKeep
<1> QED  BY <1>3, <1>4, <1>5 DEF StatusInv

-----------------------------------------------------------------------------
(* The status of a driver: the jobs.                                       *)

\* A step of the jobs that begins to send nothing keeps statuses, also one that posts what was
\* on its way.
LEMMA JobKeeps ==
  ASSUME CallsInv, StatusInv, part = "location", UNCHANGED <<db, req, hooks, mix>>, torn \subseteq torn',
         \A q \in DOMAIN run' : RunRight(q)', NEW f,
         \A e \in Location!Ids \ torn' : e \in DOMAIN f /\ "status" \in DOMAIN f[e] => f[e].status \in Carried(e),
         \A e \in Location!Ids \ torn', q \in DOMAIN run' :
           q \in Sending(e)' => q \in Sending(e) /\ run'[q].items[e].status = run[q].items[e].status,
         tms' = tms \/ tms' = Location!Show(tms, f),
         late' \subseteq late \/ late' = late \cup {[id |-> e, item |-> f[e]] : e \in DOMAIN f}
  PROVE  StatusInv'
<1>1. StatusTypes /\ \A e \in Location!Ids \ torn : StatusKept(e)  BY DEF StatusInv
<1>2. /\ Location!Ids' = Location!Ids /\ \A e : Location!RowsOf(e)' = Location!RowsOf(e)
      /\ tms' = tms => Shown(tms)'
  BY <1>1, TypesStay
<1>3. Shown(tms)'
  <2>1. CASE tms' = Location!Show(tms, f)
    <3>1. DOMAIN tms' = DOMAIN tms  BY <2>1 DEF Location!Show
    <3> QED  BY <1>1, <1>2, <2>1, <3>1, ShowStatus DEF Shown, StatusTypes
  <2> QED  BY <1>2, <2>1
<1>4. StatusTypes'  BY <1>1, <1>2, <1>3 DEF StatusTypes
<1>5. ASSUME NEW e \in Location!Ids \ torn'  PROVE StatusKept(e)'
  <2>1. StatusKept(e)  BY <1>1, <1>5
  <2>2. Telling(e)' = Telling(e) /\ Hooked(e)' = Hooked(e)  BY DEF Telling, Hooked, Location!Driver
  <2>3. ASSUME NEW m \in late', m \in Delayed(e)'  PROVE m.item.status \in Carried(e)
    <3>1. m.id = e /\ "status" \in DOMAIN m.item  BY <2>3 DEF Delayed
    <3>2. CASE m \in late
      <4>1. m \in Delayed(e)  BY <3>1, <3>2 DEF Delayed
      <4> QED  BY <4>1 DEF Carried
    <3>3. CASE m \notin late
      <4>1. PICK x \in DOMAIN f : m = [id |-> x, item |-> f[x]]  BY <2>3, <3>3
      <4>2. m.id = x /\ m.item = f[x]  BY <4>1
      <4> QED  BY <1>5, <3>1, <4>2
    <3> QED  BY <3>2, <3>3
  <2>4. CarriesLess(e)  BY <1>5, <2>2, <2>3 DEF CarriesLess
  <2>5. Carried(e)' \subseteq Carried(e)  BY <2>4, LessCarried
  <2>6. e \in DOMAIN tms /\ "status" \in DOMAIN tms[e]  BY <1>1, <1>5 DEF StatusTypes, Shown
  <2>7. tms'[e].status = tms[e].status \/ tms'[e].status \in Carried(e)
    <3>1. CASE tms' = Location!Show(tms, f)
      <4>1. tms'[e].status = IF e \in DOMAIN f /\ "status" \in DOMAIN f[e] THEN f[e].status ELSE tms[e].status
        BY <2>6, <3>1, ShowStatus
      <4> QED  BY <1>5, <4>1
    <3> QED  BY <3>1
  <2> QED  BY <2>1, <2>2, <2>5, <2>7, StaysKept
<1> QED  BY <1>2, <1>4, <1>5 DEF StatusInv

\* What the jobs hold of a run after another one was begun, changed or left.
LEMMA RunsStay ==
  ASSUME StatusTypes, NEW r, NEW s,
         \/ run' = Location!With(run, r, s)
         \/ r \in DOMAIN run /\ run' = [run EXCEPT ![r] = s],
         r[1] \in Jobs, DOMAIN s = {"at", "items", "tries"},
         \A e \in DOMAIN s.items : "status" \in DOMAIN s.items[e] <=> r[1] = "location"
  PROVE  /\ DOMAIN run' = DOMAIN run \cup {r} /\ run'[r] = s
         /\ \A q \in DOMAIN run : q # r => run'[q] = run[q]
         /\ \A q \in DOMAIN run' : RunRight(q)'
<1>1. DOMAIN run' = DOMAIN run \cup {r} /\ \A q \in DOMAIN run' : run'[q] = IF q = r THEN s ELSE run[q]
  BY DEF Location!With
<1>2. ASSUME NEW q \in DOMAIN run'  PROVE RunRight(q)'
  <2>1. CASE q = r  BY <1>1, <2>1 DEF RunRight
  <2>2. CASE q # r  BY <1>1, <2>2 DEF StatusTypes, RunRight
  <2> QED  BY <2>1, <2>2
<1> QED  BY <1>1, <1>2

\* A run begins, and has read nothing yet.
LEMMA StartKeeps ==
  ASSUME CallsInv, StatusInv, part = "location", NEW j \in Jobs, NEW i, NEW k, Location!Start(j, i, k)
  PROVE  StatusInv'
<1>1. PICK n \in 1 .. 2 : /\ <<j, i, n>> \notin DOMAIN run
                          /\ run' = Location!With(run, <<j, i, n>>, [at |-> "read", items |-> <<>>, tries |-> 0])
  BY DEF Location!Start
<1>2. UNCHANGED <<db, req, hooks, mix, tms, late, torn>>  BY DEF Location!Start, Location!server
<1>3. PICK r : r = <<j, i, n>>  BY Zenon
<1>4. PICK s : s = [at |-> "read", items |-> <<>>, tries |-> 0]  BY Zenon
<1>5. r \notin DOMAIN run /\ run' = Location!With(run, r, s) /\ r[1] \in Jobs  BY <1>1, <1>3, <1>4
<1>6. DOMAIN s = {"at", "items", "tries"} /\ DOMAIN s.items = {}  BY <1>4
<1>7. StatusTypes  BY DEF StatusInv
<1>8. /\ DOMAIN run' = DOMAIN run \cup {r} /\ run'[r] = s
      /\ \A q \in DOMAIN run : q # r => run'[q] = run[q]
      /\ \A q \in DOMAIN run' : RunRight(q)'
  BY <1>5, <1>6, <1>7, RunsStay
<1>9. \A e \in Location!Ids \ torn', q \in DOMAIN run' :
        q \in Sending(e)' => q \in Sending(e) /\ run'[q].items[e].status = run[q].items[e].status
  BY <1>6, <1>8 DEF Sending
<1>10. PICK f : DOMAIN f = {}
  <2>1. DOMAIN [x \in {} |-> x] = {}  OBVIOUS
  <2> QED  BY <2>1
<1>11. torn \subseteq torn' /\ late' \subseteq late
  BY <1>2
<1> QED  BY <1>2, <1>8, <1>9, <1>10, <1>11, JobKeeps, Zenon

\* The location job reads the status of drivers, the other one does not (tms-driver-app-batch.service.ts).
LEMMA LocationReads ==
  ASSUME CallsInv, StatusInv, part = "location", NEW e \in DOMAIN Location!LocationItems
  PROVE  /\ "status" \in DOMAIN Location!LocationItems[e]
         /\ (\A r, q \in Location!RowsOf(e) : r = q) =>
               \A r \in Location!RowsOf(e) : Location!LocationItems[e].status = db[r].status
<1>1. PICK S : S = Location!ForLocation \cap Location!RowsOf(e)  BY Zenon
<1>2. PICK x : x = Location!Freshest(S)  OBVIOUS
<1>3. e \in {mix.ext[r] : r \in Location!ForLocation}
      /\ Location!LocationItems[e] = [status |-> db[x].status, place |-> db[x].place]
  BY <1>1, <1>2 DEF Location!LocationItems, Location!Deduped
<1>4. Location!LocationItems[e].status = db[x].status /\ "status" \in DOMAIN Location!LocationItems[e]  BY <1>3
<1>5. ASSUME \A r, q \in Location!RowsOf(e) : r = q, NEW r \in Location!RowsOf(e)  PROVE x = r
  <2>1. PICK q \in Location!ForLocation : mix.ext[q] = e  BY <1>3
  <2>2. q \in DOMAIN db  BY <2>1 DEF Location!ForLocation
  <2>3. q \in S /\ S = {r}  BY <1>1, <1>5, <2>1, <2>2 DEF Location!RowsOf
  <2>4. r \in Nat
    <3>1. DOMAIN db \subseteq Rows  BY LocationAssumption DEF CallsInv
    <3> QED  BY <3>1, InstancesAssumption, Zenon DEF Location!RowsOf
  <2>5. \E y \in S : \A z \in S : db[z].seen < db[y].seen \/ (db[z].seen = db[y].seen /\ y <= z)  BY <2>3, <2>4
  <2>6. x \in S  BY <1>2, <2>5 DEF Location!Freshest
  <2> QED  BY <2>3, <2>6
<1> QED  BY <1>4, <1>5

LEMMA AppReads ==
  ASSUME NEW e \in DOMAIN Location!AppItems  PROVE "status" \notin DOMAIN Location!AppItems[e]
<1>1. PICK x : Location!AppItems[e] = [seen |-> x]  BY Zenon DEF Location!AppItems, Location!Deduped
<1> QED  BY <1>1

\* What a run reads of an id is its status, and it is the only one to send it, or the id is marked.
LEMMA ReadKeeps == ASSUME CallsInv, StatusInv, part = "location", NEW r, Location!ReadDrivers(r)  PROVE StatusInv'
<1>1. PICK items : items = IF r[1] = "location" THEN Location!LocationItems ELSE Location!AppItems  OBVIOUS
<1>2. PICK at : run' = [run EXCEPT ![r].items = items, ![r].at = at]  BY <1>1, Zenon DEF Location!ReadDrivers
<1>3. /\ r \in DOMAIN run /\ UNCHANGED <<db, req, hooks, mix, tms, late>>
      /\ Location!Tear(IF r[1] = "location" THEN DOMAIN items ELSE {})
  BY <1>1, Zenon DEF Location!ReadDrivers, Location!server
<1>4. StatusTypes /\ \A e \in Location!Ids \ torn : StatusKept(e)  BY DEF StatusInv
<1>5. RunRight(r)  BY <1>3, <1>4 DEF StatusTypes
<1>6. PICK s : s = [run[r] EXCEPT !.items = items, !.at = at]  OBVIOUS
<1>7. DOMAIN s = {"at", "items", "tries"} /\ s.items = items /\ run' = [run EXCEPT ![r] = s] /\ r[1] \in Jobs
  BY <1>2, <1>5, <1>6, Zenon DEF RunRight
<1>8. \A e \in DOMAIN items : "status" \in DOMAIN items[e] <=> r[1] = "location"
  <2>1. CASE r[1] = "location"  BY <1>1, <2>1, LocationReads
  <2>2. CASE r[1] # "location"  BY <1>1, <2>2, AppReads
  <2> QED  BY <2>1, <2>2
<1>9. /\ DOMAIN run' = DOMAIN run /\ run'[r] = s
      /\ \A q \in DOMAIN run : q # r => run'[q] = run[q]
      /\ \A q \in DOMAIN run' : RunRight(q)'
  BY <1>3, <1>4, <1>7, <1>8, RunsStay, Zenon
<1>10. torn \subseteq torn'  BY <1>3 DEF Location!Tear
<1>11. /\ Location!Ids' = Location!Ids /\ \A e : Location!RowsOf(e)' = Location!RowsOf(e) /\ Shown(tms)'
  BY <1>3, <1>4, TypesStay
<1>12. StatusTypes'  BY <1>3, <1>4, <1>9, <1>11 DEF StatusTypes
<1>13. ASSUME NEW e \in Location!Ids \ torn'  PROVE StatusKept(e)'
  <2>1. StatusKept(e)  BY <1>4, <1>10, <1>13
  <2>2. Telling(e)' = Telling(e) /\ Hooked(e)' = Hooked(e) /\ Delayed(e)' = Delayed(e)
    BY <1>3 DEF Telling, Hooked, Delayed, Location!Driver
  <2>3. CASE r[1] = "location" /\ e \in DOMAIN items
    <3>1. ~Location!Busy(e)  BY <1>3, <1>13, <2>3, MarksBusy
    <3>2. Telling(e) = {} /\ Sending(e) = {} /\ Hooked(e) = {} /\ Delayed(e) = {}  BY <3>1, IdleCarries
    <3>3. \A q : q \in Sending(e)' => q = r  BY <1>9, <3>2 DEF Sending
    <3>4. Carried(e)' \subseteq {items[e].status}  BY <1>7, <1>9, <2>2, <3>2, <3>3 DEF Carried
    <3>5. \A x \in Location!RowsOf(e) : items[e].status = db[x].status
      BY <1>1, <2>1, <2>3, LocationReads DEF StatusKept
    <3>6. \A x \in Location!RowsOf(e)' : Carried(e)' \subseteq {db'[x].status} /\ tms'[e].status = db'[x].status
      BY <1>3, <1>11, <2>1, <3>2, <3>4, <3>5 DEF StatusKept
    <3>7. Hooked(e)' = {}  BY <2>2, <3>2
    <3>8. \A x, y \in Location!RowsOf(e)' : x = y  BY <1>11, <2>1 DEF StatusKept
    <3> QED  BY <3>6, <3>7, <3>8 DEF StatusKept
  <2>4. CASE ~(r[1] = "location" /\ e \in DOMAIN items)
    <3>1. \A q \in DOMAIN run' : q \in Sending(e)' => q \in Sending(e) /\ run'[q].items[e].status = run[q].items[e].status
      BY <1>7, <1>9, <2>4 DEF Sending
    <3>2. \A m \in late' : m \in Delayed(e)' => m.item.status \in Carried(e)  BY <2>2 DEF Carried
    <3>3. CarriesLess(e)  BY <1>3, <2>2, <3>1, <3>2 DEF CarriesLess
    <3>4. Carried(e)' \subseteq Carried(e)  BY <3>3, LessCarried
    <3> QED  BY <1>3, <2>1, <2>2, <3>4, StaysKept
  <2> QED  BY <2>3, <2>4
<1> QED  BY <1>10, <1>11, <1>12, <1>13 DEF StatusInv

\* A chunk reaches TMS, or has failed twice and its ids are marked.
LEMMA ChunkKeeps ==
  ASSUME CallsInv, StatusInv, part = "location", NEW r, Location!SendChunk(r) \/ Location!SendChunkFails(r)
  PROVE  StatusInv'
<1>1. /\ r \in DOMAIN run /\ UNCHANGED <<db, req, hooks, mix>> /\ torn \subseteq torn'
  BY DEF Location!SendChunk, Location!SendChunkFails, Location!server
<1>2. PICK f : f = Location!Chunk(run[r].items)  OBVIOUS
<1>3. DOMAIN f \subseteq DOMAIN run[r].items /\ \A e \in DOMAIN f : f[e] = run[r].items[e]
  BY <1>2 DEF Location!Chunk, Location!Restrict
<1>4. \/ tms' = Location!Show(tms, f) /\ late' = late
      \/ tms' = tms /\ (late' = late \/ late' = late \cup {[id |-> e, item |-> f[e]] : e \in DOMAIN f})
  BY <1>2 DEF Location!SendChunk, Location!SendChunkFails, Location!Post, Location!PostFails
<1>5. StatusTypes /\ RunRight(r)  BY <1>1 DEF StatusInv, StatusTypes
<1>6. PICK s : /\ run' = [run EXCEPT ![r] = s] /\ DOMAIN s = {"at", "items", "tries"}
               /\ DOMAIN s.items \subseteq DOMAIN run[r].items /\ \A e \in DOMAIN s.items : s.items[e] = run[r].items[e]
  <2>1. CASE Location!Sent(r)
    <3>1. PICK left : left = Location!Restrict(run[r].items, DOMAIN run[r].items \ DOMAIN f)  OBVIOUS
    <3>2. DOMAIN left \subseteq DOMAIN run[r].items /\ \A e \in DOMAIN left : left[e] = run[r].items[e]
      BY <3>1 DEF Location!Restrict
    <3>3. PICK s : s = [at |-> IF DOMAIN left = {} THEN "end" ELSE "send", items |-> left, tries |-> 0]  BY Zenon
    <3>4. run' = [run EXCEPT ![r] = s]  BY <1>2, <2>1, <3>1, <3>3 DEF Location!Sent
    <3>5. DOMAIN s = {"at", "items", "tries"} /\ s.items = left  BY <3>3
    <3> QED  BY <3>2, <3>4, <3>5, Zenon
  <2>2. CASE ~Location!Sent(r)
    <3>1. run' = [run EXCEPT ![r].tries = @ + 1]  BY <2>2 DEF Location!SendChunk, Location!SendChunkFails
    <3>2. PICK s : s = [run[r] EXCEPT !.tries = @ + 1]  BY Zenon
    <3>3. run' = [run EXCEPT ![r] = s]  BY <3>1, <3>2
    <3>4. DOMAIN s = {"at", "items", "tries"} /\ s.items = run[r].items  BY <1>5, <3>2 DEF RunRight
    <3> QED  BY <3>3, <3>4, Zenon
  <2> QED  BY <2>1, <2>2
<1>7. /\ DOMAIN run' = DOMAIN run /\ run'[r] = s
      /\ \A q \in DOMAIN run : q # r => run'[q] = run[q]
      /\ \A q \in DOMAIN run' : RunRight(q)'
  <2>1. r[1] \in Jobs /\ \A e \in DOMAIN s.items : "status" \in DOMAIN s.items[e] <=> r[1] = "location"
    BY <1>5, <1>6 DEF RunRight
  <2> QED  BY <1>1, <1>5, <1>6, <2>1, RunsStay, Zenon
<1>8. \A e \in Location!Ids \ torn', q \in DOMAIN run' :
        q \in Sending(e)' => q \in Sending(e) /\ run'[q].items[e].status = run[q].items[e].status
  BY <1>6, <1>7 DEF Sending
<1>9. ASSUME NEW e \in Location!Ids \ torn', e \in DOMAIN f, "status" \in DOMAIN f[e]
      PROVE  f[e].status \in Carried(e)
  <2>1. e \in DOMAIN run[r].items /\ f[e] = run[r].items[e]  BY <1>3, <1>9
  <2>2. r[1] = "location"  BY <1>5, <1>9, <2>1 DEF RunRight
  <2>3. r \in Sending(e)  BY <1>1, <2>1, <2>2 DEF Sending
  <2> QED  BY <2>1, <2>3 DEF Carried
<1> QED  BY <1>1, <1>4, <1>7, <1>8, <1>9, JobKeeps

\* A run ends, and what was posted late arrives.
LEMMA EndsKeep ==
  ASSUME CallsInv, StatusInv, part = "location",
         \/ \E r \in DOMAIN run, c \in Conns : Location!Unlock(r, c)
         \/ \E m \in late : Location!PostLands(m)
  PROVE  StatusInv'
<1>1. StatusTypes  BY DEF StatusInv
<1>2. CASE \E r \in DOMAIN run, c \in Conns : Location!Unlock(r, c)
  <2>1. PICK r \in DOMAIN run, c \in Conns : Location!Unlock(r, c)  BY <1>2
  <2>2. UNCHANGED <<db, req, hooks, mix, tms, late, torn>> /\ run' = Location!Without(run, r)
    BY <2>1 DEF Location!Unlock, Location!server
  <2>3. DOMAIN run' = DOMAIN run \ {r} /\ \A q \in DOMAIN run' : run'[q] = run[q]
    BY <2>2 DEF Location!Without, Location!Restrict
  <2>4. \A q \in DOMAIN run' : RunRight(q)'  BY <1>1, <2>3 DEF StatusTypes, RunRight
  <2>5. \A e \in Location!Ids \ torn', q \in DOMAIN run' :
          q \in Sending(e)' => q \in Sending(e) /\ run'[q].items[e].status = run[q].items[e].status
    BY <2>3 DEF Sending
  <2>6. PICK f : DOMAIN f = {}
    <3>1. DOMAIN [x \in {} |-> x] = {}  OBVIOUS
    <3> QED  BY <3>1
  <2>7. torn \subseteq torn' /\ late' \subseteq late  BY <2>2
  <2> QED  BY <2>2, <2>4, <2>5, <2>6, <2>7, JobKeeps, Zenon
<1>3. CASE \E m \in late : Location!PostLands(m)
  <2>1. PICK m \in late : Location!PostLands(m)  BY <1>3
  <2>2. PICK f : f = Location!With(<<>>, m.id, m.item)  OBVIOUS
  <2>3. DOMAIN f = {m.id} /\ f[m.id] = m.item  BY <2>2 DEF Location!With
  <2>4. /\ UNCHANGED <<db, req, hooks, mix, run, torn>> /\ late' \subseteq late /\ tms' = Location!Show(tms, f)
    BY <2>1, <2>2 DEF Location!PostLands, Location!server, Location!batch
  <2>5. ASSUME NEW e, e \in DOMAIN f, "status" \in DOMAIN f[e]  PROVE f[e].status \in Carried(e)
    <3>1. m \in Delayed(e) /\ f[e] = m.item  BY <2>3, <2>5 DEF Delayed
    <3> QED  BY <3>1 DEF Carried
  <2>6. \A q \in DOMAIN run' : RunRight(q)'  BY <1>1, <2>4 DEF StatusTypes, RunRight
  <2>7. \A e, q : q \in Sending(e)' => q \in Sending(e) /\ run'[q].items[e].status = run[q].items[e].status
    BY <2>4 DEF Sending
  <2>8. torn \subseteq torn'  BY <2>4
  <2> QED  BY <2>4, <2>5, <2>6, <2>7, <2>8, JobKeeps
<1> QED  BY <1>2, <1>3

\* A process ends, and the ids of its calls and webhooks are marked: its runs had nothing to tell
\* that TMS did not show.
LEMMA CrashKeeps == ASSUME CallsInv, StatusInv, part = "location", NEW c, Location!Crash(c)  PROVE StatusInv'
<1>1. /\ UNCHANGED <<db, tms, late, mix>> /\ torn \subseteq torn'
      /\ run' = Location!Restrict(run, {q \in DOMAIN run : q[2] # c.instance})
  BY DEF Location!Crash
<1>2. DOMAIN run' \subseteq DOMAIN run /\ \A q \in DOMAIN run' : run'[q] = run[q]
  BY <1>1 DEF Location!Restrict
<1>3. \/ UNCHANGED <<req, hooks>>
      \/ /\ req' = <<>> /\ hooks' = <<>>
         /\ torn' = torn \cup {Location!Driver(d) : d \in DOMAIN req} \cup {d.id : d \in DOMAIN hooks}
  BY DEF Location!Crash
<1>4. StatusTypes /\ \A e \in Location!Ids \ torn : StatusKept(e)  BY DEF StatusInv
<1>5. /\ Location!Ids' = Location!Ids /\ \A e : Location!RowsOf(e)' = Location!RowsOf(e) /\ Shown(tms)'
  BY <1>1, <1>4, TypesStay
<1>6. \A q \in DOMAIN run' : RunRight(q)'  BY <1>2, <1>4 DEF StatusTypes, RunRight
<1>7. StatusTypes'
  <2>1. \A d \in DOMAIN hooks' : hooks'[d].row # NULL => hooks'[d].row \in Location!RowsOf(d.id)'
    BY <1>3, <1>4, <1>5 DEF StatusTypes
  <2>2. \A d \in DOMAIN req' : req'[d].at = "send" => d.kind # "ping"  BY <1>3, <1>4 DEF StatusTypes
  <2> QED  BY <1>1, <1>4, <1>5, <1>6, <2>1, <2>2 DEF StatusTypes
<1>8. ASSUME NEW e \in Location!Ids \ torn'  PROVE StatusKept(e)'
  <2>1. StatusKept(e)  BY <1>1, <1>4, <1>8
  <2>2. Telling(e)' = Telling(e) /\ Hooked(e)' = Hooked(e) /\ \A d \in Telling(e) : req'[d] = req[d]
    <3>1. CASE UNCHANGED <<req, hooks>>  BY <1>1, <3>1 DEF Telling, Hooked, Location!Driver
    <3>2. CASE /\ req' = <<>> /\ hooks' = <<>>
               /\ torn' = torn \cup {Location!Driver(d) : d \in DOMAIN req} \cup {d.id : d \in DOMAIN hooks}
      <4>1. Telling(e) = {} /\ Hooked(e) = {}  BY <1>8, <3>2 DEF Telling, Hooked
      <4>2. Telling(e)' = {} /\ Hooked(e)' = {}  BY <3>2 DEF Telling, Hooked
      <4> QED  BY <4>1, <4>2
    <3> QED  BY <1>3, <3>1, <3>2
  <2>3. \A q \in DOMAIN run' : q \in Sending(e)' => q \in Sending(e) /\ run'[q].items[e].status = run[q].items[e].status
    BY <1>2 DEF Sending
  <2>4. \A m \in late' : m \in Delayed(e)' => m.item.status \in Carried(e)  BY <1>1 DEF Delayed, Carried
  <2>5. CarriesLess(e)  BY <2>2, <2>3, <2>4 DEF CarriesLess
  <2>6. Carried(e)' \subseteq Carried(e)  BY <2>5, LessCarried
  <2> QED  BY <1>1, <2>1, <2>2, <2>6, StaysKept
<1> QED  BY <1>1, <1>5, <1>7, <1>8 DEF StatusInv

-----------------------------------------------------------------------------
(* The status of a driver: the theorem.                                    *)

\* A finite set with two elements has more than one.
LEMMA TwoAreMore ==
  ASSUME NEW S, IsFiniteSet(S), ~(Cardinality(S) > 1), NEW x \in S, NEW y \in S
  PROVE  x = y
<1>1. SUFFICES ASSUME x # y  PROVE FALSE
  OBVIOUS
<1>2. IsFiniteSet({x}) /\ Cardinality({x}) = 1  BY FS_Singleton
<1>3. Cardinality({x} \cup {y}) = 2
  <2>1. y \notin {x}  BY <1>1
  <2>2. Cardinality({x} \cup {y}) = Cardinality({x}) + 1  BY <1>2, <2>1, FS_AddElement
  <2> QED  BY <1>2, <2>2
<1>4. {x} \cup {y} \subseteq S  OBVIOUS
<1>5. Cardinality({x} \cup {y}) <= Cardinality(S) /\ Cardinality(S) \in Nat  BY <1>4, FS_Subset, FS_CardinalityType
<1> QED  BY <1>3, <1>5

\* TMS shows every driver as the database has him; ids of two rows are marked.
LEMMA StatusInit == Init => StatusInv
<1> SUFFICES ASSUME Init, part = "location"  PROVE StatusInv
  BY DEF StatusInv
<1>1. /\ mix \in LocationMixes /\ db = mix.db /\ req = <<>> /\ hooks = <<>> /\ late = {} /\ run = <<>>
      /\ tms = [e \in Location!Ids |-> LET u == mix.db[CHOOSE r \in DOMAIN mix.db : mix.ext[r] = e]
                                       IN [status |-> u.status, place |-> u.place, seen |-> u.seen]]
      /\ torn = {e \in Location!Ids : Location!Cardinality(Location!RowsOf(e)) > 1}
  BY Zenon DEF Init, Location!Init
<1>2. DOMAIN req = {} /\ DOMAIN hooks = {} /\ DOMAIN run = {}  BY <1>1
<1>3. /\ DOMAIN mix.ext = DOMAIN mix.db /\ DOMAIN mix.db \subseteq Rows
      /\ \A r \in DOMAIN mix.db : DOMAIN mix.db[r] = Columns
  BY <1>1, LocationAssumption DEF Columns
<1>4. ASSUME NEW e \in Location!Ids
      PROVE  \E r \in Location!RowsOf(e) : tms[e].status = db[r].status /\ "status" \in DOMAIN tms[e]
  <2>1. PICK q \in DOMAIN mix.db : mix.ext[q] = e  BY <1>3 DEF Location!Ids, Location!Range
  <2>2. PICK r : r = CHOOSE x \in DOMAIN mix.db : mix.ext[x] = e  OBVIOUS
  <2>3. r \in DOMAIN mix.db /\ mix.ext[r] = e  BY <2>1, <2>2
  <2>4. PICK u : u = mix.db[r]  OBVIOUS
  <2>5. tms[e] = [status |-> u.status, place |-> u.place, seen |-> u.seen]  BY <1>1, <2>2, <2>4
  <2>6. tms[e].status = u.status /\ "status" \in DOMAIN tms[e]  BY <2>5
  <2> QED  BY <1>1, <2>3, <2>4, <2>6, Zenon DEF Location!RowsOf
<1>5. StatusTypes
  <2>1. DOMAIN tms = Location!Ids  BY <1>1
  <2> QED  BY <1>1, <1>2, <1>3, <1>4, <2>1 DEF StatusTypes, Shown
<1>6. ASSUME NEW e \in Location!Ids \ torn  PROVE StatusKept(e)
  <2>1. Location!RowsOf(e) \subseteq Rows  BY <1>1, <1>3 DEF Location!RowsOf
  <2>2. IsFiniteSet(Location!RowsOf(e))  BY <2>1, InstancesAssumption, FS_Subset
  <2>3. \A S : Location!Cardinality(S) = Cardinality(S)  BY DEF Location!Cardinality, Cardinality
  <2>4. ~(Cardinality(Location!RowsOf(e)) > 1)  BY <1>1, <1>6, <2>3
  <2>5. \A x, y \in Location!RowsOf(e) : x = y  BY <2>2, <2>4, TwoAreMore
  <2>6. Telling(e) = {} /\ Sending(e) = {} /\ Hooked(e) = {} /\ Delayed(e) = {}
    BY <1>1, <1>2 DEF Telling, Sending, Hooked, Delayed
  <2>7. Carried(e) = {}  BY <2>6 DEF Carried
  <2>8. \A x \in Location!RowsOf(e) : tms[e].status = db[x].status  BY <1>4, <1>6, <2>5
  <2> QED  BY <2>5, <2>6, <2>7, <2>8 DEF StatusKept
<1> QED  BY <1>5, <1>6 DEF StatusInv

\* Every step keeps the statuses.
LEMMA StatusNext == CallsInv /\ StatusInv /\ [Next]_vars => StatusInv'
<1> SUFFICES ASSUME CallsInv, StatusInv, [Next]_vars  PROVE StatusInv'
  OBVIOUS
<1>1. CASE LocationStep
  <2>1. part = "location" /\ Location!Next  BY <1>1 DEF LocationStep, InLocation
  <2>2. CASE \E c \in Location!Calls : Location!Arrive(c) \/ Location!Crash(c) \/ Location!SetInTms(c)
    BY <2>1, <2>2, ArriveKeeps, CrashKeeps, SetKeeps
  <2>3. CASE \E c \in Location!Calls : Location!Request(c)
    BY <2>1, <2>3, RefuseKeeps, SaveKeeps, PointKeeps, TellKeeps DEF Location!Request
  <2>4. CASE \E c \in Location!Calls : Location!Hook(c) \/ Location!HookLost(c)
    BY <2>1, <2>4, HookKeeps DEF Location!Hook
  <2>5. CASE \E c \in Location!Calls : Location!ChangeStatus(c)
    <3>1. PICK c : Location!ChangeStatus(c)  BY <2>5
    <3>2. UNCHANGED <<req, run, hooks, late, mix, tms, torn>> /\ db' = [db EXCEPT ![c.row].active = c.active]
      BY <3>1 DEF Location!ChangeStatus, Location!batch
    <3>3. RowsStay /\ \A r \in DOMAIN db : db'[r].status = db[r].status  BY <3>2 DEF RowsStay
    <3> QED  BY <2>1, <3>2, <3>3, RestKeeps
  <2>6. CASE \E i \in Instances, c \in Conns : Location!Begin(i, c)
    <3>1. PICK i \in Instances, c \in Conns, j \in Jobs : Location!Start(j, i, c)
      BY <2>6, InstancesAssumption DEF Location!Begin, Location!LocationTick, Location!AppTick
    <3> QED  BY <2>1, <3>1, StartKeeps
  <2>7. CASE \E r \in DOMAIN run : Location!Job(r)
    BY <2>1, <2>7, ReadKeeps, ChunkKeeps, EndsKeep DEF Location!Job
  <2>8. CASE \E m \in late : Location!PostLands(m)  BY <2>1, <2>8, EndsKeep
  <2>9. CASE (\E i \in Instances : Location!CoolDown(i)) \/ Location!Tick
    <3>1. UNCHANGED <<db, req, run, hooks, late, mix, tms, torn>>
      BY <2>9 DEF Location!CoolDown, Location!Tick, Location!server, Location!batch
    <3>2. RowsStay /\ \A r \in DOMAIN db : db'[r].status = db[r].status  BY <3>1 DEF RowsStay
    <3> QED  BY <2>1, <3>1, <3>2, RestKeeps
  <2> QED  BY <2>1, <2>2, <2>3, <2>4, <2>5, <2>6, <2>7, <2>8, <2>9 DEF Location!Next
<1>2. CASE DirectoryStep \/ NoticeStep \/ TemplateStep \/ BoardStep
  <2>1. part' # "location"
    BY <1>2 DEF DirectoryStep, NoticeStep, TemplateStep, BoardStep, InDirectory, InNotices, InTemplates, InBoard
  <2> QED  BY <2>1 DEF StatusInv
<1>3. CASE UNCHANGED vars
  <2>1. UNCHANGED <<part, db, req, run, hooks, late, mix, tms, torn>>  BY <1>3 DEF vars, locationVars
  <2>2. RowsStay /\ \A r \in DOMAIN db : db'[r].status = db[r].status  BY <2>1 DEF RowsStay
  <2>3. CASE part = "location"  BY <2>1, <2>2, <2>3, RestKeeps
  <2>4. CASE part # "location"  BY <2>1, <2>4 DEF StatusInv
  <2> QED  BY <2>3, <2>4
<1> QED  BY <1>1, <1>2, <1>3 DEF Next

\* When no call, run, webhook or late post is under way TMS shows the status of a driver that the
\* database has (updateUserLocation(), the driver webhook and sendBatch() of the location service),
\* whatever the calls, the crashes and the failures, but for the ids two writers of which crossed,
\* one failed, or a ping brought a status.
THEOREM StatusRight == Spec => []StatusAgrees
<1>1. CallsInv /\ StatusInv => StatusAgrees
  <2> SUFFICES ASSUME CallsInv, StatusInv, part = "location",
                      DOMAIN req = {} /\ DOMAIN run = {} /\ DOMAIN hooks = {} /\ late = {},
                      NEW r \in DOMAIN db, mix.ext[r] \notin torn
               PROVE  tms[mix.ext[r]].status = db[r].status
    BY DEF StatusAgrees, Location!StatusAgrees
  <2>1. PICK e : e = mix.ext[r]  OBVIOUS
  <2>2. DOMAIN mix.ext = DOMAIN db  BY LocationAssumption DEF CallsInv
  <2>3. e \in Location!Ids /\ r \in Location!RowsOf(e)  BY <2>1, <2>2 DEF Location!Ids, Location!Range, Location!RowsOf
  <2>4. StatusKept(e)  BY <2>1, <2>3 DEF StatusInv
  <2>5. Telling(e) = {} /\ Hooked(e) = {}  BY DEF Telling, Hooked
  <2> QED  BY <2>1, <2>3, <2>4, <2>5 DEF StatusKept
<1> QED  BY <1>1, CallsInit, CallsNext, StatusInit, StatusNext, PTL DEF Spec

-----------------------------------------------------------------------------
(* Notices and pushes: the invariant.                                      *)

Loops == {"private_created", "user_left", "participants_added", "participant_removed", "load"}
LoopStart(kind) == IF kind \in {"private_created", "load"} THEN "insert" ELSE "role"
Addressing == {"members", "receivers", "sender", "message_tokens"}
Willing == {"insert", "countRole", "count", "tell", "prefs", "tokens", "send"}

\* What a piece of work for user u has learnt did not speak against telling him all along.
Heeds(c, u, w) ==
  /\ Notices!Kind(c) \in Notices!Excluded /\ w.at \in Willing => "admin" \notin w.off[u]
  /\ w.at \in {"tokens", "send"} /\ c.kind # "message" => "disabled" \notin w.off[u]
  /\ c.kind = "react" /\ w.at \in {"prefs", "tokens", "send"} => w.off[u] \cap {"left", "muted"} = {}
  /\ w.at = "send" /\ c.kind # "message" => w.to = {u}

\* Of the push of a message: what it has learnt of all it is to go to.
Spares(c, w) ==
  /\ w.at \in {"receivers", "sender", "message_tokens", "send"} =>
       mix.type # "BID" /\ w.to \subseteq mix.users /\ \A v \in w.to : w.off[v] \cap {"left", "muted"} = {}
  /\ w.at = "sender" =>
       /\ DOMAIN w.seen \subseteq w.to
       /\ \A v \in DOMAIN w.seen :
            /\ "disabled" \in w.off[v] => ~w.seen[v].enabled
            /\ \A r \in {"blocked", "expired"} : r \in w.off[v] => w.seen[v].role = "driver" /\ w.seen[v].status = r
  /\ w.at \in {"message_tokens", "send"} =>
       \A v \in w.to :
         /\ w.off[v] \cap {"disabled", "blocked"} = {}
         /\ "expired" \in w.off[v] => c.system \/ (mix.type \in {"DIRECT", "OFFER"} /\ "unheard" \notin w.off[c.by])

WorkFields == {"at", "first", "adm", "n", "was", "late", "to", "seen", "off"}
WorkKept(t, w) ==
  /\ t = <<t[1], t[2]>> /\ t[1] \in mix.calls /\ DOMAIN w = WorkFields
  /\ DOMAIN w.off = mix.users /\ \A v \in mix.users : w.off[v] \subseteq Notices!Against(v, person, member)
  /\ (w.at \in Addressing => t[1].kind = "message") /\ (w.at = "mute" => t[1].kind = "react")
  /\ t[1].kind = "message" => w.at \in Addressing \cup {"send"} /\ t[2] = t[1].by
  /\ t[1].kind \in Loops => w.first = LoopStart(t[1].kind)
  /\ t[2] \in mix.users => Heeds(t[1], t[2], w) /\ (t[1].kind = "message" => Spares(t[1], w))

\* The stages of a job's work before the user counts as reached.
Before(k) == IF k = "broadcast" THEN {"prefs", "tokens", "send"} ELSE {"offer", "role", "insert"}
JobCalls(k) == {c \in mix.calls : c.kind \in Notices!PushJobs /\ Notices!QueueOf(c) = k}
QueueFields == {"pending", "draining", "job", "at", "left", "steady", "sent"}

\* A job has reached, is reaching or has yet to come to everybody it must reach.
QueueKept(k) ==
  /\ DOMAIN queue[k] = QueueFields /\ queue[k].pending \in Seq(JobCalls(k))
  /\ queue[k].job = NULL => queue[k] = Notices!Idle
  /\ queue[k].job # NULL =>
       /\ queue[k].draining /\ queue[k].job \in JobCalls(k)
       /\ queue[k].at \in {"fetch", IF k = "broadcast" THEN "batch" ELSE "chats"}
       /\ queue[k].steady \subseteq Notices!Steady(queue[k].job, person, token)
  /\ queue[k].at = "fetch" => queue[k].steady = {} /\ queue[k].sent = {}
  /\ queue[k].left \cap queue[k].sent = {} /\ (k = "offer" => queue[k].left = {})
  /\ \A u \in queue[k].steady \ (queue[k].sent \cup queue[k].left) :
       <<queue[k].job, u>> \in DOMAIN work /\ work[<<queue[k].job, u>>].at \in Before(k)

\* Work of a job is of the job under way, and for nobody reached or yet to come.
JobWork(t) ==
  LET k == Notices!QueueOf(t[1])
  IN /\ queue[k].job = t[1] /\ queue[k].at # "fetch" /\ t[2] \notin queue[k].left
     /\ work[t].at \in Before(k) => t[2] \notin queue[k].sent
     /\ k = "broadcast" => work[t].at \in Before(k)

JobsKept ==
  /\ DOMAIN queue = {"broadcast", "offer"} /\ queue = [k \in DOMAIN queue |-> queue[k]]
  /\ \A k \in DOMAIN queue : QueueKept(k)
  /\ \A t \in DOMAIN work : t[1].kind \in Notices!PushJobs => JobWork(t)

WorksKept == \A t \in DOMAIN work : WorkKept(t, work[t])

NoticeInv ==
  part = "notices" =>
    /\ mix \in NoticeMixes /\ todo \subseteq mix.calls /\ bothered = {} /\ missed = {}
    /\ DOMAIN person \subseteq mix.users /\ DOMAIN member \subseteq mix.users
    /\ \A c \in DOMAIN rest : c.kind \in Loops
    /\ WorksKept /\ JobsKept

-----------------------------------------------------------------------------
(* Notices and pushes: lemmas about work.                                  *)

\* Where work for a call may begin.
May(c, at) ==
  /\ at = "members" <=> c.kind = "message"
  /\ at \notin {"receivers", "sender", "message_tokens", "tokens", "send"}
  /\ Notices!Kind(c) \in Notices!Excluded => at \notin Willing
  /\ (c.kind = "react" => at # "prefs") /\ (at = "mute" => c.kind = "react")
  /\ c.kind \in Loops => at = LoopStart(c.kind)
Fresh(t, w) ==
  /\ t = <<t[1], t[2]>> /\ t[1] \in mix.calls
  /\ t[1].kind = "message" => t[2] = t[1].by
  /\ \E at : May(t[1], at) /\ w = Notices!Begun(at)

\* Work that begins has learnt nothing yet.
LEMMA FreshKept ==
  ASSUME NEW t, NEW w, Fresh(t, w)
  PROVE  WorkKept(t, w)
<1>1. PICK at : May(t[1], at) /\ w = Notices!Begun(at)  BY DEF Fresh
<1>2. t = <<t[1], t[2]>> /\ t[1] \in mix.calls /\ (t[1].kind = "message" => t[2] = t[1].by)  BY DEF Fresh
<1>3. /\ DOMAIN w = WorkFields /\ w.at = at /\ w.first = at
      /\ w.off = [u \in mix.users |-> Notices!Against(u, person, member)]
  BY <1>1 DEF Notices!Begun, WorkFields
<1>4. (at \in Addressing => t[1].kind = "message") /\ (at = "mute" => t[1].kind = "react")  BY <1>1 DEF May, Addressing
<1>5. t[1].kind = "message" => at = "members"  BY <1>1 DEF May
<1>6. t[1].kind \in Loops => at = LoopStart(t[1].kind)  BY <1>1 DEF May
<1>7. Heeds(t[1], t[2], w)  BY <1>1, <1>3 DEF May, Heeds
<1>8. t[1].kind = "message" => Spares(t[1], w)  BY <1>3, <1>5 DEF Spares
<1> QED  BY <1>2, <1>3, <1>4, <1>5, <1>6, <1>7, <1>8 DEF WorkKept, Addressing

\* Each piece of work is what it was, has begun, or has learnt what it is to know.
LEMMA WorksFrame ==
  ASSUME WorksKept, UNCHANGED <<person, member, mix>>,
         \A t \in DOMAIN work' : \/ t \in DOMAIN work /\ work'[t] = work[t]
                                 \/ Fresh(t, work'[t])
                                 \/ WorkKept(t, work'[t])
  PROVE  WorksKept'
<1>1. ASSUME NEW t \in DOMAIN work'  PROVE WorkKept(t, work[t])'
  <2>1. PICK w : w = work'[t]  OBVIOUS
  <2>2. WorkKept(t, w)  BY <1>1, <2>1, FreshKept DEF WorksKept
  <2>3. WorkKept(t, w)'  BY <2>2 DEF WorkKept, Spares
  <2> QED  BY <2>1, <2>3
<1> QED  BY <1>1 DEF WorksKept

\* A job need not reach this one any more.
Spent(t) ==
  LET k == Notices!QueueOf(t[1]) IN work[t].at \notin Before(k) \/ t[2] \notin queue[k].steady
\* A job is as far as it was with this one.
AsFar(t) ==
  LET k == Notices!QueueOf(t[1]) IN work'[t].at \in Before(k) <=> work[t].at \in Before(k)

\* There are two queues.
LEMMA QueueOfJob ==
  ASSUME NEW c  PROVE Notices!QueueOf(c) \in {"broadcast", "offer"}
BY DEF Notices!QueueOf

\* The queues stay, and so does the work of their jobs, but for those who need not be reached.
LEMMA JobsFrame ==
  ASSUME JobsKept, UNCHANGED <<person, token, mix, queue>>,
         \A t \in DOMAIN work' : t[1].kind \in Notices!PushJobs => t \in DOMAIN work /\ AsFar(t),
         \A t \in DOMAIN work : t[1].kind \in Notices!PushJobs /\ t \notin DOMAIN work' => Spent(t)
  PROVE  JobsKept'
<1>1. ASSUME NEW k \in DOMAIN queue'  PROVE QueueKept(k)'
  <2>1. k \in DOMAIN queue /\ QueueKept(k) /\ k \in {"broadcast", "offer"}  BY <1>1 DEF JobsKept
  <2>2. JobCalls(k)' = JobCalls(k)  BY DEF JobCalls
  <2>3. ASSUME NEW u \in queue'[k].steady \ (queue'[k].sent \cup queue'[k].left)
        PROVE  <<queue'[k].job, u>> \in DOMAIN work' /\ work'[<<queue'[k].job, u>>].at \in Before(k)
    <3>1. PICK t : t = <<queue[k].job, u>>  BY Zenon
    <3>2. t \in DOMAIN work /\ work[t].at \in Before(k)  BY <2>1, <2>3, <3>1 DEF QueueKept
    <3>3. queue[k].job # NULL
      <4>1. SUFFICES ASSUME queue[k].job = NULL  PROVE FALSE  OBVIOUS
      <4>2. queue[k].steady = {}  BY <2>1, <4>1 DEF QueueKept, Notices!Idle
      <4> QED  BY <2>3, <4>2
    <3>4. t[1] = queue[k].job /\ t[2] = u /\ t[1].kind \in Notices!PushJobs /\ Notices!QueueOf(t[1]) = k
      BY <2>1, <3>1, <3>3 DEF QueueKept, JobCalls
    <3>5. ~Spent(t)  BY <2>3, <3>2, <3>4 DEF Spent
    <3>6. t \in DOMAIN work' /\ AsFar(t)  BY <3>2, <3>4, <3>5
    <3> QED  BY <3>1, <3>2, <3>4, <3>6 DEF AsFar
  <2>4. Notices!Idle' = Notices!Idle /\ Before(k)' = Before(k)
        /\ Notices!Steady(queue[k].job, person, token)' = Notices!Steady(queue[k].job, person, token)
    BY DEF Notices!Idle, Before, Notices!Steady, Notices!Targets, Notices!Target
  <2> QED  BY <2>1, <2>2, <2>3, <2>4 DEF QueueKept
<1>2. ASSUME NEW t \in DOMAIN work', t[1].kind \in Notices!PushJobs  PROVE JobWork(t)'
  <2>1. t \in DOMAIN work /\ AsFar(t) /\ JobWork(t)  BY <1>2 DEF JobsKept
  <2> QED  BY <2>1 DEF JobWork, AsFar
<1> QED  BY <1>1, <1>2 DEF JobsKept

\* The job of the queue has reached u, whose work is done or goes on past that.
LEMMA JobsReached ==
  ASSUME JobsKept, WorksKept, UNCHANGED <<person, token, mix>>,
         NEW c, NEW u, c # NULL, <<c, u>> \in DOMAIN work, c.kind \in Notices!PushJobs, queue' = Notices!Reached(c, u),
         work[<<c, u>>].at \in Before(Notices!QueueOf(c)),
         <<c, u>> \in DOMAIN work' => c.kind = "offer_job" /\ work'[<<c, u>>].at \notin Before("offer"),
         \A t \in DOMAIN work' : t # <<c, u>> /\ t[1].kind \in Notices!PushJobs => t \in DOMAIN work /\ work'[t] = work[t],
         \A t \in DOMAIN work : t # <<c, u>> => t \in DOMAIN work'
  PROVE  JobsKept'
<1> DEFINE j == Notices!QueueOf(c)
<1>1. /\ j \in {"broadcast", "offer"} /\ queue[j].job = c /\ queue[j].at # "fetch" /\ u \notin queue[j].left
      /\ u \notin queue[j].sent /\ c \in mix.calls
  <2>1. JobWork(<<c, u>>) /\ WorkKept(<<c, u>>, work[<<c, u>>])  BY DEF JobsKept, WorksKept
  <2> QED  BY <2>1 DEF JobWork, WorkKept, Notices!QueueOf
<1> HIDE DEF j
<1>2. DOMAIN queue' = DOMAIN queue /\ DOMAIN queue = {"broadcast", "offer"}
      /\ \A k \in DOMAIN queue : queue'[k] = IF queue[k].job = c THEN [queue[k] EXCEPT !.sent = queue[k].sent \cup {u}] ELSE queue[k]
  BY DEF Notices!Reached, JobsKept
<1>3. ASSUME NEW k \in DOMAIN queue  PROVE queue[k].job = c => k = j
  BY <1>3 DEF JobsKept, QueueKept, JobCalls, j
<1>4. ASSUME NEW k \in DOMAIN queue
      PROVE  /\ DOMAIN queue'[k] = QueueFields /\ queue'[k].pending = queue[k].pending /\ queue'[k].job = queue[k].job
             /\ queue'[k].at = queue[k].at /\ queue'[k].left = queue[k].left /\ queue'[k].steady = queue[k].steady
             /\ queue'[k].draining = queue[k].draining
             /\ queue'[k].sent = IF queue[k].job = c THEN queue[k].sent \cup {u} ELSE queue[k].sent
             /\ queue[k].job # c => queue'[k] = queue[k]
  <2>1. DOMAIN queue[k] = QueueFields  BY <1>4 DEF JobsKept, QueueKept
  <2>2. CASE queue[k].job # c  BY <1>2, <2>1, <2>2
  <2>3. CASE queue[k].job = c
    <3>1. queue'[k] = [queue[k] EXCEPT !.sent = queue[k].sent \cup {u}]  BY <1>2, <2>3, Zenon
    <3> QED  BY <2>1, <2>3, <3>1 DEF QueueFields
  <2> QED  BY <2>2, <2>3
<1>5. ASSUME NEW k \in DOMAIN queue'  PROVE QueueKept(k)'
  <2>1. k \in DOMAIN queue /\ QueueKept(k) /\ k \in {"broadcast", "offer"}  BY <1>2, <1>5 DEF JobsKept
  <2>2. JobCalls(k)' = JobCalls(k)  BY DEF JobCalls
  <2>3. ASSUME NEW v \in queue'[k].steady \ (queue'[k].sent \cup queue'[k].left)
        PROVE  <<queue'[k].job, v>> \in DOMAIN work' /\ work'[<<queue'[k].job, v>>].at \in Before(k)
    <3>1. PICK t : t = <<queue[k].job, v>>  BY Zenon
    <3>2. t \in DOMAIN work /\ work[t].at \in Before(k)  BY <1>4, <2>1, <2>3, <3>1, Zenon DEF QueueKept
    <3>3. t # <<c, u>>  BY <1>4, <2>1, <2>3, <3>1, Zenon
    <3>4. queue[k].job # NULL
      <4>1. SUFFICES ASSUME queue[k].job = NULL  PROVE FALSE  OBVIOUS
      <4>2. queue[k].steady = {}  BY <2>1, <4>1 DEF QueueKept, Notices!Idle
      <4> QED  BY <1>4, <2>1, <2>3, <4>2, Zenon
    <3>5. t[1] = queue[k].job /\ t[1].kind \in Notices!PushJobs  BY <2>1, <3>1, <3>4 DEF QueueKept, JobCalls
    <3>6. t \in DOMAIN work' /\ work'[t] = work[t]  BY <3>2, <3>3, <3>5
    <3> QED  BY <1>4, <2>1, <3>1, <3>2, <3>6, Zenon
  <2>4. Notices!Idle' = Notices!Idle /\ Before(k)' = Before(k)
        /\ Notices!Steady(queue[k].job, person, token)' = Notices!Steady(queue'[k].job, person, token)
    BY <1>4, <2>1 DEF Notices!Idle, Before, Notices!Steady, Notices!Targets, Notices!Target
  <2>5. queue[k].job = c => k = j /\ c # NULL /\ queue[k].at # "fetch"  BY <1>1, <1>3, <2>1
  <2>6. queue'[k].left \cap queue'[k].sent = {}
    <3>1. queue[k].left \cap queue[k].sent = {}  BY <2>1 DEF QueueKept
    <3>2. queue[k].job = c => u \notin queue[k].left  BY <1>1, <2>5
    <3> QED  BY <1>4, <2>1, <3>1, <3>2, Zenon
  <2>7. CASE queue[k].job # c
    <3>1. queue'[k] = queue[k]  BY <1>4, <2>1, <2>7, Zenon
    <3> QED  BY <2>1, <2>2, <2>3, <2>4, <3>1 DEF QueueKept
  <2>8. CASE queue[k].job = c
    <3>1. /\ DOMAIN queue'[k] = QueueFields /\ queue'[k].pending = queue[k].pending /\ queue'[k].job = queue[k].job
          /\ queue'[k].at = queue[k].at /\ queue'[k].left = queue[k].left /\ queue'[k].steady = queue[k].steady
          /\ queue'[k].draining = queue[k].draining /\ queue[k].job # NULL /\ queue[k].at # "fetch"
      BY <1>4, <2>1, <2>5, <2>8, Zenon
    <3> QED  BY <2>1, <2>2, <2>3, <2>4, <2>6, <3>1 DEF QueueKept
  <2> QED  BY <2>7, <2>8
<1>6. ASSUME NEW t \in DOMAIN work', t[1].kind \in Notices!PushJobs  PROVE JobWork(t)'
  <2>1. CASE t = <<c, u>>
    <3>1. t[1] = c /\ t[2] = u /\ j = "offer"  BY <1>6, <2>1 DEF j, Notices!QueueOf
    <3> QED  BY <1>1, <1>2, <1>4, <1>6, <2>1, <3>1 DEF JobWork, j
  <2>2. CASE t # <<c, u>>
    <3>1. t \in DOMAIN work /\ work'[t] = work[t] /\ JobWork(t) /\ t = <<t[1], t[2]>>
      BY <1>6, <2>2 DEF JobsKept, WorksKept, WorkKept
    <3>2. Notices!QueueOf(t[1]) \in DOMAIN queue  BY <1>2, QueueOfJob
    <3>3. t[1] = c => t[2] # u  BY <2>2, <3>1
    <3>4. PICK k \in DOMAIN queue : k = Notices!QueueOf(t[1])  BY <3>2
    <3>5. /\ queue[k].job = t[1] /\ queue[k].at # "fetch" /\ t[2] \notin queue[k].left
          /\ work[t].at \in Before(k) => t[2] \notin queue[k].sent
          /\ k = "broadcast" => work[t].at \in Before(k)
      BY <3>1, <3>4 DEF JobWork
    <3>6. /\ queue'[k].job = queue[k].job /\ queue'[k].at = queue[k].at /\ queue'[k].left = queue[k].left
          /\ queue'[k].sent = IF queue[k].job = c THEN queue[k].sent \cup {u} ELSE queue[k].sent
      BY <1>4, <3>4, Zenon
    <3>7. t[2] \in queue'[k].sent => t[2] \in queue[k].sent  BY <3>3, <3>5, <3>6
    <3> QED  BY <3>1, <3>4, <3>5, <3>6, <3>7 DEF JobWork
  <2> QED  BY <2>1, <2>2
<1>7. queue' = [k \in DOMAIN queue' |-> queue'[k]]  BY DEF Notices!Reached
<1> QED  BY <1>2, <1>5, <1>6, <1>7 DEF JobsKept
\* A piece of work ends, and the loop it is in begins its next one.
LEMMA EndWorks ==
  ASSUME WorksKept, \A d \in DOMAIN rest : d.kind \in Loops,
         NEW c, NEW u, <<c, u>> \in DOMAIN work, Notices!End(c, u)
  PROVE  /\ \A t \in DOMAIN work' : \/ t \in DOMAIN work /\ t # <<c, u>> /\ work'[t] = work[t]
                                    \/ Fresh(t, work'[t]) /\ t[1].kind \in Loops
         /\ \A t \in DOMAIN work : t # <<c, u>> => t \in DOMAIN work'
         /\ \A d \in DOMAIN rest' : d.kind \in Loops
<1>1. WorkKept(<<c, u>>, work[<<c, u>>])  BY DEF WorksKept
<1>2. CASE c \in DOMAIN rest /\ rest[c] # <<>>
  <2> DEFINE next == <<c, Head(rest[c])>>
             w == Notices!Begun(work[<<c, u>>].first)
  <2>1. /\ DOMAIN work' = (DOMAIN work \ {<<c, u>>}) \cup {next} /\ DOMAIN rest' = DOMAIN rest
        /\ work'[next] = w
        /\ \A t \in DOMAIN work' : t # next => t \in DOMAIN work /\ t # <<c, u>> /\ work'[t] = work[t]
    <3>1. PICK f, a, x, v : f = work /\ a = <<c, u>> /\ x = next /\ v = w  OBVIOUS
    <3>2. work' = Notices!With(Notices!Without(f, a), x, v) /\ DOMAIN rest' = DOMAIN rest  BY <1>2, <3>1 DEF Notices!End
    <3>3. /\ DOMAIN work' = (DOMAIN f \ {a}) \cup {x} /\ work'[x] = v
          /\ \A t \in DOMAIN work' : t # x => t \in DOMAIN f /\ t # a /\ work'[t] = f[t]
      BY <3>2 DEF Notices!With, Notices!Without, Notices!Restrict
    <3> HIDE DEF next, w
    <3> QED  BY <3>1, <3>2, <3>3
  <2>2. c.kind \in Loops  BY <1>2
  <2>3. c \in mix.calls /\ work[<<c, u>>].first = LoopStart(c.kind)  BY <1>1, <2>2 DEF WorkKept
  <2>4. May(c, LoopStart(c.kind))
    BY <2>2 DEF May, LoopStart, Loops, Willing, Notices!Kind, Notices!Excluded, Notices!OfferKinds, Notices!GroupKinds
  <2>5. Fresh(next, w)  BY <2>2, <2>3, <2>4 DEF Fresh, Loops
  <2>6. next[1].kind \in Loops  BY <2>2
  <2> HIDE DEF next, w
  <2> QED  BY <2>1, <2>5, <2>6
<1>3. CASE ~(c \in DOMAIN rest /\ rest[c] # <<>>)
  <2>1. work' = Notices!Without(work, <<c, u>>) /\ rest' = Notices!Without(rest, c)  BY <1>3 DEF Notices!End
  <2> QED  BY <2>1 DEF Notices!Without, Notices!Restrict
<1> QED  BY <1>2, <1>3

\* No loop is one of a job.
LEMMA LoopsNoJobs == Loops \cap Notices!PushJobs = {}
BY DEF Loops, Notices!PushJobs

\* The work that ends may be one of a job for somebody who need not be reached.
LEMMA EndKept ==
  ASSUME WorksKept, JobsKept, \A d \in DOMAIN rest : d.kind \in Loops,
         NEW c, NEW u, <<c, u>> \in DOMAIN work, Notices!End(c, u),
         UNCHANGED <<person, token, member, mix, queue>>,
         c.kind \in Notices!PushJobs => Spent(<<c, u>>)
  PROVE  WorksKept' /\ JobsKept' /\ \A d \in DOMAIN rest' : d.kind \in Loops
<1>1. /\ \A t \in DOMAIN work' : \/ t \in DOMAIN work /\ t # <<c, u>> /\ work'[t] = work[t]
                                 \/ Fresh(t, work'[t]) /\ t[1].kind \in Loops
      /\ \A t \in DOMAIN work : t # <<c, u>> => t \in DOMAIN work'
      /\ \A d \in DOMAIN rest' : d.kind \in Loops
  BY EndWorks
<1>2. WorksKept'  BY <1>1, WorksFrame
<1>3. \A t \in DOMAIN work' : t[1].kind \in Notices!PushJobs => t \in DOMAIN work /\ AsFar(t)
  BY <1>1, LoopsNoJobs DEF AsFar
<1>4. \A t \in DOMAIN work : t[1].kind \in Notices!PushJobs /\ t \notin DOMAIN work' => Spent(t)
  BY <1>1
<1> QED  BY <1>1, <1>2, <1>3, <1>4, JobsFrame

\* A piece of work goes on, and learns something.
LEMMA MoveKept ==
  ASSUME WorksKept, JobsKept, NEW c, NEW u, NEW w, <<c, u>> \in DOMAIN work,
         DOMAIN work' = DOMAIN work, work'[<<c, u>>] = w, \A t \in DOMAIN work : t # <<c, u>> => work'[t] = work[t],
         UNCHANGED <<person, token, member, mix, queue>>,
         WorkKept(<<c, u>>, w),
         c.kind \in Notices!PushJobs =>
           (w.at \in Before(Notices!QueueOf(c)) <=> work[<<c, u>>].at \in Before(Notices!QueueOf(c)))
  PROVE  WorksKept' /\ JobsKept'
<1>1. WorksKept'  BY WorksFrame
<1>2. \A t \in DOMAIN work' : t[1].kind \in Notices!PushJobs => t \in DOMAIN work /\ AsFar(t)
  BY DEF AsFar
<1> QED  BY <1>1, <1>2, JobsFrame

\* Work begins for a call that is no job.
LEMMA BeginKept ==
  ASSUME WorksKept, JobsKept, UNCHANGED <<person, token, member, mix, queue>>,
         \A t \in DOMAIN work : t \in DOMAIN work',
         \A t \in DOMAIN work' : \/ t \in DOMAIN work /\ work'[t] = work[t]
                                 \/ Fresh(t, work'[t]) /\ t[1].kind \notin Notices!PushJobs
  PROVE  WorksKept' /\ JobsKept'
<1>1. WorksKept'  BY WorksFrame
<1>2. \A t \in DOMAIN work' : t[1].kind \in Notices!PushJobs => t \in DOMAIN work /\ AsFar(t)
  BY DEF AsFar
<1> QED  BY <1>1, <1>2, JobsFrame

\* Work begins for one recipient after the other, or for all at once.
LEMMA InTurnBegins ==
  ASSUME WorksKept, JobsKept, \A d \in DOMAIN rest : d.kind \in Loops, UNCHANGED <<person, token, member, mix, queue>>,
         NEW c \in mix.calls, NEW to, NEW at, Notices!InTurn(c, to, at), c.kind \in Loops, at = LoopStart(c.kind)
  PROVE  WorksKept' /\ JobsKept' /\ \A d \in DOMAIN rest' : d.kind \in Loops
<1>1. May(c, at)
  BY DEF May, LoopStart, Loops, Willing, Notices!Kind, Notices!Excluded, Notices!OfferKinds, Notices!GroupKinds
<1>2. Fresh(<<c, Head(to)>>, Notices!Begun(at))  BY <1>1 DEF Fresh, Loops
<1>3. /\ \A t \in DOMAIN work : t \in DOMAIN work'
      /\ \A t \in DOMAIN work' : \/ t \in DOMAIN work /\ work'[t] = work[t]
                                 \/ t = <<c, Head(to)>> /\ work'[t] = Notices!Begun(at)
      /\ \A d \in DOMAIN rest' : d \in DOMAIN rest \/ d = c
  BY DEF Notices!InTurn, Notices!With
<1>4. <<c, Head(to)>>[1].kind \notin Notices!PushJobs  BY LoopsNoJobs
<1>5. WorksKept' /\ JobsKept'  BY <1>2, <1>3, <1>4, BeginKept
<1> QED  BY <1>3, <1>5

\* Work that is no job's begins all at once.
LEMMA AtOnceBegins ==
  ASSUME WorksKept, JobsKept, \A d \in DOMAIN rest : d.kind \in Loops, UNCHANGED <<person, token, member, mix, queue>>,
         NEW c \in mix.calls, NEW to, NEW at, Notices!AtOnce(c, to, at), May(c, at), c.kind \notin Notices!PushJobs,
         c.kind = "message" => to \subseteq {c.by}
  PROVE  WorksKept' /\ JobsKept' /\ \A d \in DOMAIN rest' : d.kind \in Loops
<1>1. /\ rest' = rest /\ \A t \in DOMAIN work : t \in DOMAIN work'
      /\ \A t \in DOMAIN work' : \/ t \in DOMAIN work /\ work'[t] = work[t]
                                 \/ /\ \E u \in to : t = <<c, u>>
                                    /\ work'[t] = Notices!Begun(at)
  BY DEF Notices!AtOnce
<1>2. ASSUME NEW u \in to  PROVE Fresh(<<c, u>>, Notices!Begun(at)) /\ <<c, u>>[1].kind \notin Notices!PushJobs
  BY <1>2 DEF Fresh
<1>3. WorksKept' /\ JobsKept'  BY <1>1, <1>2, BeginKept
<1> QED  BY <1>1, <1>3

\* What is left to show of a step that changes nothing but work.
LEMMA NoticeAgain ==
  ASSUME NoticeInv, part = "notices", part' = part, mix' = mix, todo' \subseteq todo, bothered' = {}, missed' = {},
         DOMAIN person' \subseteq DOMAIN person, DOMAIN member' \subseteq DOMAIN member,
         \A d \in DOMAIN rest' : d.kind \in Loops, WorksKept', JobsKept'
  PROVE  NoticeInv'
BY DEF NoticeInv

-----------------------------------------------------------------------------
(* Notices and pushes: a piece of work goes on.                            *)

\* The parts of the invariant, and what the assumption says of the mix.
LEMMA NoticeFacts ==
  ASSUME NoticeInv, part = "notices"
  PROVE  /\ mix \in NoticeMixes /\ todo \subseteq mix.calls /\ bothered = {} /\ missed = {}
         /\ DOMAIN person \subseteq mix.users /\ DOMAIN member \subseteq mix.users
         /\ \A d \in DOMAIN rest : d.kind \in Loops
         /\ WorksKept /\ JobsKept
         /\ NULL \notin mix.calls /\ NULL \notin {"fetch", "batch", "chats"}
BY NoticeAssumption DEF NoticeInv

\* What speaks against telling v, as far as a piece of work knows, still does.
LEMMA Reasoned ==
  ASSUME WorksKept, NEW t \in DOMAIN work, NEW v \in mix.users
  PROVE  /\ "admin" \in work[t].off[v] => Notices!IsAdmin(v)
         /\ "disabled" \in work[t].off[v] => v \in DOMAIN person /\ ~person[v].enabled
         /\ "left" \in work[t].off[v] => v \notin DOMAIN member
         /\ "muted" \in work[t].off[v] => v \in DOMAIN member /\ member[v]
         /\ \A r \in {"blocked", "expired"} : r \in work[t].off[v] =>
              v \in DOMAIN person /\ person[v].role = "driver" /\ person[v].status = r
         /\ "unheard" \in work[t].off[v] => (v \in DOMAIN person => person[v].role \notin Notices!Heard)
<1>1. work[t].off[v] \subseteq Notices!Against(v, person, member)  BY DEF WorksKept, WorkKept
<1>2. \A r \in work[t].off[v] : Notices!Holds(r, v, person, member)  BY <1>1 DEF Notices!Against
<1> QED  BY <1>2 DEF Notices!Holds, Notices!IsAdmin

\* A piece of work goes on.
LEMMA Goes ==
  ASSUME NoticeInv, part = "notices", part' = part, NEW c, NEW u, NEW w, <<c, u>> \in DOMAIN work,
         DOMAIN work' = DOMAIN work, work'[<<c, u>>] = w, \A t \in DOMAIN work : t # <<c, u>> => work'[t] = work[t],
         UNCHANGED <<person, token, member, mix, queue, rest, todo, bothered, missed>>,
         WorkKept(<<c, u>>, w),
         c.kind \in Notices!PushJobs =>
           (w.at \in Before(Notices!QueueOf(c)) <=> work[<<c, u>>].at \in Before(Notices!QueueOf(c)))
  PROVE  NoticeInv'
<1>1. WorksKept /\ JobsKept /\ \A d \in DOMAIN rest' : d.kind \in Loops  BY NoticeFacts
<1>2. WorksKept' /\ JobsKept'  BY <1>1, MoveKept
<1> QED  BY <1>1, <1>2, NoticeFacts, NoticeAgain

\* A piece of work ends.
LEMMA WorkEnds ==
  ASSUME NoticeInv, part = "notices", part' = part, NEW c, NEW u, <<c, u>> \in DOMAIN work, Notices!End(c, u),
         UNCHANGED <<person, token, member, mix, queue, todo, bothered, missed>>,
         c.kind \in Notices!PushJobs => Spent(<<c, u>>)
  PROVE  NoticeInv'
<1>1. WorksKept /\ JobsKept /\ \A d \in DOMAIN rest : d.kind \in Loops  BY NoticeFacts
<1>2. WorksKept' /\ JobsKept' /\ \A d \in DOMAIN rest' : d.kind \in Loops  BY <1>1, EndKept
<1> QED  BY <1>2, NoticeFacts, NoticeAgain

\* A piece of work, not of the push of a message, goes on to its next stage.
LEMMA LearnGoes ==
  ASSUME NoticeInv, part = "notices", part' = part, NEW c, NEW u \in mix.users, NEW at, NEW w,
         Notices!At(c, u, at), work' = [work EXCEPT ![<<c, u>>] = w],
         UNCHANGED <<person, token, member, mix, queue, rest, todo, bothered, missed>>,
         at \notin Addressing \cup {"send"}, w.at \notin Addressing \cup {"mute"},
         DOMAIN w = WorkFields, w.off = work[<<c, u>>].off, w.first = work[<<c, u>>].first,
         Notices!Kind(c) \in Notices!Excluded /\ w.at \in Willing => "admin" \notin w.off[u],
         w.at \in {"tokens", "send"} => "disabled" \notin w.off[u],
         c.kind = "react" /\ w.at \in {"prefs", "tokens", "send"} => w.off[u] \cap {"left", "muted"} = {},
         w.at = "send" => w.to = {u},
         c.kind \in Notices!PushJobs => (w.at \in Before(Notices!QueueOf(c)) <=> at \in Before(Notices!QueueOf(c)))
  PROVE  NoticeInv'
<1>1. <<c, u>> \in DOMAIN work /\ work[<<c, u>>].at = at  BY DEF Notices!At
<1>2. WorkKept(<<c, u>>, work[<<c, u>>])  BY <1>1, NoticeFacts DEF WorksKept
<1>3. c.kind # "message"  BY <1>1, <1>2 DEF WorkKept
<1>4. Heeds(c, u, w)  BY <1>3 DEF Heeds
<1>5. WorkKept(<<c, u>>, w)  BY <1>2, <1>3, <1>4 DEF WorkKept
<1> QED  BY <1>1, <1>5, Goes

\* A piece of work passes to the next stage having learnt nothing that spoke against it.
LEMMA PassGoes ==
  ASSUME NoticeInv, part = "notices", part' = part, NEW c, NEW u \in mix.users, NEW at, NEW next,
         Notices!At(c, u, at), Notices!Pass(c, u, next),
         UNCHANGED <<person, token, member, mix, queue, todo, bothered, missed>>,
         at \notin Addressing \cup {"send"}, next \notin Addressing \cup {"send", "mute"},
         Notices!Kind(c) \in Notices!Excluded /\ next \in Willing => "admin" \notin work[<<c, u>>].off[u],
         next = "tokens" => "disabled" \notin work[<<c, u>>].off[u],
         c.kind = "react" /\ next \in {"prefs", "tokens"} => work[<<c, u>>].off[u] \cap {"left", "muted"} = {},
         c.kind \in Notices!PushJobs => (next \in Before(Notices!QueueOf(c)) <=> at \in Before(Notices!QueueOf(c)))
  PROVE  NoticeInv'
<1> DEFINE w == [work[<<c, u>>] EXCEPT !.at = next]
<1>1. DOMAIN work[<<c, u>>] = WorkFields  BY NoticeFacts DEF WorksKept, WorkKept, Notices!At
<1>2. work' = [work EXCEPT ![<<c, u>>] = w] /\ rest' = rest  BY DEF Notices!Pass
<1>3. DOMAIN w = WorkFields /\ w.at = next /\ w.off = work[<<c, u>>].off /\ w.first = work[<<c, u>>].first
  BY <1>1 DEF WorkFields
<1> HIDE DEF w
<1> QED  BY <1>2, <1>3, LearnGoes, Zenon

\* The work of a job, by its stage.
LEMMA JobStages ==
  ASSUME JobsKept, NEW c, NEW u, <<c, u>> \in DOMAIN work, c.kind \in Notices!PushJobs
  PROVE  /\ \/ c.kind = "broadcast" /\ Notices!QueueOf(c) = "broadcast" /\ work[<<c, u>>].at \in Before("broadcast")
            \/ c.kind = "offer_job" /\ Notices!QueueOf(c) = "offer"
         /\ LET k == Notices!QueueOf(c)
            IN k \in DOMAIN queue /\ queue[k].job = c /\ queue[k].steady \subseteq Notices!Steady(c, person, token)
<1>1. JobWork(<<c, u>>)  BY DEF JobsKept
<1>2. \/ c.kind = "broadcast" /\ Notices!QueueOf(c) = "broadcast"
      \/ c.kind = "offer_job" /\ Notices!QueueOf(c) = "offer"
  BY DEF Notices!PushJobs, Notices!QueueOf
<1>3. Notices!QueueOf(c) \in DOMAIN queue /\ queue[Notices!QueueOf(c)].job = c
  BY <1>1, <1>2 DEF JobsKept, JobWork
<1>4. queue[Notices!QueueOf(c)].steady \subseteq Notices!Steady(c, person, token)
  <2>1. PICK k \in DOMAIN queue : k = Notices!QueueOf(c)  BY <1>3
  <2>2. QueueKept(k) /\ queue[k].job = c  BY <1>3, <2>1 DEF JobsKept
  <2>3. CASE c = NULL  BY <2>1, <2>2, <2>3 DEF QueueKept, Notices!Idle
  <2>4. CASE c # NULL  BY <2>1, <2>2, <2>4 DEF QueueKept
  <2> QED  BY <2>3, <2>4
<1>5. Notices!QueueOf(c) = "broadcast" => work[<<c, u>>].at \in Before("broadcast")  BY <1>1 DEF JobWork
<1> QED  BY <1>2, <1>3, <1>4, <1>5

\* Who need not be reached: whoever the work has come past, or the job is not for.
LEMMA SpentWork ==
  ASSUME JobsKept, NEW c, NEW u, <<c, u>> \in DOMAIN work, c.kind \in Notices!PushJobs,
         \/ c.kind = "offer_job" /\ work[<<c, u>>].at \notin Before("offer")
         \/ u \notin Notices!Steady(c, person, token)
  PROVE  Spent(<<c, u>>)
BY JobStages DEF Spent, JobsKept, JobWork, Before

\* A piece of work ends that no job waits for.
LEMMA EndsPast ==
  ASSUME NoticeInv, part = "notices", part' = part, NEW c, NEW u, NEW at, Notices!At(c, u, at), Notices!End(c, u),
         UNCHANGED <<person, token, member, mix, queue, todo, bothered, missed>>,
         at \notin Before("offer") \cup Before("broadcast")
  PROVE  NoticeInv'
<1>1. <<c, u>> \in DOMAIN work /\ work[<<c, u>>].at = at  BY DEF Notices!At
<1>2. JobsKept  BY NoticeFacts
<1>3. c.kind \in Notices!PushJobs => Spent(<<c, u>>)  BY <1>1, <1>2, JobStages, SpentWork
<1> QED  BY <1>1, <1>3, WorkEnds

-----------------------------------------------------------------------------
(* Notices and pushes: notices.                                            *)

\* The offer's look at the role, and that of createNotification().
LEMMA RoleReads ==
  ASSUME NoticeInv, part = "notices", part' = part, NEW c, NEW u \in mix.users, Notices!OfferRole(c, u) \/ Notices!RoleRead(c, u)
  PROVE  NoticeInv'
<1>1. PICK at \in {"offer", "role"} :
        /\ Notices!At(c, u, at)
        /\ IF Notices!IsAdmin(u) THEN Notices!End(c, u) ELSE Notices!Pass(c, u, IF at = "offer" THEN "role" ELSE "insert")
        /\ UNCHANGED <<person, token, member, mix, queue, todo, bothered, missed>>
  BY DEF Notices!OfferRole, Notices!RoleRead, Notices!rows
<1>2. <<c, u>> \in DOMAIN work /\ work[<<c, u>>].at = at  BY <1>1 DEF Notices!At
<1>3. WorksKept /\ JobsKept  BY NoticeFacts
<1>4. c.kind \in Notices!PushJobs => c.kind = "offer_job" /\ Notices!QueueOf(c) = "offer"
  BY <1>2, <1>3, JobStages DEF Before
<1>5. CASE Notices!IsAdmin(u)
  <2>1. c.kind = "offer_job" => u \notin Notices!Steady(c, person, token)
    BY <1>5 DEF Notices!IsAdmin, Notices!Steady
  <2>2. c.kind \in Notices!PushJobs => Spent(<<c, u>>)  BY <1>2, <1>3, <1>4, <2>1, SpentWork
  <2> QED  BY <1>1, <1>2, <1>5, <2>2, WorkEnds
<1>6. CASE ~Notices!IsAdmin(u)
  <2> DEFINE next == IF at = "offer" THEN "role" ELSE "insert"
  <2>1. Notices!Pass(c, u, next)  BY <1>1, <1>6
  <2>2. next \in {"role", "insert"}  OBVIOUS
  <2> HIDE DEF next
  <2>3. "admin" \notin work[<<c, u>>].off[u]  BY <1>2, <1>3, <1>6, Reasoned
  <2> QED  BY <1>1, <1>4, <2>1, <2>2, <2>3, PassGoes, Zenon DEF Addressing, Before
<1> QED  BY <1>5, <1>6

\* Nobody is reached twice by the job he is being reached by.
LEMMA NotTwice ==
  ASSUME JobsKept, NEW c \in mix.calls, NULL \notin mix.calls, NEW u, <<c, u>> \in DOMAIN work,
         c.kind \in Notices!PushJobs => work[<<c, u>>].at \in Before(Notices!QueueOf(c))
  PROVE  ~Notices!Twice(c, u)
<1>1. ASSUME NEW k \in DOMAIN queue, queue[k].job = c  PROVE u \notin queue[k].sent
  <2>1. c # NULL  OBVIOUS
  <2>2. c \in JobCalls(k)  BY <1>1, <2>1 DEF JobsKept, QueueKept
  <2>3. c.kind \in Notices!PushJobs /\ Notices!QueueOf(c) = k  BY <2>2 DEF JobCalls
  <2>4. JobWork(<<c, u>>)  BY <2>3 DEF JobsKept
  <2> QED  BY <2>3, <2>4 DEF JobWork
<1> QED  BY <1>1 DEF Notices!Twice

\* What is no job leaves the queues alone.
LEMMA ReachedNone ==
  ASSUME JobsKept, NEW c \in mix.calls, NULL \notin mix.calls, NEW u, c.kind \notin Notices!PushJobs
  PROVE  \A k \in DOMAIN queue : queue[k].job # c
<1>1. ASSUME NEW k \in DOMAIN queue, queue[k].job = c  PROVE FALSE
  <2>1. c \in JobCalls(k)  BY <1>1 DEF JobsKept, QueueKept
  <2> QED  BY <2>1 DEF JobCalls
<1> QED  BY <1>1

\* createNotification() inserts the notice, or fails for a user who is gone.
LEMMA Inserts ==
  ASSUME NoticeInv, part = "notices", part' = part, NEW c, NEW u \in mix.users, Notices!Insert(c, u)
  PROVE  NoticeInv'
<1>1. /\ <<c, u>> \in DOMAIN work /\ work[<<c, u>>].at = "insert" /\ Notices!At(c, u, "insert")
      /\ UNCHANGED <<person, token, member, mix, todo, missed>>
  BY DEF Notices!Insert, Notices!At, Notices!told
<1>2. /\ WorksKept /\ JobsKept /\ bothered = {} /\ missed = {} /\ NULL \notin mix.calls
      /\ \A d \in DOMAIN rest : d.kind \in Loops
  BY NoticeFacts
<1>3. WorkKept(<<c, u>>, work[<<c, u>>])  BY <1>1, <1>2 DEF WorksKept
<1>4. c \in mix.calls /\ c # NULL /\ c.kind # "message"
  BY <1>1, <1>2, <1>3 DEF WorkKept, Addressing
<1>5. c.kind \in Notices!PushJobs => c.kind = "offer_job" /\ Notices!QueueOf(c) = "offer" /\ work[<<c, u>>].at \in Before("offer")
  BY <1>1, <1>2, JobStages DEF Before
<1>6. CASE u \in DOMAIN person
  <2>1. /\ Notices!Pass(c, u, "countRole") /\ queue' = Notices!Reached(c, u)
        /\ bothered' = IF \/ Notices!Twice(c, u)
                          \/ Notices!Kind(c) \in Notices!Excluded /\ "admin" \in work[<<c, u>>].off[u]
                       THEN bothered \cup {u} ELSE bothered
    BY <1>6 DEF Notices!Insert
  <2>2. ~Notices!Twice(c, u)  BY <1>1, <1>2, <1>4, <1>5, NotTwice
  <2>3. Notices!Kind(c) \in Notices!Excluded => "admin" \notin work[<<c, u>>].off[u]
    BY <1>1, <1>3 DEF WorkKept, Heeds, Willing
  <2>4. bothered' = {}  BY <1>2, <2>1, <2>2, <2>3
  <2>5. CASE c.kind \notin Notices!PushJobs
    <3>1. queue' = queue
      <4>1. \A k \in DOMAIN queue : queue[k].job # c  BY <1>2, <1>4, <2>5, ReachedNone
      <4>2. queue' = [k \in DOMAIN queue |-> queue[k]]  BY <2>1, <4>1 DEF Notices!Reached
      <4> QED  BY <1>2, <4>2 DEF JobsKept
    <3>2. UNCHANGED <<person, token, member, mix, queue, todo, bothered, missed>>  BY <1>1, <1>2, <2>4, <3>1
    <3> QED  BY <1>1, <2>1, <2>3, <2>5, <3>2, PassGoes, Zenon DEF Addressing
  <2>6. CASE c.kind \in Notices!PushJobs
    <3> DEFINE w == [work[<<c, u>>] EXCEPT !.at = "countRole"]
    <3>1. /\ DOMAIN work' = DOMAIN work /\ work'[<<c, u>>] = w /\ rest' = rest
          /\ \A t \in DOMAIN work : t # <<c, u>> => work'[t] = work[t]
      BY <1>1, <2>1 DEF Notices!Pass
    <3>2. DOMAIN w = WorkFields /\ w.at = "countRole" /\ w.off = work[<<c, u>>].off /\ w.first = work[<<c, u>>].first
      BY <1>3 DEF WorkKept, WorkFields
    <3> HIDE DEF w
    <3>3. Heeds(c, u, w)  BY <1>5, <2>3, <2>6, <3>2 DEF Heeds
    <3>4. WorkKept(<<c, u>>, w)  BY <1>3, <1>4, <3>2, <3>3 DEF WorkKept, Addressing
    <3>5. WorksKept'  BY <1>1, <1>2, <3>1, <3>4, WorksFrame
    <3>6. JobsKept'
      <4>1. work'[<<c, u>>].at \notin Before("offer")  BY <3>1, <3>2 DEF Before
      <4>2. work[<<c, u>>].at \in Before(Notices!QueueOf(c))  BY <1>5, <2>6
      <4> QED  BY <1>1, <1>2, <1>4, <1>5, <2>1, <2>6, <3>1, <4>1, <4>2, JobsReached
    <3> QED  BY <1>1, <1>2, <2>4, <3>1, <3>5, <3>6, NoticeFacts, NoticeAgain
  <2> QED  BY <2>5, <2>6
<1>7. CASE u \notin DOMAIN person
  <2>1. Notices!Fail(c, u) /\ UNCHANGED <<queue, bothered>>  BY <1>7 DEF Notices!Insert
  <2>2. /\ \A t \in DOMAIN work' : t \in DOMAIN work /\ work'[t] = work[t]
        /\ \A t \in DOMAIN work : t # <<c, u>> => t \in DOMAIN work'
        /\ \A d \in DOMAIN rest' : d.kind \in Loops
    BY <1>2, <2>1 DEF Notices!Fail, Notices!Without, Notices!Restrict
  <2>3. u \notin Notices!Steady(c, person, token)  BY <1>7 DEF Notices!Steady, Notices!Targets
  <2>4. c.kind \in Notices!PushJobs => Spent(<<c, u>>)  BY <1>1, <1>2, <2>3, SpentWork
  <2>5. WorksKept'  BY <1>1, <1>2, <2>2, WorksFrame
  <2>6. JobsKept'
    <3>1. \A t \in DOMAIN work' : t[1].kind \in Notices!PushJobs => t \in DOMAIN work /\ AsFar(t)  BY <2>2 DEF AsFar
    <3>2. \A t \in DOMAIN work : t[1].kind \in Notices!PushJobs /\ t \notin DOMAIN work' => Spent(t)  BY <2>2, <2>4
    <3> QED  BY <1>1, <1>2, <2>1, <3>1, <3>2, JobsFrame
  <2> QED  BY <1>1, <1>2, <2>1, <2>2, <2>5, <2>6, NoticeFacts, NoticeAgain
<1> QED  BY <1>6, <1>7

\* getUnreadCount(): the role, then the count.
LEMMA Counts ==
  ASSUME NoticeInv, part = "notices", part' = part, NEW c, NEW u \in mix.users, Notices!CountRole(c, u) \/ Notices!Count(c, u)
  PROVE  NoticeInv'
<1>1. PICK at \in {"countRole", "count"} : Notices!At(c, u, at)  BY DEF Notices!CountRole, Notices!Count
<1>2. UNCHANGED <<person, token, member, mix, queue, rest, todo, bothered, missed>>
  BY DEF Notices!CountRole, Notices!Count, Notices!rows
<1>3. <<c, u>> \in DOMAIN work /\ work[<<c, u>>].at = at  BY <1>1 DEF Notices!At
<1>4. WorkKept(<<c, u>>, work[<<c, u>>])  BY <1>3, NoticeFacts DEF WorksKept
<1>5. PICK w : /\ work' = [work EXCEPT ![<<c, u>>] = w]
               /\ DOMAIN w = WorkFields /\ w.at \in {"count", "tell"}
               /\ w.off = work[<<c, u>>].off /\ w.first = work[<<c, u>>].first
  <2>1. PICK v : v = work[<<c, u>>]  OBVIOUS
  <2>2. DOMAIN v = WorkFields  BY <1>4, <2>1 DEF WorkKept
  <2>3. CASE Notices!CountRole(c, u)
    <3> DEFINE w == [v EXCEPT !.adm = Notices!IsAdmin(u), !.at = "count"]
    <3>1. work' = [work EXCEPT ![<<c, u>>] = w]  BY <1>3, <2>1, <2>3, Zenon DEF Notices!CountRole
    <3>2. DOMAIN w = WorkFields /\ w.at = "count" /\ w.off = v.off /\ w.first = v.first  BY <2>2 DEF WorkFields
    <3> HIDE DEF w
    <3> QED  BY <2>1, <3>1, <3>2, Zenon
  <2>4. CASE Notices!Count(c, u)
    <3> DEFINE w == [v EXCEPT !.n = Notices!UnreadFor(note, u, v.adm), !.at = "tell",
                              !.was = Notices!Unread(u), !.late = v.adm # Notices!IsAdmin(u)]
    <3>1. work' = [work EXCEPT ![<<c, u>>] = w]  BY <1>3, <2>1, <2>4 DEF Notices!Count
    <3>2. DOMAIN w = WorkFields /\ w.at = "tell" /\ w.off = v.off /\ w.first = v.first  BY <2>2 DEF WorkFields
    <3> HIDE DEF w
    <3> QED  BY <2>1, <3>1, <3>2, Zenon
  <2> QED  BY <2>3, <2>4
<1>6. Notices!Kind(c) \in Notices!Excluded => "admin" \notin w.off[u]
  BY <1>1, <1>3, <1>4, <1>5 DEF WorkKept, Heeds, Willing
<1>7. c.kind \in Notices!PushJobs => (w.at \in Before(Notices!QueueOf(c)) <=> at \in Before(Notices!QueueOf(c)))
  BY <1>1, <1>5, QueueOfJob DEF Before
<1> QED  BY <1>1, <1>2, <1>5, <1>6, <1>7, LearnGoes, Zenon DEF Addressing

\* sendUnreadCountToUser(): offers push as well.
LEMMA CountTold ==
  ASSUME NoticeInv, part = "notices", part' = part, NEW c, NEW u \in mix.users, Notices!Tell(c, u)
  PROVE  NoticeInv'
<1>1. /\ Notices!At(c, u, "tell") /\ UNCHANGED <<person, token, member, mix, queue, todo, bothered, missed>>
      /\ IF Notices!Kind(c) \in Notices!OfferKinds THEN Notices!Pass(c, u, "prefs") ELSE Notices!End(c, u)
  BY DEF Notices!Tell, Notices!rows
<1>2. <<c, u>> \in DOMAIN work /\ work[<<c, u>>].at = "tell"  BY <1>1 DEF Notices!At
<1>3. WorkKept(<<c, u>>, work[<<c, u>>])  BY <1>2, NoticeFacts DEF WorksKept
<1>4. CASE Notices!Kind(c) \in Notices!OfferKinds
  <2>1. "admin" \notin work[<<c, u>>].off[u]  BY <1>2, <1>3, <1>4 DEF WorkKept, Heeds, Willing, Notices!Excluded
  <2>2. c.kind # "react"  BY <1>4 DEF Notices!Kind, Notices!OfferKinds
  <2>3. JobsKept  BY NoticeFacts
  <2>4. c.kind \in Notices!PushJobs => Notices!QueueOf(c) = "offer"  BY <1>2, <2>3, JobStages DEF Before
  <2> QED  BY <1>1, <1>4, <2>1, <2>2, <2>4, PassGoes, Zenon DEF Addressing, Before
<1>5. CASE Notices!Kind(c) \notin Notices!OfferKinds  BY <1>1, <1>5, EndsPast DEF Before
<1> QED  BY <1>4, <1>5

\* markAsRead(), markAllAsRead()
LEMMA Marks ==
  ASSUME NoticeInv, part = "notices", part' = part, NEW c, NEW u \in mix.users,
         Notices!MarkRead(c, u) \/ Notices!MarkAll(c, u) \/ Notices!TellZero(c, u)
  PROVE  NoticeInv'
<1>1. UNCHANGED <<person, token, member, mix, queue, todo, bothered, missed>>
  BY DEF Notices!MarkRead, Notices!MarkAll, Notices!TellZero, Notices!rows, Notices!told
<1>2. CASE Notices!MarkRead(c, u)
  <2>1. Notices!At(c, u, "update") /\ Notices!Pass(c, u, "countRole") /\ c.kind = "read"  BY <1>2 DEF Notices!MarkRead
  <2>2. Notices!Kind(c) \notin Notices!Excluded
    BY <2>1 DEF Notices!Kind, Notices!Excluded, Notices!OfferKinds, Notices!GroupKinds
  <2> QED  BY <1>1, <2>1, <2>2, PassGoes, Zenon DEF Addressing, Before, Notices!PushJobs
<1>3. CASE Notices!MarkAll(c, u)
  <2>1. Notices!At(c, u, "update") /\ Notices!Pass(c, u, "zero") /\ c.kind = "read_all"  BY <1>3 DEF Notices!MarkAll
  <2> QED  BY <1>1, <2>1, PassGoes, Zenon DEF Addressing, Willing, Before, Notices!PushJobs
<1>4. CASE Notices!TellZero(c, u)
  <2>1. Notices!At(c, u, "zero") /\ Notices!End(c, u)  BY <1>4 DEF Notices!TellZero
  <2> QED  BY <1>1, <2>1, EndsPast DEF Before
<1> QED  BY <1>2, <1>3, <1>4

-----------------------------------------------------------------------------
(* Notices and pushes: pushes.                                             *)

\* sendPushToUser(): the preferences, then the tokens.
LEMMA PrefsRead ==
  ASSUME NoticeInv, part = "notices", part' = part, NEW c, NEW u \in mix.users, Notices!Prefs(c, u)
  PROVE  NoticeInv'
<1>1. /\ Notices!At(c, u, "prefs") /\ UNCHANGED <<person, token, member, mix, queue, todo, bothered, missed>>
      /\ IF u \in DOMAIN person /\ ~person[u].enabled THEN Notices!End(c, u) ELSE Notices!Pass(c, u, "tokens")
  BY DEF Notices!Prefs, Notices!rows, Notices!told
<1>2. <<c, u>> \in DOMAIN work /\ work[<<c, u>>].at = "prefs"  BY <1>1 DEF Notices!At
<1>3. WorksKept /\ JobsKept  BY NoticeFacts
<1>4. WorkKept(<<c, u>>, work[<<c, u>>])  BY <1>2, <1>3 DEF WorksKept
<1>5. CASE u \in DOMAIN person /\ ~person[u].enabled
  <2>1. c.kind = "broadcast" => u \notin Notices!Steady(c, person, token)  BY <1>5 DEF Notices!Steady
  <2>2. c.kind \in Notices!PushJobs => Spent(<<c, u>>)
    BY <1>2, <1>3, <2>1, SpentWork DEF Before, Notices!PushJobs
  <2> QED  BY <1>1, <1>2, <1>5, <2>2, WorkEnds
<1>6. CASE ~(u \in DOMAIN person /\ ~person[u].enabled)
  <2>1. "disabled" \notin work[<<c, u>>].off[u]  BY <1>2, <1>3, <1>6, Reasoned
  <2>2. Heeds(c, u, work[<<c, u>>])  BY <1>4 DEF WorkKept
  <2>3. /\ Notices!Kind(c) \in Notices!Excluded => "admin" \notin work[<<c, u>>].off[u]
        /\ c.kind = "react" => work[<<c, u>>].off[u] \cap {"left", "muted"} = {}
    BY <1>2, <2>2 DEF Heeds, Willing
  <2> QED  BY <1>1, <1>6, <2>1, <2>3, QueueOfJob, PassGoes, Zenon DEF Addressing, Before
<1> QED  BY <1>5, <1>6

\* The tokens of one user are read.
LEMMA TokensRead ==
  ASSUME NoticeInv, part = "notices", part' = part, NEW c, NEW u \in mix.users, Notices!Tokens(c, u)
  PROVE  NoticeInv'
<1>1. /\ Notices!At(c, u, "tokens") /\ UNCHANGED <<person, token, member, mix, queue, todo, bothered, missed>>
      /\ IF u \in Notices!Range(token)
         THEN work' = [work EXCEPT ![<<c, u>>].to = {u}, ![<<c, u>>].at = "send"] /\ UNCHANGED rest
         ELSE Notices!End(c, u)
  BY DEF Notices!Tokens, Notices!rows, Notices!told
<1>2. <<c, u>> \in DOMAIN work /\ work[<<c, u>>].at = "tokens"  BY <1>1 DEF Notices!At
<1>3. WorksKept /\ JobsKept  BY NoticeFacts
<1>4. WorkKept(<<c, u>>, work[<<c, u>>])  BY <1>2, <1>3 DEF WorksKept
<1>5. CASE u \notin Notices!Range(token)
  <2>1. c.kind = "broadcast" => u \notin Notices!Steady(c, person, token)
    BY <1>5 DEF Notices!Steady, Notices!Targets, Notices!Target
  <2>2. c.kind \in Notices!PushJobs => Spent(<<c, u>>)
    BY <1>2, <1>3, <2>1, SpentWork DEF Before, Notices!PushJobs
  <2> QED  BY <1>1, <1>2, <1>5, <2>2, WorkEnds
<1>6. CASE u \in Notices!Range(token)
  <2>1. PICK v : v = work[<<c, u>>]  OBVIOUS
  <2> DEFINE w == [v EXCEPT !.to = {u}, !.at = "send"]
  <2>2. work' = [work EXCEPT ![<<c, u>>] = w] /\ rest' = rest  BY <1>1, <1>2, <1>6, <2>1
  <2>3. DOMAIN v = WorkFields /\ Heeds(c, u, v) /\ c.kind # "message"
    BY <1>2, <1>4, <2>1 DEF WorkKept, Addressing
  <2>4. DOMAIN w = WorkFields /\ w.at = "send" /\ w.off = v.off /\ w.first = v.first /\ w.to = {u}
    BY <2>3 DEF WorkFields
  <2> HIDE DEF w
  <2>5. /\ Notices!Kind(c) \in Notices!Excluded => "admin" \notin v.off[u]
        /\ c.kind = "react" => v.off[u] \cap {"left", "muted"} = {}
        /\ "disabled" \notin v.off[u]
    BY <1>2, <2>1, <2>3 DEF Heeds, Willing
  <2> QED  BY <1>1, <2>1, <2>2, <2>4, <2>5, QueueOfJob, LearnGoes, Zenon DEF Addressing, Before
<1> QED  BY <1>5, <1>6

\* The push goes out, to nobody who was not to have it, and to nobody twice.
LEMMA Sends ==
  ASSUME NoticeInv, part = "notices", part' = part, NEW c, NEW u \in mix.users, Notices!Send(c, u)
  PROVE  NoticeInv'
<1> DEFINE w == work[<<c, u>>]
<1>1. /\ Notices!At(c, u, "send") /\ Notices!End(c, u) /\ UNCHANGED <<person, token, member, mix, todo, missed>>
      /\ queue' = IF c.kind = "broadcast" THEN Notices!Reached(c, u) ELSE queue
      /\ bothered' = bothered
           \cup {v \in w.to : w.off[v] \cap Notices!Unwanted(c, u) # {} \/ (c.kind = "broadcast" /\ Notices!Twice(c, v))}
           \cup (IF c.kind = "message" /\ mix.type = "BID" THEN w.to ELSE {})
  BY DEF Notices!Send, Notices!rows, Notices!told
<1>2. <<c, u>> \in DOMAIN work /\ w.at = "send"  BY <1>1 DEF Notices!At
<1>3. /\ WorksKept /\ JobsKept /\ bothered = {} /\ missed = {} /\ NULL \notin mix.calls
      /\ \A d \in DOMAIN rest : d.kind \in Loops
  BY NoticeFacts
<1>4. WorkKept(<<c, u>>, w)  BY <1>2, <1>3 DEF WorksKept
<1>5. c \in mix.calls /\ c # NULL  BY <1>3, <1>4 DEF WorkKept
<1>6. c.kind = "broadcast" => ~Notices!Twice(c, u) /\ work[<<c, u>>].at \in Before("broadcast") /\ Notices!QueueOf(c) = "broadcast"
  BY <1>2, <1>3, <1>5, NotTwice DEF Before, Notices!QueueOf
<1>7. ASSUME NEW v \in w.to  PROVE w.off[v] \cap Notices!Unwanted(c, u) = {}
  <2>1. CASE c.kind = "message"
    <3>1. Spares(c, w) /\ u = c.by  BY <1>4, <2>1 DEF WorkKept
    <3>2. /\ w.off[v] \cap {"left", "muted"} = {} /\ w.off[v] \cap {"disabled", "blocked"} = {}
          /\ "expired" \in w.off[v] => c.system \/ (mix.type \in {"DIRECT", "OFFER"} /\ "unheard" \notin w.off[u])
      BY <1>2, <1>7, <3>1 DEF Spares
    <3>3. CASE c.system \/ (mix.type \in {"DIRECT", "OFFER"} /\ "unheard" \notin w.off[u])
      <4>1. Notices!Unwanted(c, u) = {"left", "muted", "disabled", "blocked"} \cup {}
        BY <2>1, <3>3 DEF Notices!Unwanted, Notices!Kind, Notices!OfferKinds
      <4> QED  BY <3>2, <4>1
    <3>4. CASE ~(c.system \/ (mix.type \in {"DIRECT", "OFFER"} /\ "unheard" \notin w.off[u]))
      <4>1. Notices!Unwanted(c, u) = {"left", "muted", "disabled", "blocked"} \cup {"expired"}
        BY <2>1, <3>4 DEF Notices!Unwanted, Notices!Kind, Notices!OfferKinds
      <4> QED  BY <3>2, <3>4, <4>1
    <3> QED  BY <3>3, <3>4
  <2>2. CASE c.kind # "message"
    <3>1. Heeds(c, u, w) /\ v = u  BY <1>2, <1>4, <1>7, <2>2 DEF WorkKept, Heeds
    <3>2. /\ "disabled" \notin w.off[u]
          /\ Notices!Kind(c) \in Notices!OfferKinds => "admin" \notin w.off[u]
          /\ c.kind = "react" => w.off[u] \cap {"left", "muted"} = {}
      BY <1>2, <2>2, <3>1 DEF Heeds, Willing, Notices!Excluded
    <3>3. \/ c.kind = "react" /\ Notices!Unwanted(c, u) = {"left", "muted", "disabled"}
          \/ c.kind # "react" /\ Notices!Kind(c) \in Notices!OfferKinds /\ Notices!Unwanted(c, u) = {"admin", "disabled"}
          \/ c.kind # "react" /\ Notices!Kind(c) \notin Notices!OfferKinds /\ Notices!Unwanted(c, u) = {"disabled"}
      BY <2>2 DEF Notices!Unwanted, Notices!Kind, Notices!OfferKinds
    <3> QED  BY <3>1, <3>2, <3>3
  <2> QED  BY <2>1, <2>2
<1>8. bothered' = {}
  <2>1. c.kind = "broadcast" => w.to = {u}  BY <1>2, <1>4 DEF WorkKept, Heeds
  <2>2. c.kind = "message" => mix.type # "BID"  BY <1>2, <1>4 DEF WorkKept, Spares
  <2> QED  BY <1>1, <1>3, <1>6, <1>7, <2>1, <2>2
<1> HIDE DEF w
<1>9. CASE c.kind = "broadcast"
  <2>1. c.kind \in Notices!PushJobs  BY <1>9 DEF Notices!PushJobs
  <2>2. /\ \A t \in DOMAIN work' : \/ t \in DOMAIN work /\ t # <<c, u>> /\ work'[t] = work[t]
                                   \/ Fresh(t, work'[t]) /\ t[1].kind \in Loops
        /\ \A t \in DOMAIN work : t # <<c, u>> => t \in DOMAIN work'
        /\ \A d \in DOMAIN rest' : d.kind \in Loops
    BY <1>1, <1>2, <1>3, EndWorks
  <2>3. WorksKept'  BY <1>1, <1>3, <2>2, WorksFrame
  <2>4. <<c, u>> \notin DOMAIN work'
    <3>1. <<c, u>>[1].kind \notin Loops  BY <2>1, LoopsNoJobs
    <3> QED  BY <2>2, <3>1
  <2>5. \A t \in DOMAIN work' : t # <<c, u>> /\ t[1].kind \in Notices!PushJobs => t \in DOMAIN work /\ work'[t] = work[t]
    BY <2>2, LoopsNoJobs
  <2>6. work[<<c, u>>].at \in Before(Notices!QueueOf(c)) /\ queue' = Notices!Reached(c, u)  BY <1>1, <1>6, <1>9
  <2>7. JobsKept'  BY <1>1, <1>2, <1>3, <1>5, <2>1, <2>2, <2>4, <2>5, <2>6, JobsReached
  <2> QED  BY <1>1, <1>3, <1>8, <2>2, <2>3, <2>7, NoticeFacts, NoticeAgain
<1>10. CASE c.kind # "broadcast"
  <2>1. c.kind \in Notices!PushJobs => Spent(<<c, u>>)
    BY <1>2, <1>3, <1>10, SpentWork DEF w, Before, Notices!PushJobs
  <2> QED  BY <1>1, <1>2, <1>3, <1>8, <1>10, <2>1, WorkEnds
<1> QED  BY <1>9, <1>10

\* The push of a message goes on, and knows whom to spare.
LEMMA SparesGoes ==
  ASSUME NoticeInv, part = "notices", part' = part, NEW c, NEW u \in mix.users, NEW w,
         <<c, u>> \in DOMAIN work, work[<<c, u>>].at \in Addressing, work' = [work EXCEPT ![<<c, u>>] = w],
         UNCHANGED <<person, token, member, mix, queue, rest, todo, bothered, missed>>,
         DOMAIN w = WorkFields, w.off = work[<<c, u>>].off, w.first = work[<<c, u>>].first,
         w.at \in Addressing \cup {"send"}, Spares(c, w)
  PROVE  NoticeInv'
<1>1. WorkKept(<<c, u>>, work[<<c, u>>])  BY NoticeFacts DEF WorksKept
<1>2. c.kind = "message"  BY <1>1 DEF WorkKept
<1>3. Heeds(c, u, w)
  BY <1>2 DEF Heeds, Notices!Kind, Notices!Excluded, Notices!OfferKinds, Notices!GroupKinds
<1>4. WorkKept(<<c, u>>, w)  BY <1>1, <1>2, <1>3 DEF WorkKept, Addressing
<1>5. c.kind \notin Notices!PushJobs  BY <1>2 DEF Notices!PushJobs
<1> QED  BY <1>4, <1>5, Goes

\* sendPushToParticipants(): participants who have not muted the room, none for a BID chat.
LEMMA MembersRead ==
  ASSUME NoticeInv, part = "notices", part' = part, NEW c, NEW u \in mix.users, Notices!Members(c, u)
  PROVE  NoticeInv'
<1> DEFINE to == {x \in DOMAIN member : x # u /\ ~member[x]}
<1>1. /\ Notices!At(c, u, "members") /\ UNCHANGED <<person, token, member, mix, queue, todo, bothered, missed>>
      /\ IF to = {} \/ mix.type = "BID" THEN Notices!End(c, u)
         ELSE work' = [work EXCEPT ![<<c, u>>].to = to, ![<<c, u>>].at = "receivers"] /\ UNCHANGED rest
  BY DEF Notices!Members, Notices!rows, Notices!told
<1>2. <<c, u>> \in DOMAIN work /\ work[<<c, u>>].at = "members"  BY <1>1 DEF Notices!At
<1>3. WorksKept /\ DOMAIN member \subseteq mix.users  BY NoticeFacts
<1>4. to \subseteq mix.users /\ \A x \in to : x \in DOMAIN member /\ ~member[x]  BY <1>3
<1> HIDE DEF to
<1>5. CASE to = {} \/ mix.type = "BID"  BY <1>1, <1>5, EndsPast DEF Before
<1>6. CASE ~(to = {} \/ mix.type = "BID")
  <2>1. PICK v : v = work[<<c, u>>]  OBVIOUS
  <2> DEFINE w == [v EXCEPT !.to = to, !.at = "receivers"]
  <2>2. work' = [work EXCEPT ![<<c, u>>] = w] /\ rest' = rest  BY <1>1, <1>2, <1>6, <2>1
  <2>3. DOMAIN v = WorkFields  BY <1>2, <1>3, <2>1 DEF WorksKept, WorkKept
  <2>4. DOMAIN w = WorkFields /\ w.at = "receivers" /\ w.off = v.off /\ w.first = v.first /\ w.to = to
    BY <2>3 DEF WorkFields
  <2> HIDE DEF w
  <2>5. \A x \in to : v.off[x] \cap {"left", "muted"} = {}
    <3>1. ASSUME NEW x \in to  PROVE "left" \notin v.off[x] /\ "muted" \notin v.off[x]
      BY <1>2, <1>3, <1>4, <2>1, <3>1, Reasoned
    <3> QED  BY <3>1
  <2>6. Spares(c, w)  BY <1>4, <1>6, <2>4, <2>5 DEF Spares
  <2> QED  BY <1>1, <1>2, <2>1, <2>2, <2>4, <2>6, SparesGoes, Zenon DEF Addressing
<1> QED  BY <1>5, <1>6

\* Their rows are read.
LEMMA ReceiversRead ==
  ASSUME NoticeInv, part = "notices", part' = part, NEW c, NEW u \in mix.users, Notices!Receivers(c, u)
  PROVE  NoticeInv'
<1>1. PICK v : v = work[<<c, u>>]  OBVIOUS
<1> DEFINE seen == Notices!Restrict(person, v.to \cap DOMAIN person)
           w == [v EXCEPT !.seen = seen, !.at = "sender"]
<1>2. /\ <<c, u>> \in DOMAIN work /\ v.at = "receivers" /\ work' = [work EXCEPT ![<<c, u>>] = w]
      /\ UNCHANGED <<person, token, member, mix, queue, rest, todo, bothered, missed>>
  BY <1>1, Zenon DEF Notices!Receivers, Notices!At, Notices!rows, Notices!told
<1>3. WorksKept  BY NoticeFacts
<1>4. WorkKept(<<c, u>>, v)  BY <1>1, <1>2, <1>3 DEF WorksKept
<1>5. DOMAIN v = WorkFields /\ Spares(c, v)  BY <1>2, <1>4 DEF WorkKept, Addressing
<1>6. /\ DOMAIN w = WorkFields /\ w.at = "sender" /\ w.off = v.off /\ w.first = v.first /\ w.to = v.to /\ w.seen = seen
  BY <1>5 DEF WorkFields
<1>7. DOMAIN seen = v.to \cap DOMAIN person /\ \A x \in DOMAIN seen : seen[x] = person[x]
  BY DEF Notices!Restrict
<1> HIDE DEF w, seen
<1>8. mix.type # "BID" /\ v.to \subseteq mix.users /\ \A x \in v.to : v.off[x] \cap {"left", "muted"} = {}
  BY <1>2, <1>5 DEF Spares
<1>9. ASSUME NEW x \in DOMAIN seen
      PROVE  /\ "disabled" \in v.off[x] => ~seen[x].enabled
             /\ \A r \in {"blocked", "expired"} : r \in v.off[x] => seen[x].role = "driver" /\ seen[x].status = r
  BY <1>1, <1>2, <1>3, <1>7, <1>8, <1>9, Reasoned
<1>10. Spares(c, w)  BY <1>6, <1>7, <1>8, <1>9 DEF Spares
<1> QED  BY <1>1, <1>2, <1>6, <1>10, SparesGoes, Zenon DEF Addressing

\* Drivers who are blocked are spared, and those whose documents have expired but for some roles.
LEMMA SenderRead ==
  ASSUME NoticeInv, part = "notices", part' = part, NEW c, NEW u \in mix.users, Notices!Sender(c, u)
  PROVE  NoticeInv'
<1>1. PICK v : v = work[<<c, u>>]  OBVIOUS
<1> DEFINE to == {x \in DOMAIN v.seen : Notices!Reachable(c, v.seen[x])}
           w == [v EXCEPT !.to = to, !.at = "message_tokens"]
<1>2. /\ <<c, u>> \in DOMAIN work /\ v.at = "sender" /\ Notices!At(c, u, "sender")
      /\ IF to = {} THEN Notices!End(c, u) ELSE work' = [work EXCEPT ![<<c, u>>] = w] /\ UNCHANGED rest
      /\ UNCHANGED <<person, token, member, mix, queue, todo, bothered, missed>>
  BY <1>1 DEF Notices!Sender, Notices!At, Notices!rows, Notices!told
<1>3. WorksKept  BY NoticeFacts
<1>4. WorkKept(<<c, u>>, v)  BY <1>1, <1>2, <1>3 DEF WorksKept
<1>5. DOMAIN v = WorkFields /\ Spares(c, v) /\ u = c.by  BY <1>2, <1>4 DEF WorkKept, Addressing
<1>6. DOMAIN w = WorkFields /\ w.at = "message_tokens" /\ w.off = v.off /\ w.first = v.first /\ w.to = to
  BY <1>5 DEF WorkFields
<1>7. /\ mix.type # "BID" /\ v.to \subseteq mix.users /\ \A x \in v.to : v.off[x] \cap {"left", "muted"} = {}
      /\ DOMAIN v.seen \subseteq v.to
      /\ \A x \in DOMAIN v.seen :
           /\ "disabled" \in v.off[x] => ~v.seen[x].enabled
           /\ \A r \in {"blocked", "expired"} : r \in v.off[x] => v.seen[x].role = "driver" /\ v.seen[x].status = r
  BY <1>2, <1>5 DEF Spares
<1>8. c.by \in DOMAIN person /\ person[c.by].role \in Notices!Heard => "unheard" \notin v.off[c.by]
  BY <1>1, <1>2, <1>3, <1>5, Reasoned
<1>9. ASSUME NEW x \in to
      PROVE  /\ x \in v.to /\ v.off[x] \cap {"disabled", "blocked"} = {}
             /\ "expired" \in v.off[x] => c.system \/ (mix.type \in {"DIRECT", "OFFER"} /\ "unheard" \notin v.off[c.by])
  <2>1. x \in DOMAIN v.seen /\ Notices!Reachable(c, v.seen[x])  BY <1>9
  <2> QED  BY <1>7, <1>8, <2>1 DEF Notices!Reachable
<1> HIDE DEF to, w
<1>10. Spares(c, w)  BY <1>6, <1>7, <1>9 DEF Spares
<1>11. CASE to = {}  BY <1>2, <1>11, EndsPast DEF Before
<1>12. CASE to # {}  BY <1>1, <1>2, <1>6, <1>10, <1>12, SparesGoes DEF Addressing
<1> QED  BY <1>11, <1>12

\* The tokens of those a message is pushed to are read.
LEMMA MessageTokensRead ==
  ASSUME NoticeInv, part = "notices", part' = part, NEW c, NEW u \in mix.users, Notices!MessageTokens(c, u)
  PROVE  NoticeInv'
<1>1. PICK v : v = work[<<c, u>>]  OBVIOUS
<1> DEFINE to == v.to \cap Notices!Range(token)
           w == [v EXCEPT !.to = to, !.at = "send"]
<1>2. /\ <<c, u>> \in DOMAIN work /\ v.at = "message_tokens" /\ Notices!At(c, u, "message_tokens")
      /\ IF to = {} THEN Notices!End(c, u) ELSE work' = [work EXCEPT ![<<c, u>>] = w] /\ UNCHANGED rest
      /\ UNCHANGED <<person, token, member, mix, queue, todo, bothered, missed>>
  BY <1>1 DEF Notices!MessageTokens, Notices!At, Notices!rows, Notices!told
<1>3. WorksKept  BY NoticeFacts
<1>4. WorkKept(<<c, u>>, v)  BY <1>1, <1>2, <1>3 DEF WorksKept
<1>5. DOMAIN v = WorkFields /\ Spares(c, v)  BY <1>2, <1>4 DEF WorkKept, Addressing
<1>6. DOMAIN w = WorkFields /\ w.at = "send" /\ w.off = v.off /\ w.first = v.first /\ w.to = to /\ to \subseteq v.to
  BY <1>5 DEF WorkFields
<1> HIDE DEF to, w
<1>7. Spares(c, w)  BY <1>2, <1>5, <1>6 DEF Spares
<1>8. CASE to = {}  BY <1>2, <1>8, EndsPast DEF Before
<1>9. CASE to # {}  BY <1>1, <1>2, <1>6, <1>7, <1>9, SparesGoes DEF Addressing
<1> QED  BY <1>8, <1>9

-----------------------------------------------------------------------------
(* Notices and pushes: reactions.                                          *)

\* A reaction goes from stage to stage.
LEMMA ReactsOn ==
  ASSUME NoticeInv, part = "notices", part' = part, NEW c, NEW u \in mix.users,
         \/ Notices!SetReaction(c, u) \/ Notices!RemoveReaction(c, u) \/ Notices!AccessAgain(c, u)
         \/ Notices!Broadcast(c, u) \/ Notices!ReactionPush(c, u)
  PROVE  NoticeInv'
<1>1. UNCHANGED <<person, token, member, mix, queue, todo, bothered, missed>>
  BY DEF Notices!SetReaction, Notices!RemoveReaction, Notices!AccessAgain, Notices!Broadcast, Notices!ReactionPush,
         Notices!rows, Notices!told
<1>2. PICK at \in {"write", "again", "broadcast", "mute"} :
        /\ Notices!At(c, u, at)
        /\ \/ Notices!End(c, u)
           \/ Notices!Pass(c, u, "again") /\ at = "write"
           \/ Notices!Pass(c, u, "rows") /\ at = "again"
           \/ Notices!Pass(c, u, "prefs") /\ at = "mute" /\ u \in DOMAIN member /\ ~member[u] /\ Notices!ReactionPush(c, u)
  BY DEF Notices!SetReaction, Notices!RemoveReaction, Notices!AccessAgain, Notices!Broadcast, Notices!ReactionPush
<1>3. CASE Notices!End(c, u)  BY <1>1, <1>2, <1>3, EndsPast DEF Before
<1>4. CASE Notices!Pass(c, u, "again") /\ at = "write"
  BY <1>1, <1>2, <1>4, QueueOfJob, PassGoes, Zenon DEF Addressing, Willing, Before
<1>5. CASE Notices!Pass(c, u, "rows") /\ at = "again"
  BY <1>1, <1>2, <1>5, QueueOfJob, PassGoes, Zenon DEF Addressing, Willing, Before
<1>6. CASE Notices!Pass(c, u, "prefs") /\ at = "mute" /\ u \in DOMAIN member /\ ~member[u]
  <2>1. <<c, u>> \in DOMAIN work /\ work[<<c, u>>].at = "mute"  BY <1>2, <1>6 DEF Notices!At
  <2>2. WorksKept /\ JobsKept  BY NoticeFacts
  <2>3. c.kind = "react"  BY <2>1, <2>2 DEF WorksKept, WorkKept
  <2>4. Notices!Kind(c) \notin Notices!Excluded /\ c.kind \notin Notices!PushJobs
    BY <2>3 DEF Notices!Kind, Notices!Excluded, Notices!OfferKinds, Notices!GroupKinds, Notices!PushJobs
  <2>5. "left" \notin work[<<c, u>>].off[u] /\ "muted" \notin work[<<c, u>>].off[u]  BY <1>6, <2>1, <2>2, Reasoned
  <2> QED  BY <1>1, <1>2, <1>6, <2>5, <2>4, PassGoes, Zenon DEF Addressing
<1> QED  BY <1>2, <1>3, <1>4, <1>5, <1>6

\* The reactions that will be broadcast are read; the push to the author starts.
LEMMA ReactionsRead ==
  ASSUME NoticeInv, part = "notices", part' = part, NEW c, NEW u \in mix.users, Notices!ReadReactions(c, u)
  PROVE  NoticeInv'
<1>1. PICK v : v = work[<<c, u>>]  OBVIOUS
<1> DEFINE w == [v EXCEPT !.seen = reaction, !.at = "broadcast"]
           read == [work EXCEPT ![<<c, u>>] = w]
           push == <<c, mix.author>>
<1>2. /\ <<c, u>> \in DOMAIN work /\ v.at = "rows"
      /\ work' = IF c.kind = "react" THEN Notices!With(read, push, Notices!Begun("mute")) ELSE read
      /\ UNCHANGED <<person, token, member, mix, queue, rest, todo, bothered, missed>>
  BY <1>1, Zenon DEF Notices!ReadReactions, Notices!At, Notices!rows, Notices!told
<1>3. WorksKept /\ JobsKept  BY NoticeFacts
<1>4. WorkKept(<<c, u>>, v)  BY <1>1, <1>2, <1>3 DEF WorksKept
<1>5. DOMAIN v = WorkFields /\ c.kind # "message" /\ c \in mix.calls  BY <1>2, <1>4 DEF WorkKept, Addressing
<1>6. DOMAIN w = WorkFields /\ w.at = "broadcast" /\ w.off = v.off /\ w.first = v.first  BY <1>5 DEF WorkFields
<1> HIDE DEF w
<1>7. WorkKept(<<c, u>>, w)  BY <1>4, <1>5, <1>6 DEF WorkKept, Heeds, Addressing, Willing
<1>8. c.kind = "react" => Fresh(push, Notices!Begun("mute"))
  <2>1. c.kind = "react" => May(c, "mute")
    BY DEF May, Willing, Loops, Notices!Kind, Notices!Excluded, Notices!OfferKinds, Notices!GroupKinds
  <2> QED  BY <1>5, <2>1 DEF Fresh
<1>9. /\ DOMAIN work \subseteq DOMAIN work' /\ (c.kind # "react" => DOMAIN work' = DOMAIN work)
      /\ \A t \in DOMAIN work' : \/ t \in DOMAIN work /\ work'[t] = work[t]
                                 \/ t = <<c, u>> /\ work'[t] = w
                                 \/ c.kind = "react" /\ t = push /\ work'[t] = Notices!Begun("mute")
  BY <1>2 DEF Notices!With
<1>10. WorksKept'  BY <1>2, <1>3, <1>7, <1>8, <1>9, WorksFrame, Zenon
<1>11. JobsKept'
  <2>1. ASSUME NEW t \in DOMAIN work', t[1].kind \in Notices!PushJobs  PROVE t \in DOMAIN work /\ AsFar(t)
    <3>1. t # push \/ c.kind # "react"  BY <2>1 DEF Notices!PushJobs
    <3>2. CASE t \in DOMAIN work /\ work'[t] = work[t]  BY <3>2 DEF AsFar
    <3>3. CASE t = <<c, u>> /\ work'[t] = w
      BY <1>1, <1>2, <1>6, <3>3, QueueOfJob DEF AsFar, Before
    <3> QED  BY <1>9, <2>1, <3>1, <3>2, <3>3
  <2> QED  BY <1>2, <1>3, <1>9, <2>1, JobsFrame, Zenon
<1> QED  BY <1>2, <1>10, <1>11, NoticeFacts, NoticeAgain

-----------------------------------------------------------------------------
(* Notices and pushes: calls.                                              *)

\* A call begins work for one user after the other, or for some at once.
LEMMA CallsBegin ==
  ASSUME NoticeInv, part = "notices", part' = part, NEW c, c \in todo, todo' \subseteq todo, NEW to, NEW at,
         UNCHANGED <<person, token, member, mix, queue, bothered, missed>>,
         \/ Notices!InTurn(c, to, at) /\ c.kind \in Loops /\ at = LoopStart(c.kind)
         \/ /\ Notices!AtOnce(c, to, at) /\ May(c, at) /\ c.kind \notin Notices!PushJobs
            /\ c.kind = "message" => to \subseteq {c.by}
  PROVE  NoticeInv'
<1>1. WorksKept /\ JobsKept /\ c \in mix.calls /\ \A d \in DOMAIN rest : d.kind \in Loops  BY NoticeFacts
<1>2. CASE Notices!InTurn(c, to, at) /\ c.kind \in Loops /\ at = LoopStart(c.kind)
  <2>1. WorksKept' /\ JobsKept' /\ \A d \in DOMAIN rest' : d.kind \in Loops  BY <1>1, <1>2, InTurnBegins
  <2> QED  BY <2>1, NoticeFacts, NoticeAgain
<1>3. CASE /\ Notices!AtOnce(c, to, at) /\ May(c, at) /\ c.kind \notin Notices!PushJobs
           /\ c.kind = "message" => to \subseteq {c.by}
  <2>1. WorksKept' /\ JobsKept' /\ \A d \in DOMAIN rest' : d.kind \in Loops  BY <1>1, <1>3, AtOnceBegins
  <2> QED  BY <2>1, NoticeFacts, NoticeAgain
<1> QED  BY <1>2, <1>3

\* createPrivateChatNotification() and its like.
LEMMA Notifies ==
  ASSUME NoticeInv, part = "notices", part' = part, NEW c, Notices!Notify(c)
  PROVE  NoticeInv'
<1>1. /\ c \in todo /\ todo' \subseteq todo
      /\ UNCHANGED <<person, token, member, mix, queue, bothered, missed>>
  BY DEF Notices!Notify, Notices!NotifyPrivate, Notices!NotifyGroup, Notices!NotifyLeft, Notices!NotifyAdded,
         Notices!NotifyRemoved, Notices!NotifyLoad, Notices!NotifyStaff, Notices!NotifyDriver, Notices!Take, Notices!rows
<1>2. CASE Notices!NotifyPrivate(c) \/ Notices!NotifyLoad(c)
  <2>1. c.kind \in {"private_created", "load"} /\ Notices!InTurn(c, c.to, "insert")
    BY <1>2 DEF Notices!NotifyPrivate, Notices!NotifyLoad, Notices!Take
  <2>2. c.kind \in Loops /\ LoopStart(c.kind) = "insert"  BY <2>1 DEF Loops, LoopStart
  <2> QED  BY <1>1, <2>1, <2>2, CallsBegin
<1>3. CASE Notices!NotifyLeft(c) \/ Notices!NotifyAdded(c) \/ Notices!NotifyRemoved(c)
  <2>1. PICK to : c.kind \in {"user_left", "participants_added", "participant_removed"} /\ Notices!InTurn(c, to, "role")
    BY <1>3 DEF Notices!NotifyLeft, Notices!NotifyAdded, Notices!NotifyRemoved, Notices!Take
  <2>2. c.kind \in Loops /\ LoopStart(c.kind) = "role"  BY <2>1 DEF Loops, LoopStart
  <2> QED  BY <1>1, <2>1, <2>2, CallsBegin
<1>4. CASE Notices!NotifyGroup(c) \/ Notices!NotifyStaff(c) \/ Notices!NotifyDriver(c)
  <2>1. PICK to, at : /\ c.kind \in {"group_created", "offer_staff", "offer_driver"} /\ at \in {"role", "offer"}
                      /\ Notices!AtOnce(c, to, at)
    BY <1>4 DEF Notices!NotifyGroup, Notices!NotifyStaff, Notices!NotifyDriver, Notices!Take
  <2>2. May(c, at)  BY <2>1 DEF May, Willing, Loops
  <2>3. c.kind \notin Notices!PushJobs /\ c.kind # "message"  BY <2>1 DEF Notices!PushJobs
  <2> QED  BY <1>1, <2>1, <2>2, <2>3, CallsBegin
<1> QED  BY <1>2, <1>3, <1>4 DEF Notices!Notify

\* Requests about notices, pushes to one user, to participants, and reactions.
LEMMA Requests ==
  ASSUME NoticeInv, part = "notices", part' = part, NEW c,
         Notices!Ask(c) \/ Notices!PushOne(c) \/ Notices!PushTms(c) \/ Notices!PushMessage(c) \/ Notices!React(c)
  PROVE  NoticeInv'
<1>1. PICK to, at :
        /\ c \in todo /\ todo' \subseteq todo /\ Notices!AtOnce(c, to, at)
        /\ UNCHANGED <<person, token, member, mix, queue, bothered, missed>>
        /\ \/ c.kind \in {"read", "read_all", "list"} /\ at \in {"countRole", "update"}
           \/ c.kind \in {"push", "push_tms"} /\ at = "prefs"
           \/ c.kind = "message" /\ at = "members" /\ to = {c.by}
           \/ c.kind \in {"react", "unreact"} /\ at = "write"
  <2>1. CASE Notices!Ask(c)  BY <2>1 DEF Notices!Ask, Notices!Take, Notices!rows, Notices!told
  <2>2. CASE Notices!PushOne(c)  BY <2>2 DEF Notices!PushOne, Notices!Take, Notices!rows, Notices!told
  <2>3. CASE Notices!PushTms(c)  BY <2>3 DEF Notices!PushTms, Notices!Take, Notices!rows, Notices!told
  <2>4. CASE Notices!PushMessage(c)  BY <2>4 DEF Notices!PushMessage, Notices!Take, Notices!rows, Notices!told
  <2>5. CASE Notices!React(c)  BY <2>5 DEF Notices!React, Notices!Take, Notices!rows, Notices!told
  <2> QED  BY <2>1, <2>2, <2>3, <2>4, <2>5
<1>2. May(c, at)
  BY <1>1 DEF May, Willing, Loops, Notices!Kind, Notices!Excluded, Notices!OfferKinds, Notices!GroupKinds
<1>3. c.kind \notin Notices!PushJobs  BY <1>1 DEF Notices!PushJobs
<1> QED  BY <1>1, <1>2, <1>3, CallsBegin

-----------------------------------------------------------------------------
(* Notices and pushes: the queues.                                         *)

\* drainQueue() takes the next job when there is no work left of this one.
LEMMA NextKept ==
  ASSUME JobsKept, NULL \notin mix.calls, NULL \notin {"fetch", "batch", "chats"}, NEW k \in DOMAIN queue,
         UNCHANGED <<person, token, mix, work>>,
         \A t \in DOMAIN work : t[1] # queue[k].job,
         queue' = [queue EXCEPT ![k] = Notices!NextJob(queue[k])]
  PROVE  JobsKept'
<1>1. QueueKept(k) /\ DOMAIN queue = {"broadcast", "offer"}  BY DEF JobsKept
<1>2. PICK n : n = Notices!NextJob(queue[k])  OBVIOUS
<1>3. /\ DOMAIN n = QueueFields /\ n.pending \in Seq(JobCalls(k)) /\ n.steady = {} /\ n.left = {} /\ n.sent = {}
      /\ n.job = NULL => n = Notices!Idle
      /\ n.job # NULL => n.draining /\ n.job \in JobCalls(k) /\ n.at = "fetch"
  <2>1. /\ DOMAIN Notices!Idle = QueueFields /\ Notices!Idle.pending = <<>> /\ Notices!Idle.steady = {} /\ Notices!Idle.left = {}
        /\ Notices!Idle.sent = {} /\ Notices!Idle.job = NULL
    BY DEF Notices!Idle, QueueFields
  <2>2. CASE queue[k].pending = <<>>
    <3>1. n = Notices!Idle  BY <1>2, <2>2 DEF Notices!NextJob
    <3>2. <<>> \in Seq(JobCalls(k))  OBVIOUS
    <3> QED  BY <2>1, <3>1, <3>2, Zenon
  <2>3. CASE queue[k].pending # <<>>
    <3>1. queue[k].pending \in Seq(JobCalls(k))  BY <1>1 DEF QueueKept
    <3>2. Head(queue[k].pending) \in JobCalls(k) /\ Tail(queue[k].pending) \in Seq(JobCalls(k))  BY <2>3, <3>1
    <3>3. n = Notices!Start([Notices!Idle EXCEPT !.pending = Tail(queue[k].pending)], Head(queue[k].pending))
      BY <1>2, <2>3 DEF Notices!NextJob
    <3>4. /\ DOMAIN n = QueueFields /\ n.pending = Tail(queue[k].pending) /\ n.steady = {} /\ n.left = {} /\ n.sent = {}
          /\ n.job = Head(queue[k].pending) /\ n.at = "fetch" /\ n.draining
      BY <3>3 DEF Notices!Start, Notices!Idle, QueueFields
    <3>5. n.job # NULL  BY <3>2, <3>4 DEF JobCalls
    <3> QED  BY <3>2, <3>4, <3>5
  <2> QED  BY <2>2, <2>3
<1>4. /\ DOMAIN queue' = DOMAIN queue /\ queue'[k] = n /\ queue' = [j \in DOMAIN queue' |-> queue'[j]]
      /\ \A j \in DOMAIN queue : j # k => queue'[j] = queue[j]
  BY <1>2, Zenon
<1>5. ASSUME NEW j \in DOMAIN queue'  PROVE QueueKept(j)'
  <2>1. JobCalls(j)' = JobCalls(j)  BY DEF JobCalls
  <2>2. Notices!Idle' = Notices!Idle /\ Before(j)' = Before(j)  BY DEF Notices!Idle, Before
  <2>3. CASE j = k
    <3>1. queue'[j] = n  BY <1>4, <2>3
    <3>2. Notices!Steady(n.job, person, token) = Notices!Steady(n.job, person, token)  OBVIOUS
    <3> QED  BY <1>3, <2>1, <2>2, <2>3, <3>1 DEF QueueKept
  <2>4. CASE j # k
    <3>1. queue'[j] = queue[j] /\ QueueKept(j)  BY <1>4, <1>5, <2>4 DEF JobsKept
    <3>2. Notices!Steady(queue[j].job, person, token)' = Notices!Steady(queue'[j].job, person, token)
      BY <3>1 DEF Notices!Steady, Notices!Targets, Notices!Target
    <3> QED  BY <2>1, <2>2, <3>1, <3>2 DEF QueueKept
  <2> QED  BY <2>3, <2>4
<1>6. ASSUME NEW t \in DOMAIN work', t[1].kind \in Notices!PushJobs  PROVE JobWork(t)'
  <2>1. JobWork(t) /\ Notices!QueueOf(t[1]) \in DOMAIN queue  BY <1>1, <1>6, QueueOfJob DEF JobsKept
  <2>2. Notices!QueueOf(t[1]) # k  BY <1>6, <2>1 DEF JobWork
  <2>3. queue'[Notices!QueueOf(t[1])] = queue[Notices!QueueOf(t[1])]  BY <1>4, <2>1, <2>2
  <2> QED  BY <2>1, <2>3 DEF JobWork
<1> QED  BY <1>1, <1>4, <1>5, <1>6 DEF JobsKept

\* A job that has been worked off has come to everybody it had to come to.
LEMMA JobDone ==
  ASSUME JobsKept, NULL \notin mix.calls, NEW k \in DOMAIN queue, queue[k].left = {},
         \A t \in DOMAIN work : t[1] # queue[k].job
  PROVE  queue[k].steady \subseteq queue[k].sent
<1>1. ASSUME NEW u \in queue[k].steady, u \notin queue[k].sent  PROVE FALSE
  <2>1. <<queue[k].job, u>> \in DOMAIN work  BY <1>1 DEF JobsKept, QueueKept
  <2> QED  BY <2>1
<1> QED  BY <1>1

\* drain() ends a job: it failed, or all it had to do is done.
LEMMA DrainEnds ==
  ASSUME NoticeInv, part = "notices", part' = part, NEW k \in DOMAIN queue,
         Notices!JobFails(k) \/ Notices!OfferChats(k) \/ (Notices!Batches(k) /\ queue[k].left = {})
  PROVE  NoticeInv'
<1>1. WorksKept /\ JobsKept /\ missed = {} /\ bothered = {} /\ NULL \notin mix.calls /\ NULL \notin {"fetch", "batch", "chats"}
      /\ \A d \in DOMAIN rest : d.kind \in Loops
  BY NoticeFacts
<1>2. /\ UNCHANGED <<person, token, member, mix, work, rest, todo, bothered>>
      /\ \A t \in DOMAIN work : t[1] # queue[k].job
      /\ queue' = [queue EXCEPT ![k] = Notices!NextJob(queue[k])]
      /\ \/ missed' = missed
         \/ missed' = missed \cup (queue[k].steady \ queue[k].sent) /\ queue[k].left = {}
  <2>1. CASE Notices!JobFails(k)  BY <2>1 DEF Notices!JobFails, Notices!rows, Notices!told
  <2>2. CASE Notices!OfferChats(k)
    <3>1. k = "offer"
      BY <1>1, <2>2 DEF Notices!OfferChats, JobsKept, QueueKept, Notices!Idle
    <3>2. queue[k].left = {}  BY <1>1, <3>1 DEF JobsKept, QueueKept
    <3> QED  BY <2>2, <3>2 DEF Notices!OfferChats, Notices!Ends, Notices!rows, Notices!told
  <2>3. CASE Notices!Batches(k) /\ queue[k].left = {}
    BY <2>3 DEF Notices!Batches, Notices!Ends, Notices!rows, Notices!told
  <2> QED  BY <2>1, <2>2, <2>3
<1>3. missed' = {}
  <2>1. queue[k].left = {} => queue[k].steady \subseteq queue[k].sent  BY <1>1, <1>2, JobDone
  <2> QED  BY <1>1, <1>2, <2>1
<1>4. JobsKept'  BY <1>1, <1>2, NextKept, Zenon
<1>5. WorksKept'  BY <1>1, <1>2, WorksFrame
<1> QED  BY <1>1, <1>2, <1>3, <1>4, <1>5, NoticeFacts, NoticeAgain

\* enqueueBroadcast(), enqueue(): the job waits, or its queue starts.
LEMMA Enqueues ==
  ASSUME NoticeInv, part = "notices", part' = part, NEW c, Notices!Enqueue(c)
  PROVE  NoticeInv'
<1> DEFINE k == Notices!QueueOf(c)
           q == queue[k]
           n == IF q.draining THEN [q EXCEPT !.pending = Append(q.pending, c)] ELSE Notices!Start(q, c)
<1>1. /\ c \in todo /\ todo' \subseteq todo /\ c.kind \in Notices!PushJobs
      /\ UNCHANGED <<person, token, member, mix, work, rest, bothered, missed>>
      /\ queue' = [queue EXCEPT ![k] = n]
  BY DEF Notices!Enqueue, Notices!Take, Notices!rows, Notices!told
<1>2. WorksKept /\ JobsKept /\ NULL \notin mix.calls /\ NULL \notin {"fetch", "batch", "chats"} /\ c \in mix.calls
      /\ missed = {} /\ bothered = {} /\ \A d \in DOMAIN rest : d.kind \in Loops
  BY <1>1, NoticeFacts
<1>3. k \in DOMAIN queue /\ QueueKept(k) /\ DOMAIN queue = {"broadcast", "offer"} /\ c \in JobCalls(k) /\ c # NULL
  BY <1>1, <1>2, QueueOfJob DEF JobsKept, JobCalls
<1>4. /\ DOMAIN n = QueueFields /\ n.pending \in Seq(JobCalls(k)) /\ n.steady = q.steady /\ n.left = q.left /\ n.sent = q.sent
      /\ n.job # NULL /\ n.draining /\ n.job \in JobCalls(k)
      /\ \/ q.job # NULL /\ n.job = q.job /\ n.at = q.at
         \/ q = Notices!Idle /\ n.job = c /\ n.at = "fetch"
  <2>1. CASE q.draining
    <3>1. q.job # NULL
      <4>1. SUFFICES ASSUME q.job = NULL  PROVE FALSE  OBVIOUS
      <4>2. q = Notices!Idle  BY <1>3, <4>1 DEF QueueKept
      <4> QED  BY <2>1, <4>2 DEF Notices!Idle
    <3>2. n = [q EXCEPT !.pending = Append(q.pending, c)]  BY <2>1
    <3>3. DOMAIN q = QueueFields /\ q.pending \in Seq(JobCalls(k)) /\ q.job \in JobCalls(k)
      BY <1>3, <3>1 DEF QueueKept
    <3>4. Append(q.pending, c) \in Seq(JobCalls(k))  BY <1>3, <3>3
    <3>5. /\ DOMAIN n = QueueFields /\ n.pending = Append(q.pending, c) /\ n.steady = q.steady /\ n.left = q.left
          /\ n.sent = q.sent /\ n.job = q.job /\ n.at = q.at /\ n.draining = q.draining
      BY <3>2, <3>3 DEF QueueFields
    <3> QED  BY <2>1, <3>1, <3>3, <3>4, <3>5
  <2>2. CASE ~q.draining
    <3>1. q = Notices!Idle /\ q.job = NULL  BY <1>3, <2>2 DEF QueueKept
    <3>2. n = Notices!Start(q, c)  BY <2>2
    <3>3. DOMAIN q = QueueFields /\ q.pending \in Seq(JobCalls(k))  BY <1>3 DEF QueueKept
    <3>4. /\ DOMAIN n = QueueFields /\ n.pending = q.pending /\ n.steady = q.steady /\ n.left = q.left
          /\ n.sent = q.sent /\ n.job = c /\ n.at = "fetch" /\ n.draining
      BY <3>2, <3>3, Zenon DEF QueueFields, Notices!Start
    <3> QED  BY <1>3, <3>1, <3>3, <3>4
  <2> QED  BY <2>1, <2>2
<1>5. /\ DOMAIN queue' = DOMAIN queue /\ queue'[k] = n /\ queue' = [j \in DOMAIN queue' |-> queue'[j]]
      /\ \A j \in DOMAIN queue : j # k => queue'[j] = queue[j]
  BY <1>1, <1>3, Zenon
<1> HIDE DEF n
<1>6. ASSUME NEW j \in DOMAIN queue'  PROVE QueueKept(j)'
  <2>1. JobCalls(j)' = JobCalls(j) /\ Notices!Idle' = Notices!Idle /\ Before(j)' = Before(j)
    BY <1>1 DEF JobCalls, Notices!Idle, Before
  <2>2. CASE j = k
    <3>1. CASE q.job # NULL /\ n.job = q.job /\ n.at = q.at
      <4>1. Notices!Steady(q.job, person, token)' = Notices!Steady(n.job, person, token)
        BY <1>1, <3>1 DEF Notices!Steady, Notices!Targets, Notices!Target
      <4> QED  BY <1>1, <1>3, <1>4, <1>5, <2>1, <2>2, <3>1, <4>1 DEF QueueKept
    <3>2. CASE q = Notices!Idle /\ n.job = c /\ n.at = "fetch"
      <4>1. q.steady = {} /\ q.left = {} /\ q.sent = {}  BY <3>2 DEF Notices!Idle
      <4> QED  BY <1>4, <1>5, <2>1, <2>2, <3>2, <4>1 DEF QueueKept
    <3> QED  BY <1>4, <3>1, <3>2
  <2>3. CASE j # k
    <3>1. queue'[j] = queue[j] /\ QueueKept(j)  BY <1>2, <1>5, <1>6, <2>3 DEF JobsKept
    <3>2. Notices!Steady(queue[j].job, person, token)' = Notices!Steady(queue'[j].job, person, token)
      BY <1>1, <3>1 DEF Notices!Steady, Notices!Targets, Notices!Target
    <3> QED  BY <1>1, <2>1, <3>1, <3>2 DEF QueueKept
  <2> QED  BY <2>2, <2>3
<1>7. ASSUME NEW t \in DOMAIN work', t[1].kind \in Notices!PushJobs  PROVE JobWork(t)'
  <2>1. JobWork(t) /\ Notices!QueueOf(t[1]) \in DOMAIN queue /\ t[1] # NULL
    BY <1>1, <1>2, <1>3, <1>7, QueueOfJob DEF JobsKept, WorksKept, WorkKept
  <2>2. CASE Notices!QueueOf(t[1]) = k
    <3>1. q.job # NULL  BY <2>1, <2>2 DEF JobWork
    <3>2. q # Notices!Idle  BY <3>1 DEF Notices!Idle
    <3>3. queue'[k].job = q.job /\ queue'[k].at = q.at /\ queue'[k].left = q.left /\ queue'[k].sent = q.sent
      BY <1>4, <1>5, <3>2
    <3> QED  BY <1>1, <2>1, <2>2, <3>3 DEF JobWork
  <2>3. CASE Notices!QueueOf(t[1]) # k
    <3>1. queue'[Notices!QueueOf(t[1])] = queue[Notices!QueueOf(t[1])]  BY <1>5, <2>1, <2>3
    <3> QED  BY <1>1, <2>1, <3>1 DEF JobWork
  <2> QED  BY <2>2, <2>3
<1>8. JobsKept'  BY <1>3, <1>5, <1>6, <1>7 DEF JobsKept
<1>9. WorksKept'  BY <1>1, <1>2, WorksFrame
<1> QED  BY <1>1, <1>2, <1>8, <1>9, NoticeFacts, NoticeAgain

\* Work of the job under way begins for some who are to be reached and have not been.
LEMMA JobBegins ==
  ASSUME NoticeInv, part = "notices", part' = part, NEW k \in DOMAIN queue, NEW to, NEW at, NEW left, NEW steady,
         UNCHANGED <<person, token, member, mix, todo, bothered, missed>>,
         queue[k].job # NULL, queue[k].at \in {"fetch", "batch"},
         \A t \in DOMAIN work : t[1] # queue[k].job,
         rest' = rest, DOMAIN work' = DOMAIN work \cup {<<queue[k].job, u>> : u \in to},
         \A t \in DOMAIN work : work'[t] = work[t], \A u \in to : work'[<<queue[k].job, u>>] = Notices!Begun(at),
         at = IF k = "broadcast" THEN "prefs" ELSE "offer",
         DOMAIN queue' = DOMAIN queue, queue' = [j \in DOMAIN queue' |-> queue'[j]],
         \A j \in DOMAIN queue : j # k => queue'[j] = queue[j],
         DOMAIN queue'[k] = QueueFields, queue'[k].pending = queue[k].pending, queue'[k].draining = queue[k].draining,
         queue'[k].job = queue[k].job, queue'[k].at = IF k = "broadcast" THEN "batch" ELSE "chats",
         queue'[k].sent = queue[k].sent, queue'[k].left = left, queue'[k].steady = steady,
         steady \subseteq Notices!Steady(queue[k].job, person, token),
         left \cap queue[k].sent = {}, to \cap queue[k].sent = {}, to \cap left = {}, k = "offer" => left = {},
         steady \ queue[k].sent \subseteq left \cup to
  PROVE  NoticeInv'
<1>1. WorksKept /\ JobsKept /\ NULL \notin mix.calls /\ NULL \notin {"fetch", "batch", "chats"}
      /\ missed = {} /\ bothered = {} /\ \A d \in DOMAIN rest : d.kind \in Loops
  BY NoticeFacts
<1>2. PICK c : c = queue[k].job  OBVIOUS
<1>3. /\ QueueKept(k) /\ DOMAIN queue = {"broadcast", "offer"} /\ c \in JobCalls(k) /\ c \in mix.calls
      /\ c.kind \in Notices!PushJobs /\ Notices!QueueOf(c) = k /\ (c.kind = "broadcast" <=> k = "broadcast")
  BY <1>1, <1>2 DEF JobsKept, QueueKept, JobCalls, Notices!QueueOf, Notices!PushJobs
<1>4. May(c, at) /\ c.kind # "message"
  BY <1>3 DEF May, Willing, Loops, Notices!Kind, Notices!Excluded, Notices!OfferKinds, Notices!GroupKinds, Notices!PushJobs,
              Notices!QueueOf
<1>5. /\ rest' = rest /\ DOMAIN work' = DOMAIN work \cup {<<c, u>> : u \in to}
      /\ \A t \in DOMAIN work : work'[t] = work[t]
      /\ \A u \in to : work'[<<c, u>>] = Notices!Begun(at)
  BY <1>2
<1>6. \A u \in to : Fresh(<<c, u>>, Notices!Begun(at))  BY <1>3, <1>4 DEF Fresh
<1>7. WorksKept'  BY <1>1, <1>5, <1>6, WorksFrame
<1>8. at \in Before(k) /\ Notices!Begun(at).at = at  BY <1>3 DEF Before, Notices!Begun
<1>9. ASSUME NEW j \in DOMAIN queue'  PROVE QueueKept(j)'
  <2>1. JobCalls(j)' = JobCalls(j) /\ Notices!Idle' = Notices!Idle /\ Before(j)' = Before(j)
    BY DEF JobCalls, Notices!Idle, Before
  <2>2. CASE j = k
    <3>1. ASSUME NEW u \in steady \ (queue[k].sent \cup left)
          PROVE  <<c, u>> \in DOMAIN work' /\ work'[<<c, u>>].at \in Before(k)
      <4>1. u \in to  BY <3>1
      <4> QED  BY <1>5, <1>8, <4>1
    <3>2. Notices!Steady(c, person, token)' = Notices!Steady(c, person, token)
      BY DEF Notices!Steady, Notices!Targets, Notices!Target
    <3>3. queue'[k].draining /\ queue'[k].pending \in Seq(JobCalls(k))
      BY <1>3 DEF QueueKept
    <3> QED  BY <1>2, <1>3, <2>1, <2>2, <3>1, <3>2, <3>3 DEF QueueKept
  <2>3. CASE j # k
    <3>1. queue'[j] = queue[j] /\ QueueKept(j)  BY <1>1, <1>9, <2>3 DEF JobsKept
    <3>2. Notices!Steady(queue[j].job, person, token)' = Notices!Steady(queue'[j].job, person, token)
      BY <3>1 DEF Notices!Steady, Notices!Targets, Notices!Target
    <3>3. \A u \in queue[j].steady \ (queue[j].sent \cup queue[j].left) :
            <<queue[j].job, u>> \in DOMAIN work' /\ work'[<<queue[j].job, u>>].at \in Before(j)
      BY <1>5, <3>1 DEF QueueKept
    <3> QED  BY <2>1, <3>1, <3>2, <3>3 DEF QueueKept
  <2> QED  BY <2>2, <2>3
<1>10. ASSUME NEW t \in DOMAIN work', t[1].kind \in Notices!PushJobs  PROVE JobWork(t)'
  <2>1. CASE t \in DOMAIN work
    <3>1. JobWork(t) /\ Notices!QueueOf(t[1]) \in DOMAIN queue /\ t[1] # c
      BY <1>1, <1>2, <1>3, <1>10, <2>1, QueueOfJob DEF JobsKept
    <3>2. Notices!QueueOf(t[1]) # k  BY <1>2, <3>1 DEF JobWork
    <3>3. queue'[Notices!QueueOf(t[1])] = queue[Notices!QueueOf(t[1])]  BY <3>1, <3>2
    <3> QED  BY <1>5, <2>1, <3>1, <3>3 DEF JobWork
  <2>2. CASE t \notin DOMAIN work
    <3>1. PICK u \in to : t = <<c, u>>  BY <1>5, <1>10, <2>2
    <3>2. t[1] = c /\ t[2] = u /\ work'[t].at = at  BY <1>5, <1>8, <3>1
    <3>3. u \notin left /\ u \notin queue[k].sent  BY <3>1
    <3> QED  BY <1>2, <1>3, <1>8, <3>2, <3>3 DEF JobWork
  <2> QED  BY <2>1, <2>2
<1>11. JobsKept'  BY <1>3, <1>9, <1>10 DEF JobsKept
<1> QED  BY <1>1, <1>5, <1>7, <1>11, NoticeFacts, NoticeAgain

\* Work that begins all at once is of those who have none yet.
LEMMA AtOnceWork ==
  ASSUME NEW c, NEW to, NEW at, \A t \in DOMAIN work : t[1] # c, rest' = rest,
         work' = [t \in DOMAIN work \cup {<<c, u>> : u \in to} |-> IF t \in DOMAIN work THEN work[t] ELSE Notices!Begun(at)]
  PROVE  /\ rest' = rest /\ DOMAIN work' = DOMAIN work \cup {<<c, u>> : u \in to}
         /\ \A t \in DOMAIN work : work'[t] = work[t]
         /\ \A u \in to : work'[<<c, u>>] = Notices!Begun(at)
<1>1. \A u \in to : <<c, u>> \notin DOMAIN work
  <2>1. ASSUME NEW u \in to, <<c, u>> \in DOMAIN work  PROVE FALSE
    <3>1. <<c, u>>[1] # c  BY <2>1
    <3> QED  BY <3>1
  <2> QED  BY <2>1
<1> QED  BY <1>1

\* processJob() finds its targets.
LEMMA Fetches ==
  ASSUME NoticeInv, part = "notices", part' = part, NEW k \in DOMAIN queue, Notices!Fetch(k)
  PROVE  NoticeInv'
<1> DEFINE c == queue[k].job
           to == Notices!Targets(c, person, token)
           steady == Notices!Steady(c, person, token)
           left == IF k = "broadcast" THEN to ELSE {}
           some == IF k = "broadcast" THEN {} ELSE to
           at == IF k = "broadcast" THEN "prefs" ELSE "offer"
           n == [queue[k] EXCEPT !.at = IF k = "broadcast" THEN "batch" ELSE "chats", !.steady = steady, !.left = left]
<1>1. /\ queue[k].at = "fetch" /\ queue' = [queue EXCEPT ![k] = n]
      /\ UNCHANGED <<person, token, member, mix, todo, bothered, missed>>
      /\ IF k = "offer" THEN Notices!AtOnce(c, to, "offer") ELSE UNCHANGED <<work, rest>>
  BY DEF Notices!Fetch, Notices!rows, Notices!told
<1>2. WorksKept /\ JobsKept /\ NULL \notin mix.calls /\ NULL \notin {"fetch", "batch", "chats"}  BY NoticeFacts
<1>3. QueueKept(k) /\ k \in {"broadcast", "offer"}  BY <1>2 DEF JobsKept
<1>4. c # NULL
  <2>1. SUFFICES ASSUME c = NULL  PROVE FALSE  OBVIOUS
  <2>2. queue[k] = Notices!Idle  BY <1>3, <2>1 DEF QueueKept
  <2> QED  BY <1>1, <1>2, <2>2 DEF Notices!Idle
<1>5. c \in JobCalls(k) /\ queue[k].sent = {} /\ DOMAIN queue[k] = QueueFields  BY <1>1, <1>3, <1>4 DEF QueueKept
<1>6. ASSUME NEW t \in DOMAIN work  PROVE t[1] # c
  <2>1. SUFFICES ASSUME t[1] = c  PROVE FALSE  OBVIOUS
  <2>2. JobWork(t) /\ Notices!QueueOf(t[1]) = k  BY <1>2, <1>5, <1>6, <2>1 DEF JobsKept, JobCalls
  <2> QED  BY <1>1, <2>2 DEF JobWork
<1>7. steady \subseteq to  BY DEF Notices!Steady
<1>8. /\ DOMAIN n = QueueFields /\ n.pending = queue[k].pending /\ n.draining = queue[k].draining /\ n.job = c
      /\ n.sent = queue[k].sent /\ n.at = (IF k = "broadcast" THEN "batch" ELSE "chats")
      /\ n.left = left /\ n.steady = steady
  BY <1>5 DEF QueueFields
<1>9. /\ rest' = rest /\ DOMAIN work' = DOMAIN work \cup {<<c, u>> : u \in some}
      /\ \A t \in DOMAIN work : work'[t] = work[t]
      /\ \A u \in some : work'[<<c, u>>] = Notices!Begun(at)
  <2>1. CASE k = "broadcast"  BY <1>1, <2>1
  <2>2. CASE k = "offer"
    <3>1. Notices!AtOnce(c, to, at) /\ some = to  BY <1>1, <2>2
    <3> HIDE DEF c, to, at
    <3>2. PICK C, T, A : C = c /\ T = to /\ A = at  OBVIOUS
    <3>3. /\ \A t \in DOMAIN work : t[1] # C
          /\ rest' = rest
          /\ work' = [t \in DOMAIN work \cup {<<C, u>> : u \in T} |-> IF t \in DOMAIN work THEN work[t] ELSE Notices!Begun(A)]
      BY <1>6, <3>1, <3>2 DEF Notices!AtOnce
    <3>4. /\ rest' = rest /\ DOMAIN work' = DOMAIN work \cup {<<C, u>> : u \in T}
          /\ \A t \in DOMAIN work : work'[t] = work[t]
          /\ \A u \in T : work'[<<C, u>>] = Notices!Begun(A)
      BY <3>3, AtOnceWork
    <3> QED  BY <3>1, <3>2, <3>4
  <2> QED  BY <1>3, <2>1, <2>2
<1>10. /\ DOMAIN queue' = DOMAIN queue /\ queue'[k] = n /\ queue' = [j \in DOMAIN queue' |-> queue'[j]]
       /\ \A j \in DOMAIN queue : j # k => queue'[j] = queue[j]
  BY <1>1, Zenon
<1>11. /\ left \cap queue[k].sent = {} /\ some \cap queue[k].sent = {} /\ some \cap left = {}
       /\ (k = "offer" => left = {}) /\ steady \ queue[k].sent \subseteq left \cup some
       /\ at = (IF k = "broadcast" THEN "prefs" ELSE "offer")
  BY <1>3, <1>5, <1>7
<1>12. PICK C, L, O, S, A : C = c /\ L = left /\ O = some /\ S = steady /\ A = at  BY Zenon
<1> HIDE DEF n, left, some, to, at
<1>13. S \subseteq Notices!Steady(queue[k].job, person, token)  BY <1>12
<1> HIDE DEF c, steady
<1>14. /\ queue[k].job # NULL /\ queue[k].at \in {"fetch", "batch"} /\ \A t \in DOMAIN work : t[1] # queue[k].job
       /\ rest' = rest /\ DOMAIN work' = DOMAIN work \cup {<<queue[k].job, u>> : u \in O}
       /\ \A t \in DOMAIN work : work'[t] = work[t]
       /\ \A u \in O : work'[<<queue[k].job, u>>] = Notices!Begun(A)
       /\ A = IF k = "broadcast" THEN "prefs" ELSE "offer"
  BY <1>1, <1>4, <1>6, <1>9, <1>11, <1>12 DEF c
<1>15. /\ DOMAIN queue'[k] = QueueFields /\ queue'[k].pending = queue[k].pending /\ queue'[k].draining = queue[k].draining
       /\ queue'[k].job = queue[k].job /\ queue'[k].at = (IF k = "broadcast" THEN "batch" ELSE "chats")
       /\ queue'[k].sent = queue[k].sent /\ queue'[k].left = L /\ queue'[k].steady = S
       /\ L \cap queue[k].sent = {} /\ O \cap queue[k].sent = {} /\ O \cap L = {} /\ (k = "offer" => L = {})
       /\ S \ queue[k].sent \subseteq L \cup O
  BY <1>8, <1>10, <1>11, <1>12 DEF c
<1>16. UNCHANGED <<person, token, member, mix, todo, bothered, missed>>  BY <1>1
<1> QED  BY <1>10, <1>13, <1>14, <1>15, <1>16, JobBegins

\* The next batch begins when the last one has settled.
LEMMA BatchBegins ==
  ASSUME NoticeInv, part = "notices", part' = part, NEW k \in DOMAIN queue, Notices!Batches(k), queue[k].left # {}
  PROVE  NoticeInv'
<1>1. PICK some : /\ some \subseteq queue[k].left
                  /\ queue' = [queue EXCEPT ![k].left = queue[k].left \ some]
                  /\ Notices!AtOnce(queue[k].job, some, "prefs") /\ missed' = missed
  BY DEF Notices!Batches, Notices!kSubset
<1>2. /\ queue[k].at = "batch" /\ \A t \in DOMAIN work : t[1] # queue[k].job
      /\ UNCHANGED <<person, token, member, mix, todo, bothered>>
  BY DEF Notices!Batches, Notices!rows, Notices!told
<1>3. WorksKept /\ JobsKept /\ NULL \notin mix.calls /\ NULL \notin {"fetch", "batch", "chats"}  BY NoticeFacts
<1>4. QueueKept(k) /\ k \in {"broadcast", "offer"}  BY <1>3 DEF JobsKept
<1>5. queue[k].job # NULL
  <2>1. SUFFICES ASSUME queue[k].job = NULL  PROVE FALSE  OBVIOUS
  <2>2. queue[k] = Notices!Idle  BY <1>4, <2>1 DEF QueueKept
  <2> QED  BY <1>2, <1>3, <2>2 DEF Notices!Idle
<1>6. k = "broadcast" /\ DOMAIN queue[k] = QueueFields /\ queue[k].left \cap queue[k].sent = {}
      /\ queue[k].steady \subseteq Notices!Steady(queue[k].job, person, token)
  BY <1>2, <1>4, <1>5 DEF QueueKept
<1>7. queue[k].steady \ queue[k].sent \subseteq queue[k].left
  <2>1. ASSUME NEW u \in queue[k].steady, u \notin queue[k].sent, u \notin queue[k].left  PROVE FALSE
    <3>1. <<queue[k].job, u>> \in DOMAIN work  BY <1>4, <2>1 DEF QueueKept
    <3> QED  BY <1>2, <3>1
  <2> QED  BY <2>1
<1> DEFINE n == [queue[k] EXCEPT !.left = queue[k].left \ some]
<1>8. /\ DOMAIN queue' = DOMAIN queue /\ queue'[k] = n /\ queue' = [j \in DOMAIN queue' |-> queue'[j]]
      /\ \A j \in DOMAIN queue : j # k => queue'[j] = queue[j]
  BY <1>1, Zenon
<1>9. /\ DOMAIN n = QueueFields /\ n.pending = queue[k].pending /\ n.draining = queue[k].draining /\ n.job = queue[k].job
      /\ n.sent = queue[k].sent /\ n.at = "batch" /\ n.left = queue[k].left \ some /\ n.steady = queue[k].steady
  BY <1>2, <1>6 DEF QueueFields
<1> HIDE DEF n
<1>10. /\ rest' = rest /\ DOMAIN work' = DOMAIN work \cup {<<queue[k].job, u>> : u \in some}
       /\ \A t \in DOMAIN work : work'[t] = work[t]
       /\ \A u \in some : work'[<<queue[k].job, u>>] = Notices!Begun("prefs")
  <2>1. PICK C : C = queue[k].job  OBVIOUS
  <2>2. /\ \A t \in DOMAIN work : t[1] # C
        /\ rest' = rest
        /\ work' = [t \in DOMAIN work \cup {<<C, u>> : u \in some} |-> IF t \in DOMAIN work THEN work[t]
                                                                       ELSE Notices!Begun("prefs")]
    BY <1>1, <1>2, <2>1 DEF Notices!AtOnce
  <2>3. /\ rest' = rest /\ DOMAIN work' = DOMAIN work \cup {<<C, u>> : u \in some}
        /\ \A t \in DOMAIN work : work'[t] = work[t]
        /\ \A u \in some : work'[<<C, u>>] = Notices!Begun("prefs")
    BY <2>2, AtOnceWork
  <2> QED  BY <2>1, <2>3
<1>11. /\ (queue[k].left \ some) \cap queue[k].sent = {} /\ some \cap queue[k].sent = {}
       /\ some \cap (queue[k].left \ some) = {}
       /\ queue[k].steady \ queue[k].sent \subseteq (queue[k].left \ some) \cup some
  BY <1>1, <1>6, <1>7
<1>12. UNCHANGED <<person, token, member, mix, todo, bothered, missed>>  BY <1>1, <1>2
<1> QED  BY <1>2, <1>5, <1>6, <1>8, <1>9, <1>10, <1>11, <1>12, JobBegins

-----------------------------------------------------------------------------
(* Notices and pushes: what changes meanwhile.                             *)

\* Work that is told of fewer reasons knows no less.
LEMMA LessAgainst ==
  ASSUME NEW t, NEW w, NEW v, WorkKept(t, w), DOMAIN v = WorkFields, DOMAIN v.off = mix.users,
         \A u \in mix.users : v.off[u] \subseteq w.off[u] /\ v.off[u] \subseteq Notices!Against(u, person, member)',
         v.at = w.at, v.first = w.first, v.to = w.to, v.seen = w.seen, mix' = mix
  PROVE  WorkKept(t, v)'
<1>1. t[2] \in mix.users => Heeds(t[1], t[2], v)
  <2>1. SUFFICES ASSUME t[2] \in mix.users  PROVE Heeds(t[1], t[2], v)  OBVIOUS
  <2>2. Heeds(t[1], t[2], w) /\ v.off[t[2]] \subseteq w.off[t[2]]  BY <2>1 DEF WorkKept
  <2> QED  BY <2>2 DEF Heeds
<1>2. t[2] \in mix.users /\ t[1].kind = "message" => Spares(t[1], v)
  <2>1. SUFFICES ASSUME t[2] \in mix.users, t[1].kind = "message"  PROVE Spares(t[1], v)  OBVIOUS
  <2>2. Spares(t[1], w) /\ t[1].by \in mix.users  BY <2>1 DEF WorkKept
  <2>3. w.at \in {"receivers", "sender", "message_tokens", "send"} =>
          mix.type # "BID" /\ w.to \subseteq mix.users /\ \A x \in w.to : v.off[x] \cap {"left", "muted"} = {}
    <3>1. SUFFICES ASSUME w.at \in {"receivers", "sender", "message_tokens", "send"}
          PROVE mix.type # "BID" /\ w.to \subseteq mix.users /\ \A x \in w.to : v.off[x] \cap {"left", "muted"} = {}
      OBVIOUS
    <3>2. mix.type # "BID" /\ w.to \subseteq mix.users /\ \A x \in w.to : w.off[x] \cap {"left", "muted"} = {}
      BY <2>2, <3>1 DEF Spares
    <3>3. \A x \in w.to : v.off[x] \subseteq w.off[x]  BY <3>2
    <3> QED  BY <3>2, <3>3
  <2>4. w.at = "sender" =>
       /\ DOMAIN w.seen \subseteq w.to
       /\ \A x \in DOMAIN w.seen :
            /\ "disabled" \in v.off[x] => ~w.seen[x].enabled
            /\ \A r \in {"blocked", "expired"} : r \in v.off[x] => w.seen[x].role = "driver" /\ w.seen[x].status = r
    <3>1. SUFFICES ASSUME w.at = "sender"
          PROVE /\ DOMAIN w.seen \subseteq w.to
                /\ \A x \in DOMAIN w.seen :
                     /\ "disabled" \in v.off[x] => ~w.seen[x].enabled
                     /\ \A r \in {"blocked", "expired"} : r \in v.off[x] => w.seen[x].role = "driver" /\ w.seen[x].status = r
      OBVIOUS
    <3>2. /\ DOMAIN w.seen \subseteq w.to
          /\ \A x \in DOMAIN w.seen :
               /\ "disabled" \in w.off[x] => ~w.seen[x].enabled
               /\ \A r \in {"blocked", "expired"} : r \in w.off[x] => w.seen[x].role = "driver" /\ w.seen[x].status = r
      BY <2>2, <3>1 DEF Spares
    <3>3. \A x \in DOMAIN w.seen : v.off[x] \subseteq w.off[x]  BY <2>3, <3>1, <3>2
    <3> QED  BY <3>2, <3>3
  <2>5. w.at \in {"message_tokens", "send"} =>
       \A x \in w.to :
         /\ v.off[x] \cap {"disabled", "blocked"} = {}
         /\ "expired" \in v.off[x] => t[1].system \/ (mix.type \in {"DIRECT", "OFFER"} /\ "unheard" \notin v.off[t[1].by])
    <3>1. SUFFICES ASSUME w.at \in {"message_tokens", "send"}, NEW x \in w.to
          PROVE /\ v.off[x] \cap {"disabled", "blocked"} = {}
                /\ "expired" \in v.off[x] => t[1].system \/ (mix.type \in {"DIRECT", "OFFER"} /\ "unheard" \notin v.off[t[1].by])
      OBVIOUS
    <3>2. /\ w.off[x] \cap {"disabled", "blocked"} = {}
          /\ "expired" \in w.off[x] => t[1].system \/ (mix.type \in {"DIRECT", "OFFER"} /\ "unheard" \notin w.off[t[1].by])
      BY <2>2, <3>1 DEF Spares
    <3>3. v.off[x] \subseteq w.off[x] /\ v.off[t[1].by] \subseteq w.off[t[1].by]  BY <2>2, <2>3, <3>1
    <3> QED  BY <3>2, <3>3
  <2> QED  BY <2>3, <2>4, <2>5 DEF Spares
<1>3. Spares(t[1], v) => Spares(t[1], v)'  BY DEF Spares
<1> QED  BY <1>1, <1>2, <1>3 DEF WorkKept

\* Persons, tokens and participants change, and work is told of it.
LEMMA Becomes ==
  ASSUME NoticeInv, part = "notices", part' = part, NEW p, NEW s, NEW m, Notices!Become(p, s, m),
         DOMAIN p \subseteq DOMAIN person, DOMAIN m \subseteq DOMAIN member, todo' \subseteq todo,
         UNCHANGED <<rest, mix, bothered, missed>>
  PROVE  NoticeInv'
<1>1. /\ person' = p /\ token' = s /\ member' = m
      /\ work' = Notices!Worn(p, m) /\ queue' = Notices!Unsteady(p, s)
  BY DEF Notices!Become
<1>2. WorksKept /\ JobsKept /\ NULL \notin mix.calls /\ NULL \notin {"fetch", "batch", "chats"} /\ bothered = {} /\ missed = {}
      /\ \A d \in DOMAIN rest : d.kind \in Loops
  BY NoticeFacts
<1>3. ASSUME NEW t \in DOMAIN work
      PROVE  /\ t \in DOMAIN work' /\ work'[t].at = work[t].at /\ WorkKept(t, work[t])'
  <2>1. PICK w : w = work[t]  OBVIOUS
  <2>2. WorkKept(t, w)  BY <1>2, <1>3, <2>1 DEF WorksKept
  <2>3. PICK v : v = work'[t]  OBVIOUS
  <2>4. t \in DOMAIN work' /\ v = [w EXCEPT !.off = [u \in DOMAIN w.off |-> w.off[u] \cap Notices!Against(u, p, m)]]
    BY <1>1, <1>3, <2>1, <2>3 DEF Notices!Worn
  <2>5. DOMAIN w = WorkFields /\ DOMAIN w.off = mix.users  BY <2>2 DEF WorkKept
  <2>6. /\ DOMAIN v = WorkFields /\ v.off = [u \in mix.users |-> w.off[u] \cap Notices!Against(u, p, m)]
        /\ v.at = w.at /\ v.first = w.first /\ v.to = w.to /\ v.seen = w.seen
    BY <2>4, <2>5 DEF WorkFields
  <2>7. DOMAIN v.off = mix.users
        /\ \A u \in mix.users : v.off[u] \subseteq w.off[u] /\ v.off[u] \subseteq Notices!Against(u, person', member')
    BY <1>1, <2>6
  <2>8. \A u \in mix.users : Notices!Against(u, person, member)' = Notices!Against(u, person', member')
    BY DEF Notices!Against, Notices!Holds, Notices!Reasons, Notices!Heard
  <2>9. WorkKept(t, v)'  BY <2>2, <2>6, <2>7, <2>8, LessAgainst
  <2> QED  BY <2>1, <2>3, <2>4, <2>6, <2>9
<1>4. DOMAIN work' = DOMAIN work  BY <1>1 DEF Notices!Worn
<1>5. WorksKept'  BY <1>3, <1>4 DEF WorksKept
<1>6. DOMAIN queue = {"broadcast", "offer"} /\ DOMAIN queue' = DOMAIN queue /\ queue' = [k \in DOMAIN queue' |-> queue'[k]]
  BY <1>1, <1>2 DEF Notices!Unsteady, JobsKept
<1>7. ASSUME NEW k \in DOMAIN queue
      PROVE  /\ DOMAIN queue'[k] = QueueFields /\ queue'[k].pending = queue[k].pending /\ queue'[k].job = queue[k].job
             /\ queue'[k].at = queue[k].at /\ queue'[k].left = queue[k].left /\ queue'[k].sent = queue[k].sent
             /\ queue'[k].draining = queue[k].draining
             /\ queue[k].job = NULL => queue'[k] = queue[k]
             /\ queue[k].job # NULL => queue'[k].steady = queue[k].steady \cap Notices!Steady(queue[k].job, p, s)
  <2>1. DOMAIN queue[k] = QueueFields  BY <1>2, <1>7 DEF JobsKept, QueueKept
  <2>2. CASE queue[k].job = NULL
    <3>1. queue'[k] = queue[k]  BY <1>1, <1>7, <2>2 DEF Notices!Unsteady
    <3> QED  BY <2>1, <2>2, <3>1
  <2>3. CASE queue[k].job # NULL
    <3>1. queue'[k] = [queue[k] EXCEPT !.steady = queue[k].steady \cap Notices!Steady(queue[k].job, p, s)]
      BY <1>1, <1>7, <2>3 DEF Notices!Unsteady
    <3> QED  BY <2>1, <2>3, <3>1 DEF QueueFields
  <2> QED  BY <2>2, <2>3
<1>8. ASSUME NEW k \in DOMAIN queue'  PROVE QueueKept(k)'
  <2>1. QueueKept(k) /\ k \in DOMAIN queue  BY <1>2, <1>6, <1>8 DEF JobsKept
  <2>2. JobCalls(k)' = JobCalls(k) /\ Notices!Idle' = Notices!Idle /\ Before(k)' = Before(k)
    BY DEF JobCalls, Notices!Idle, Before
  <2>3. queue'[k].steady \subseteq queue[k].steady  BY <1>7, <2>1
  <2>4. \A u \in queue'[k].steady \ (queue'[k].sent \cup queue'[k].left) :
          <<queue'[k].job, u>> \in DOMAIN work' /\ work'[<<queue'[k].job, u>>].at \in Before(k)
    <3>1. ASSUME NEW u \in queue'[k].steady \ (queue'[k].sent \cup queue'[k].left)
          PROVE  <<queue'[k].job, u>> \in DOMAIN work' /\ work'[<<queue'[k].job, u>>].at \in Before(k)
      <4>1. u \in queue[k].steady \ (queue[k].sent \cup queue[k].left)  BY <1>7, <2>1, <2>3, <3>1
      <4>2. <<queue[k].job, u>> \in DOMAIN work /\ work[<<queue[k].job, u>>].at \in Before(k)
        BY <2>1, <4>1 DEF QueueKept
      <4>3. queue'[k].job = queue[k].job  BY <1>7, <2>1
      <4>4. <<queue[k].job, u>> \in DOMAIN work' /\ work'[<<queue[k].job, u>>].at = work[<<queue[k].job, u>>].at
        BY <1>3, <4>2
      <4> QED  BY <4>2, <4>3, <4>4
    <3> QED  BY <3>1
  <2>5. CASE queue[k].job = NULL
    <3>1. queue'[k] = queue[k]  BY <1>7, <2>1, <2>5
    <3> QED  BY <2>1, <2>2, <2>4, <2>5, <3>1 DEF QueueKept
  <2>6. CASE queue[k].job # NULL
    <3>1. queue'[k].steady \subseteq Notices!Steady(queue[k].job, person, token)'
      <4>1. PICK j : j = queue[k].job  OBVIOUS
      <4>2. queue'[k].job = j /\ queue[k].job' = j  BY <1>7, <2>1, <4>1
      <4>3. Notices!Steady(j, person, token)' = Notices!Steady(j, p, s)
        BY <1>1 DEF Notices!Steady, Notices!Targets, Notices!Target
      <4>4. Notices!Steady(queue[k].job, person, token)' = Notices!Steady(j, person, token)'
        BY <4>2 DEF Notices!Steady, Notices!Targets, Notices!Target
      <4> QED  BY <1>7, <2>1, <2>6, <4>1, <4>3, <4>4
    <3>2. /\ DOMAIN queue'[k] = QueueFields /\ queue'[k].pending = queue[k].pending /\ queue'[k].job = queue[k].job
          /\ queue'[k].at = queue[k].at /\ queue'[k].left = queue[k].left /\ queue'[k].sent = queue[k].sent
          /\ queue'[k].draining = queue[k].draining
      BY <1>7, <2>1
    <3> QED  BY <2>1, <2>2, <2>3, <2>4, <2>6, <3>1, <3>2 DEF QueueKept
  <2> QED  BY <2>5, <2>6
<1>9. ASSUME NEW t \in DOMAIN work', t[1].kind \in Notices!PushJobs  PROVE JobWork(t)'
  <2>1. JobWork(t) /\ Notices!QueueOf(t[1]) \in DOMAIN queue /\ t \in DOMAIN work
    BY <1>2, <1>4, <1>6, <1>9, QueueOfJob DEF JobsKept
  <2>2. PICK k \in DOMAIN queue : k = Notices!QueueOf(t[1])  BY <2>1
  <2>3. /\ queue'[k].job = queue[k].job /\ queue'[k].at = queue[k].at /\ queue'[k].left = queue[k].left
        /\ queue'[k].sent = queue[k].sent /\ work'[t].at = work[t].at
    BY <1>3, <1>7, <2>1
  <2> QED  BY <2>1, <2>2, <2>3 DEF JobWork
<1>10. JobsKept'  BY <1>6, <1>8, <1>9 DEF JobsKept
<1> QED  BY <1>1, <1>2, <1>5, <1>10, NoticeFacts, NoticeAgain

\* A user's row changes or goes, tokens move, a participant mutes the room or leaves.
LEMMA Changes ==
  ASSUME NoticeInv, part = "notices", part' = part, NEW c,
         \/ Notices!ChangePerson(c) \/ Notices!RemovePerson(c) \/ Notices!RegisterToken(c)
         \/ Notices!UnregisterToken(c) \/ Notices!ChangeMember(c)
  PROVE  NoticeInv'
<1>1. PICK p, s, m : /\ Notices!Become(p, s, m) /\ DOMAIN p \subseteq DOMAIN person /\ DOMAIN m \subseteq DOMAIN member
                     /\ todo' \subseteq todo /\ UNCHANGED <<rest, mix, bothered, missed>>
  <2>1. CASE Notices!ChangePerson(c)
    <3>1. DOMAIN [person EXCEPT ![c.by] = c.row] = DOMAIN person  OBVIOUS
    <3> QED  BY <2>1, <3>1 DEF Notices!ChangePerson, Notices!Take
  <2>2. CASE Notices!RemovePerson(c)
    <3>1. DOMAIN Notices!Without(person, c.by) \subseteq DOMAIN person /\ DOMAIN Notices!Without(member, c.by) \subseteq DOMAIN member
      BY DEF Notices!Without, Notices!Restrict
    <3> QED  BY <2>2, <3>1 DEF Notices!RemovePerson, Notices!Take
  <2>3. CASE Notices!RegisterToken(c)  BY <2>3 DEF Notices!RegisterToken, Notices!Take
  <2>4. CASE Notices!UnregisterToken(c)  BY <2>4 DEF Notices!UnregisterToken, Notices!Take
  <2>5. CASE Notices!ChangeMember(c)
    <3> DEFINE n == IF c.kind = "leave" THEN Notices!Without(member, c.by) ELSE [member EXCEPT ![c.by] = ~member[c.by]]
    <3>1. DOMAIN n \subseteq DOMAIN member  BY DEF Notices!Without, Notices!Restrict
    <3>2. Notices!Become(person, token, n) /\ todo' \subseteq todo /\ UNCHANGED <<rest, mix, bothered, missed>>
      BY <2>5 DEF Notices!ChangeMember, Notices!Take
    <3> HIDE DEF n
    <3> QED  BY <3>1, <3>2
  <2> QED  BY <2>1, <2>2, <2>3, <2>4, <2>5
<1> QED  BY <1>1, Becomes

\* The process ends, with its queues and all work.
LEMMA Restarts ==
  ASSUME NoticeInv, part = "notices", part' = part, NEW c, Notices!Restart(c)
  PROVE  NoticeInv'
<1>1. /\ work' = <<>> /\ rest' = <<>> /\ queue' = [k \in DOMAIN queue |-> Notices!Idle]
      /\ todo' \subseteq todo /\ UNCHANGED <<person, token, member, mix, bothered, missed>>
  BY DEF Notices!Restart, Notices!Take, Notices!rows
<1>2. JobsKept /\ bothered = {} /\ missed = {} /\ NULL \notin {"fetch", "batch", "chats"}  BY NoticeFacts
<1>3. DOMAIN work' = {} /\ DOMAIN rest' = {} /\ DOMAIN queue' = {"broadcast", "offer"}  BY <1>1, <1>2 DEF JobsKept
<1>4. ASSUME NEW k \in DOMAIN queue'  PROVE QueueKept(k)'
  <2>1. queue'[k] = Notices!Idle /\ Notices!Idle' = Notices!Idle  BY <1>1, <1>3, <1>4 DEF Notices!Idle
  <2> QED  BY <1>2, <2>1 DEF QueueKept, QueueFields, Notices!Idle
<1>5. JobsKept'  BY <1>1, <1>3, <1>4 DEF JobsKept
<1>6. WorksKept' /\ \A d \in DOMAIN rest' : d.kind \in Loops  BY <1>3 DEF WorksKept
<1> QED  BY <1>1, <1>2, <1>5, <1>6, NoticeAgain

\* deleteOldNotifications() touches notices and badges alone.
LEMMA CleansUp ==
  ASSUME NoticeInv, part = "notices", part' = part, NEW c, Notices!Cleanup(c)
  PROVE  NoticeInv'
<1>1. todo' \subseteq todo /\ UNCHANGED <<person, token, member, mix, work, rest, queue, bothered, missed>>
  BY DEF Notices!Cleanup, Notices!Take
<1>2. WorksKept /\ JobsKept /\ bothered = {} /\ missed = {} /\ \A d \in DOMAIN rest : d.kind \in Loops  BY NoticeFacts
<1>3. WorksKept'  BY <1>1, <1>2, WorksFrame
<1>4. JobsKept'
  <2>1. \A t \in DOMAIN work' : t \in DOMAIN work /\ AsFar(t)  BY <1>1 DEF AsFar
  <2> QED  BY <1>1, <1>2, <2>1, JobsFrame
<1> QED  BY <1>1, <1>2, <1>3, <1>4, NoticeAgain

\* The invariant holds at first.
LEMMA NoticeInit == Init => NoticeInv
<1> SUFFICES ASSUME Init, part = "notices"  PROVE NoticeInv  BY DEF NoticeInv
<1>1. Notices!Init  BY DEF Init
<1>2. /\ mix \in NoticeMixes /\ person = mix.person /\ member = mix.member /\ todo = mix.calls
      /\ work = <<>> /\ rest = <<>> /\ bothered = {} /\ missed = {}
      /\ queue = [k \in {"broadcast", "offer"} |-> Notices!Idle]
  BY <1>1 DEF Notices!Init
<1>3. DOMAIN person \subseteq mix.users /\ DOMAIN member \subseteq mix.users /\ NULL \notin {"fetch", "batch", "chats"}
  BY <1>2, NoticeAssumption
<1>4. DOMAIN work = {} /\ DOMAIN rest = {} /\ DOMAIN queue = {"broadcast", "offer"}  BY <1>2
<1>5. \A k \in DOMAIN queue : QueueKept(k)  BY <1>2, <1>3, <1>4 DEF QueueKept, QueueFields, Notices!Idle
<1>6. JobsKept /\ WorksKept  BY <1>2, <1>4, <1>5 DEF JobsKept, WorksKept
<1> QED  BY <1>2, <1>3, <1>4, <1>6 DEF NoticeInv

\* Every step keeps the invariant.
LEMMA NoticeNext == NoticeInv /\ [Next]_vars => NoticeInv'
<1> SUFFICES ASSUME NoticeInv, [Next]_vars, part' = "notices"  PROVE NoticeInv'  BY DEF NoticeInv
<1>1. CASE NoticeStep
  <2>1. part = "notices" /\ part' = part /\ Notices!Next  BY <1>1 DEF NoticeStep, InNotices
  <2>2. ASSUME NEW c \in mix.calls,
               \/ Notices!Notify(c) \/ Notices!Ask(c) \/ Notices!Cleanup(c) \/ Notices!PushOne(c) \/ Notices!PushTms(c)
               \/ Notices!PushMessage(c) \/ Notices!React(c) \/ Notices!Enqueue(c) \/ Notices!ChangePerson(c)
               \/ Notices!RemovePerson(c) \/ Notices!RegisterToken(c) \/ Notices!UnregisterToken(c)
               \/ Notices!ChangeMember(c) \/ Notices!Restart(c)
        PROVE  NoticeInv'
    BY <2>1, <2>2, Notifies, Requests, CleansUp, Enqueues, Changes, Restarts
  <2>3. ASSUME NEW c \in mix.calls, NEW u \in mix.users, Notices!Telling(c, u)  PROVE NoticeInv'
    BY <2>1, <2>3, RoleReads, Inserts, Counts, CountTold, Marks DEF Notices!Telling
  <2>4. ASSUME NEW c \in mix.calls, NEW u \in mix.users, Notices!Pushing(c, u)  PROVE NoticeInv'
    BY <2>1, <2>4, PrefsRead, TokensRead, Sends, MembersRead, ReceiversRead, SenderRead, MessageTokensRead, ReactsOn
    DEF Notices!Pushing
  <2>5. ASSUME NEW c \in mix.calls, NEW u \in mix.users, Notices!Reacting(c, u)  PROVE NoticeInv'
    BY <2>1, <2>5, ReactsOn, ReactionsRead DEF Notices!Reacting
  <2>6. ASSUME NEW k \in DOMAIN queue, Notices!Draining(k)  PROVE NoticeInv'
    BY <2>1, <2>6, Fetches, DrainEnds, BatchBegins DEF Notices!Draining
  <2> QED  BY <2>1, <2>2, <2>3, <2>4, <2>5, <2>6 DEF Notices!Next, Notices!Serving
<1>2. CASE UNCHANGED vars \/ DirectoryStep \/ TemplateStep \/ BoardStep \/ LocationStep
  <2>1. UNCHANGED vars
    BY <1>2 DEF DirectoryStep, InDirectory, TemplateStep, InTemplates, BoardStep, InBoard, LocationStep, InLocation
  <2>2. part = "notices" /\ part' = part /\ UNCHANGED <<person, token, member, mix, work, rest, queue, bothered, missed, todo>>
    BY <2>1 DEF vars, noticeVars
  <2>3. WorksKept /\ JobsKept /\ bothered = {} /\ missed = {} /\ \A d \in DOMAIN rest : d.kind \in Loops
    BY <2>2, NoticeFacts
  <2>4. WorksKept'  BY <2>2, <2>3, WorksFrame
  <2>5. \A t \in DOMAIN work' : t \in DOMAIN work /\ AsFar(t)  BY <2>2 DEF AsFar
  <2>6. JobsKept'  BY <2>2, <2>3, <2>5, JobsFrame
  <2> QED  BY <2>2, <2>3, <2>4, <2>6, NoticeAgain
<1> QED  BY <1>1, <1>2 DEF Next

\* NoticesRight: no notice and no push comes to anyone who was not to have it all along, no job
\* comes to anyone twice or leaves out anyone who was to be reached since it looked, and no job
\* waits in a queue that nobody works off.
THEOREM PushesRight == Spec => []NoticesRight
<1>1. NoticeInv => NoticesRight
  <2> SUFFICES ASSUME NoticeInv, part = "notices"  PROVE Notices!NobodyBothered /\ Notices!JobsReach
    BY DEF NoticesRight
  <2>1. bothered = {} /\ missed = {} /\ JobsKept  BY NoticeFacts
  <2>2. ASSUME NEW k \in DOMAIN queue, queue[k].pending # <<>>  PROVE queue[k].draining
    <3>1. QueueKept(k)  BY <2>1, <2>2 DEF JobsKept
    <3>2. CASE queue[k].job = NULL
      <4>1. queue[k] = Notices!Idle  BY <3>1, <3>2 DEF QueueKept
      <4> QED  BY <2>2, <4>1 DEF Notices!Idle
    <3>3. CASE queue[k].job # NULL  BY <3>1, <3>3 DEF QueueKept
    <3> QED  BY <3>2, <3>3
  <2> QED  BY <2>1, <2>2 DEF Notices!NobodyBothered, Notices!JobsReach
<1> QED  BY <1>1, NoticeInit, NoticeNext, PTL DEF Spec

-----------------------------------------------------------------------------
(* Badges and reactions: the invariant.                                    *)

\* The stages of work from which the badge, or the reactions, will be told, and those around them.
BadgeStages == {"countRole", "count", "tell", "zero"}
ShownStages == {"again", "rows", "broadcast"}
NoteStages == {"offer", "role", "insert", "update"} \cup BadgeStages
ReactStages == {"write"} \cup ShownStages
Reactions == {"react", "unreact"}

BadgeDue(u) == \E t \in DOMAIN work : t[2] = u /\ work[t].at \in BadgeStages
ShownDue == \E t \in DOMAIN work : work[t].at \in ShownStages

\* A count that is to be told is that of when it was taken, and no stage is one of another call's.
ToldWork(t, w) ==
  /\ w.at = "tell" /\ ~w.late => w.n = w.was
  /\ w.at \in {"update", "zero"} => w.was = 0
  /\ w.at \in NoteStages => t[1].kind \notin Reactions
  /\ w.at \in ReactStages => t[1].kind \in Reactions /\ t[2] = t[1].by /\ t[2] # mix.author
  /\ t[1].kind \in Loops => t[1] \notin todo

ToldWorks == \A t \in DOMAIN work : ToldWork(t, work[t])
\* A loop is at one recipient.
OneEach == \A t, s \in DOMAIN work : t[1].kind \in Loops /\ s[1] = t[1] => s = t

NoteRow == [user : mix.users \cup {NULL}, read : BOOLEAN, old : BOOLEAN,
            kind : {Notices!Kind(c) : c \in mix.calls} \cup {mix.note[i].kind : i \in DOMAIN mix.note}]

\* Who has not been told will be, or is loose.
BadgesKept == \A u \in DOMAIN person \ loose : badge[u] = Notices!Unread(u) \/ BadgeDue(u)
ShownKept == NULL \notin loose => shown = reaction \/ ShownDue

ToldInv ==
  part = "notices" =>
    /\ note \in Seq(NoteRow) /\ DOMAIN badge = mix.users
    /\ BadgesKept /\ ShownKept /\ ToldWorks /\ OneEach

-----------------------------------------------------------------------------
(* Badges and reactions: lemmas.                                           *)

\* The parts of the invariant, and what the assumption says of the mix.
LEMMA ToldFacts ==
  ASSUME NoticeInv, ToldInv, part = "notices"
  PROVE  /\ note \in Seq(NoteRow) /\ DOMAIN badge = mix.users /\ NULL \notin mix.users
         /\ BadgesKept /\ ShownKept /\ ToldWorks /\ OneEach /\ WorksKept
         /\ \A d \in DOMAIN rest : d.kind \in Loops
BY NoticeAssumption DEF NoticeInv, ToldInv

\* The same rows are counted.
LEMMA CountSame ==
  ASSUME NEW n, NEW m, NEW v, NEW adm,
         \A i : i \in DOMAIN m /\ m[i].user = v <=> i \in DOMAIN n /\ n[i].user = v,
         \A i \in DOMAIN n : n[i].user = v => m[i] = n[i]
  PROVE  Notices!UnreadFor(m, v, adm) = Notices!UnreadFor(n, v, adm)
<1> DEFINE N == {i \in DOMAIN n : n[i].user = v /\ ~n[i].read /\ (adm => n[i].kind \notin Notices!Excluded)}
           M == {i \in DOMAIN m : m[i].user = v /\ ~m[i].read /\ (adm => m[i].kind \notin Notices!Excluded)}
<1>1. M = N
  <2>1. ASSUME NEW i  PROVE i \in M <=> i \in N
    <3>1. CASE i \in DOMAIN n /\ n[i].user = v  BY <3>1
    <3>2. CASE ~(i \in DOMAIN n /\ n[i].user = v)  BY <3>2
    <3> QED  BY <3>1, <3>2
  <2> QED  BY <2>1
<1> QED  BY <1>1 DEF Notices!UnreadFor

\* A user whose notices and role stay has as many to read as before.
LEMMA UnreadSame ==
  ASSUME NEW v, Notices!IsAdmin(v)' = Notices!IsAdmin(v),
         \A i : i \in DOMAIN note' /\ note'[i].user = v <=> i \in DOMAIN note /\ note[i].user = v,
         \A i \in DOMAIN note : note[i].user = v => note'[i] = note[i]
  PROVE  Notices!Unread(v)' = Notices!Unread(v)
<1>1. PICK n, m, adm : n = note /\ m = note' /\ adm = Notices!IsAdmin(v)  OBVIOUS
<1>2. Notices!UnreadFor(m, v, adm) = Notices!UnreadFor(n, v, adm)  BY <1>1, CountSame
<1>3. Notices!Unread(v) = Notices!UnreadFor(n, v, adm)  BY <1>1 DEF Notices!Unread
<1>4. Notices!Unread(v)' = Notices!UnreadFor(m, v, adm)
  BY <1>1 DEF Notices!Unread, Notices!UnreadFor
<1> QED  BY <1>2, <1>3, <1>4

\* Nothing that is counted changes.
LEMMA UnreadStays ==
  ASSUME UNCHANGED <<note, person>>, NEW v
  PROVE  Notices!Unread(v)' = Notices!Unread(v)
<1>1. Notices!IsAdmin(v)' = Notices!IsAdmin(v)  BY DEF Notices!IsAdmin
<1> QED  BY <1>1, UnreadSame

\* A step that tells nothing and changes no row that is counted.
LEMMA ToldSteps ==
  ASSUME NoticeInv, ToldInv, part = "notices", part' = part, UNCHANGED <<person, note, reaction, badge, shown, loose, mix>>,
         \A t \in DOMAIN work : work[t].at \in BadgeStages \cup ShownStages =>
           t \in DOMAIN work' /\ work'[t].at \in BadgeStages \cup ShownStages
           /\ (work'[t].at \in BadgeStages <=> work[t].at \in BadgeStages),
         ToldWorks', OneEach'
  PROVE  ToldInv'
<1>1. note \in Seq(NoteRow) /\ DOMAIN badge = mix.users /\ BadgesKept /\ ShownKept  BY ToldFacts
<1>2. ASSUME NEW u \in DOMAIN person \ loose  PROVE badge'[u] = Notices!Unread(u)' \/ BadgeDue(u)'
  <2>1. Notices!Unread(u)' = Notices!Unread(u)  BY UnreadStays
  <2>2. ASSUME BadgeDue(u)  PROVE BadgeDue(u)'
    <3>1. PICK t \in DOMAIN work : t[2] = u /\ work[t].at \in BadgeStages  BY <2>2 DEF BadgeDue
    <3>2. t \in DOMAIN work' /\ work'[t].at \in BadgeStages  BY <3>1
    <3> QED  BY <3>1, <3>2 DEF BadgeDue
  <2> QED  BY <1>1, <1>2, <2>1, <2>2 DEF BadgesKept
<1>3. BadgesKept'  BY <1>2 DEF BadgesKept
<1>4. ASSUME ShownDue  PROVE ShownDue'
  <2>1. PICK t \in DOMAIN work : work[t].at \in ShownStages  BY <1>4 DEF ShownDue
  <2>2. t \in DOMAIN work' /\ work'[t].at \in ShownStages  BY <2>1 DEF BadgeStages, ShownStages
  <2> QED  BY <2>2 DEF ShownDue
<1>5. ShownKept'  BY <1>1, <1>4 DEF ShownKept
<1>6. NoteRow' = NoteRow  BY DEF NoteRow, Notices!Kind
<1> QED  BY <1>1, <1>3, <1>5, <1>6 DEF ToldInv

\* Where work for t may begin.
Starts(t, at) ==
  /\ at \in NoteStages => t[1].kind \notin Reactions
  /\ at \in ReactStages => t[1].kind \in Reactions /\ t[2] = t[1].by /\ t[2] # mix.author

\* Work that begins has counted nothing.
LEMMA BegunTold ==
  ASSUME NEW t, NEW at, Starts(t, at), t[1].kind \in Loops => t[1] \notin todo
  PROVE  ToldWork(t, Notices!Begun(at))
<1>1. PICK w : w = Notices!Begun(at)  OBVIOUS
<1>2. w.at = at /\ w.was = 0 /\ w.n = 0  BY <1>1 DEF Notices!Begun
<1>3. ToldWork(t, w)  BY <1>2 DEF ToldWork, Starts
<1> QED  BY <1>1, <1>3

\* The rest of the calls is a matter of loops only.
LEMMA ToldLater ==
  ASSUME NEW t, NEW w, ToldWork(t, w), mix' = mix, todo' \subseteq todo
  PROVE  ToldWork(t, w)'
BY DEF ToldWork

\* One piece of work goes on.
LEMMA OneGoes ==
  ASSUME NoticeInv, ToldInv, part = "notices", mix' = mix, todo' \subseteq todo,
         NEW c, NEW u, <<c, u>> \in DOMAIN work, DOMAIN work' = DOMAIN work,
         \A t \in DOMAIN work : t # <<c, u>> => work'[t] = work[t],
         ToldWork(<<c, u>>, work'[<<c, u>>])
  PROVE  ToldWorks' /\ OneEach'
<1>1. ToldWorks /\ OneEach  BY ToldFacts
<1>2. ASSUME NEW t \in DOMAIN work'  PROVE ToldWork(t, work[t])'
  <2>1. PICK w : w = work'[t]  OBVIOUS
  <2>2. ToldWork(t, w)  BY <1>1, <1>2, <2>1 DEF ToldWorks
  <2>3. ToldWork(t, w)'  BY <2>2, ToldLater
  <2> QED  BY <2>1, <2>3
<1> QED  BY <1>1, <1>2 DEF ToldWorks, OneEach

\* Nothing goes on but the work of one call, which has others do something.
LEMMA NoneGoes ==
  ASSUME NoticeInv, ToldInv, part = "notices", mix' = mix, todo' \subseteq todo,
         DOMAIN work' \subseteq DOMAIN work,
         \A t \in DOMAIN work' : /\ work'[t].at = work[t].at /\ work'[t].late = work[t].late
                                 /\ work'[t].n = work[t].n /\ work'[t].was = work[t].was
  PROVE  ToldWorks' /\ OneEach'
<1>1. ToldWorks /\ OneEach  BY ToldFacts
<1>2. ASSUME NEW t \in DOMAIN work'  PROVE ToldWork(t, work[t])'
  <2>1. PICK v, w : v = work[t] /\ w = work'[t]  OBVIOUS
  <2>2. ToldWork(t, v) /\ w.at = v.at /\ w.late = v.late /\ w.n = v.n /\ w.was = v.was
    BY <1>1, <1>2, <2>1 DEF ToldWorks
  <2>3. ToldWork(t, w)  BY <2>2 DEF ToldWork
  <2>4. ToldWork(t, w)'  BY <2>3, ToldLater
  <2> QED  BY <2>1, <2>4
<1> QED  BY <1>1, <1>2 DEF ToldWorks, OneEach

\* A piece of work ends, and a loop goes on: only this piece makes way.
LEMMA EndTold ==
  ASSUME NoticeInv, ToldInv, part = "notices", mix' = mix, todo' \subseteq todo,
         NEW c, NEW u, <<c, u>> \in DOMAIN work, Notices!End(c, u)
  PROVE  /\ ToldWorks' /\ OneEach'
         /\ \A t \in DOMAIN work : t # <<c, u>> => t \in DOMAIN work' /\ work'[t] = work[t]
<1>1. ToldWorks /\ OneEach /\ WorksKept /\ \A d \in DOMAIN rest : d.kind \in Loops  BY ToldFacts
<1>2. CASE c \in DOMAIN rest /\ rest[c] # <<>>
  <2> DEFINE next == <<c, Head(rest[c])>>
             w == Notices!Begun(work[<<c, u>>].first)
  <2>1. /\ DOMAIN work' = (DOMAIN work \ {<<c, u>>}) \cup {next} /\ work'[next] = w
        /\ \A t \in DOMAIN work' : t # next => t \in DOMAIN work /\ t # <<c, u>> /\ work'[t] = work[t]
    <3>1. PICK f, a, x, v : f = work /\ a = <<c, u>> /\ x = next /\ v = w  OBVIOUS
    <3>2. work' = Notices!With(Notices!Without(f, a), x, v)  BY <1>2, <3>1 DEF Notices!End
    <3>3. /\ DOMAIN work' = (DOMAIN f \ {a}) \cup {x} /\ work'[x] = v
          /\ \A t \in DOMAIN work' : t # x => t \in DOMAIN f /\ t # a /\ work'[t] = f[t]
      BY <3>2 DEF Notices!With, Notices!Without, Notices!Restrict
    <3> HIDE DEF next, w
    <3> QED  BY <3>1, <3>3
  <2>2. c.kind \in Loops /\ c \notin todo /\ next[1] = c /\ <<c, u>>[1] = c
    BY <1>1, <1>2 DEF ToldWorks, ToldWork
  <2>3. \A t \in DOMAIN work : t[1] = c => t = <<c, u>>  BY <1>1, <2>2 DEF OneEach
  <2>4. ToldWork(next, w)
    <3>1. WorkKept(<<c, u>>, work[<<c, u>>])  BY <1>1 DEF WorksKept
    <3>2. PICK at : at = work[<<c, u>>].first  OBVIOUS
    <3>3. at \in {"insert", "role"} /\ c.kind \notin Reactions  BY <2>2, <3>1, <3>2 DEF WorkKept, LoopStart, Loops, Reactions
    <3>4. PICK t : t = next  BY Zenon
    <3>5. Starts(t, at)  BY <2>2, <3>3, <3>4 DEF Starts, ReactStages, ShownStages
    <3>6. ToldWork(t, Notices!Begun(at))  BY <2>2, <3>4, <3>5, BegunTold
    <3> QED  BY <3>2, <3>4, <3>6
  <2> HIDE DEF next, w
  <2>5. ASSUME NEW t \in DOMAIN work'  PROVE ToldWork(t, work[t])'
    <3>1. PICK x : x = work'[t]  OBVIOUS
    <3>2. ToldWork(t, x)  BY <1>1, <2>1, <2>4, <2>5, <3>1 DEF ToldWorks
    <3>3. ToldWork(t, x)'  BY <3>2, ToldLater
    <3> QED  BY <3>1, <3>3
  <2>6. ASSUME NEW t \in DOMAIN work', NEW s \in DOMAIN work', t[1].kind \in Loops, s[1] = t[1]  PROVE s = t
    <3>1. CASE t[1] = c  BY <2>1, <2>3, <2>6, <3>1
    <3>2. CASE t[1] # c
      <4>1. t \in DOMAIN work /\ s \in DOMAIN work  BY <2>1, <2>2, <2>6, <3>2
      <4> QED  BY <1>1, <2>6, <4>1 DEF OneEach
    <3> QED  BY <3>1, <3>2
  <2>7. ASSUME NEW t \in DOMAIN work, t # <<c, u>>  PROVE t \in DOMAIN work' /\ work'[t] = work[t]
    <3>1. t # next  BY <2>2, <2>3, <2>7
    <3> QED  BY <2>1, <2>7, <3>1
  <2> QED  BY <2>5, <2>6, <2>7 DEF ToldWorks, OneEach
<1>3. CASE ~(c \in DOMAIN rest /\ rest[c] # <<>>)
  <2>1. /\ DOMAIN work' = DOMAIN work \ {<<c, u>>} /\ \A t \in DOMAIN work' : work'[t] = work[t]
    BY <1>3 DEF Notices!End, Notices!Without, Notices!Restrict
  <2>2. ToldWorks' /\ OneEach'  BY <2>1, NoneGoes
  <2> QED  BY <2>1, <2>2
<1> QED  BY <1>2, <1>3

\* Work begins for a call that has none, or is not one of a loop.
LEMMA BeginTold ==
  ASSUME NoticeInv, ToldInv, part = "notices", mix' = mix, NEW c, NEW to, todo' \subseteq todo,
         c.kind \in Loops => c \notin todo' /\ (\A t \in DOMAIN work : t[1] # c) /\ \A v, x \in to : v = x,
         DOMAIN work' = DOMAIN work \cup {<<c, v>> : v \in to},
         \A t \in DOMAIN work : work'[t] = work[t],
         \A v \in to : <<c, v>> \notin DOMAIN work => \E at : work'[<<c, v>>] = Notices!Begun(at) /\ Starts(<<c, v>>, at)
  PROVE  ToldWorks' /\ OneEach'
<1>1. ToldWorks /\ OneEach  BY ToldFacts
<1>2. ASSUME NEW t \in DOMAIN work'  PROVE ToldWork(t, work[t])'
  <2>1. CASE t \in DOMAIN work
    <3>1. PICK w : w = work'[t]  OBVIOUS
    <3>2. ToldWork(t, w)  BY <1>1, <2>1, <3>1 DEF ToldWorks
    <3>3. ToldWork(t, w)'  BY <3>2, ToldLater
    <3> QED  BY <3>1, <3>3
  <2>2. CASE t \notin DOMAIN work
    <3>1. PICK v \in to : t = <<c, v>>  BY <1>2, <2>2
    <3>2. PICK at : work'[t] = Notices!Begun(at) /\ Starts(t, at)  BY <2>2, <3>1
    <3>3. PICK w : w = Notices!Begun(at)  OBVIOUS
    <3>4. w.at = at /\ w.was = 0 /\ w.n = 0  BY <3>3 DEF Notices!Begun
    <3>5. t[1] = c  BY <3>1
    <3>6. ToldWork(t, w)'  BY <3>2, <3>4, <3>5 DEF ToldWork, Starts
    <3> QED  BY <3>2, <3>3, <3>6
  <2> QED  BY <2>1, <2>2
<1>3. ASSUME NEW t \in DOMAIN work', NEW s \in DOMAIN work', t[1].kind \in Loops, s[1] = t[1]  PROVE s = t
  <2>1. CASE t[1] = c
    <3>1. PICK v \in to : t = <<c, v>>  BY <1>3, <2>1
    <3>2. PICK x \in to : s = <<c, x>>  BY <1>3, <2>1
    <3> QED  BY <1>3, <2>1, <3>1, <3>2
  <2>2. CASE t[1] # c
    <3>1. t \in DOMAIN work /\ s \in DOMAIN work
      <4>1. \A v \in to : <<c, v>>[1] = c  OBVIOUS
      <4> QED  BY <1>3, <2>2, <4>1
    <3> QED  BY <1>1, <1>3, <3>1 DEF OneEach
  <2> QED  BY <2>1, <2>2
<1> QED  BY <1>2, <1>3 DEF ToldWorks, OneEach

-----------------------------------------------------------------------------
(* Badges and reactions: work that begins.                                 *)

\* Work begins all at once.
LEMMA AtOnceTold ==
  ASSUME NoticeInv, ToldInv, part = "notices", part' = part, UNCHANGED <<person, note, reaction, badge, shown, loose, mix>>,
         todo' \subseteq todo, NEW c, NEW to, NEW at, c.kind \notin Loops, \A v \in to : Starts(<<c, v>>, at),
         work' = [t \in DOMAIN work \cup {<<c, v>> : v \in to} |-> IF t \in DOMAIN work THEN work[t] ELSE Notices!Begun(at)]
  PROVE  ToldInv'
<1>1. /\ DOMAIN work' = DOMAIN work \cup {<<c, v>> : v \in to}
      /\ \A t \in DOMAIN work : work'[t] = work[t]
      /\ \A v \in to : <<c, v>> \notin DOMAIN work => work'[<<c, v>>] = Notices!Begun(at)
  OBVIOUS
<1>2. \A v \in to : <<c, v>> \notin DOMAIN work => \E x : work'[<<c, v>>] = Notices!Begun(x) /\ Starts(<<c, v>>, x)
  BY <1>1
<1>3. ToldWorks' /\ OneEach'  BY <1>1, <1>2, BeginTold, Zenon
<1> QED  BY <1>1, <1>3, ToldSteps

\* Work begins for one recipient after the other.
LEMMA InTurnTold ==
  ASSUME NoticeInv, ToldInv, part = "notices", part' = part, UNCHANGED <<person, note, reaction, badge, shown, loose, mix>>,
         NEW c \in todo, todo' = todo \ {c}, NEW to, NEW at, c.kind \in Loops, at \in {"insert", "role"},
         work' = IF to = <<>> THEN work ELSE Notices!With(work, <<c, Head(to)>>, Notices!Begun(at))
  PROVE  ToldInv'
<1>1. ToldWorks  BY ToldFacts
<1>2. \A t \in DOMAIN work : t[1] # c  BY <1>1 DEF ToldWorks, ToldWork
<1>3. PICK S : S = IF to = <<>> THEN {} ELSE {Head(to)}  BY Zenon
<1>4. \A v \in S : <<c, v>> \notin DOMAIN work
  <2>1. ASSUME NEW v \in S, <<c, v>> \in DOMAIN work  PROVE FALSE
    <3>1. <<c, v>>[1] # c  BY <1>2, <2>1
    <3> QED  BY <3>1
  <2> QED  BY <2>1
<1>5. /\ DOMAIN work' = DOMAIN work \cup {<<c, v>> : v \in S}
      /\ \A t \in DOMAIN work : work'[t] = work[t]
      /\ \A v \in S : work'[<<c, v>>] = Notices!Begun(at)
  <2>1. CASE to = <<>>  BY <1>3, <2>1, Zenon
  <2>2. CASE to # <<>>
    <3>1. PICK u : u = Head(to)  OBVIOUS
    <3>2. S = {u} /\ work' = Notices!With(work, <<c, u>>, Notices!Begun(at)) /\ <<c, u>> \notin DOMAIN work
      BY <1>3, <1>4, <2>2, <3>1
    <3> QED  BY <3>2 DEF Notices!With
  <2> QED  BY <2>1, <2>2
<1>6. \A v \in S : Starts(<<c, v>>, at)
  BY DEF Starts, Loops, Reactions, ReactStages, ShownStages
<1>7. \A v \in S : <<c, v>> \notin DOMAIN work => \E x : work'[<<c, v>>] = Notices!Begun(x) /\ Starts(<<c, v>>, x)
  BY <1>5, <1>6
<1>8. \A v, x \in S : v = x  BY <1>3
<1>9. ToldWorks' /\ OneEach'  BY <1>2, <1>5, <1>7, <1>8, BeginTold, Zenon
<1> QED  BY <1>5, <1>9, ToldSteps

\* The call for which work begins asks for what it may.
LEMMA CallsTold ==
  ASSUME NoticeInv, ToldInv, part = "notices", part' = part, NEW c,
         \/ Notices!Notify(c) \/ Notices!Ask(c) \/ Notices!PushOne(c) \/ Notices!PushTms(c) \/ Notices!PushMessage(c) \/ Notices!React(c)
  PROVE  ToldInv'
<1>1. UNCHANGED <<person, note, reaction, badge, shown, loose, mix>> /\ c \in todo /\ todo' = todo \ {c}
  BY DEF Notices!Notify, Notices!NotifyPrivate, Notices!NotifyGroup, Notices!NotifyLeft, Notices!NotifyAdded, Notices!NotifyRemoved,
         Notices!NotifyLoad, Notices!NotifyStaff, Notices!NotifyDriver, Notices!Ask, Notices!PushOne, Notices!PushTms,
         Notices!PushMessage, Notices!React, Notices!Take, Notices!rows, Notices!told
<1>2. ASSUME Notices!NotifyPrivate(c) \/ Notices!NotifyLeft(c) \/ Notices!NotifyAdded(c) \/ Notices!NotifyRemoved(c) \/ Notices!NotifyLoad(c)
      PROVE  ToldInv'
  <2>1. PICK to, at : /\ c.kind \in Loops /\ at \in {"insert", "role"}
                      /\ work' = IF to = <<>> THEN work ELSE Notices!With(work, <<c, Head(to)>>, Notices!Begun(at))
    BY <1>2, Zenon DEF Notices!NotifyPrivate, Notices!NotifyLeft, Notices!NotifyAdded, Notices!NotifyRemoved, Notices!NotifyLoad,
                Notices!Take, Notices!InTurn, Loops
  <2> QED  BY <1>1, <2>1, InTurnTold
<1>3. ASSUME NEW to, NEW at, Notices!AtOnce(c, to, at), c.kind \notin Loops, \A v \in to : Starts(<<c, v>>, at)  PROVE ToldInv'
  <2>1. work' = [t \in DOMAIN work \cup {<<c, v>> : v \in to} |-> IF t \in DOMAIN work THEN work[t] ELSE Notices!Begun(at)]
    BY <1>3 DEF Notices!AtOnce
  <2>2. todo' \subseteq todo  BY <1>1
  <2> QED  BY <1>1, <1>3, <2>1, <2>2, AtOnceTold, Zenon
<1>4. ASSUME Notices!NotifyGroup(c) \/ Notices!NotifyStaff(c) \/ Notices!NotifyDriver(c) \/ Notices!Ask(c)
             \/ Notices!PushOne(c) \/ Notices!PushTms(c) \/ Notices!PushMessage(c)
      PROVE  ToldInv'
  <2>1. PICK to, at : Notices!AtOnce(c, to, at) /\ c.kind \notin Loops \cup Reactions
                      /\ at \in {"role", "offer", "countRole", "update", "prefs", "members"}
    BY <1>4 DEF Notices!NotifyGroup, Notices!NotifyStaff, Notices!NotifyDriver, Notices!Ask, Notices!PushOne, Notices!PushTms,
                Notices!PushMessage, Notices!Take, Loops, Reactions
  <2>2. \A v \in to : Starts(<<c, v>>, at)  BY <2>1 DEF Starts, ReactStages, ShownStages
  <2> QED  BY <1>3, <2>1, <2>2
<1>5. ASSUME Notices!React(c)  PROVE ToldInv'
  <2>1. PICK to : Notices!AtOnce(c, to, "write") /\ c.kind \in Reactions /\ \A v \in to : v = c.by /\ v # mix.author
    BY <1>5 DEF Notices!React, Notices!Take, Reactions
  <2>2. \A v \in to : Starts(<<c, v>>, "write")  BY <2>1 DEF Starts, NoteStages, BadgeStages
  <2> QED  BY <1>3, <2>1, <2>2 DEF Loops, Reactions
<1> QED  BY <1>2, <1>4, <1>5 DEF Notices!Notify

-----------------------------------------------------------------------------
(* Badges and reactions: work that tells nothing.                          *)

\* A piece of work goes on, not to tell what it was not to tell before.
LEMMA GoTold ==
  ASSUME NoticeInv, ToldInv, part = "notices", part' = part, UNCHANGED <<person, note, reaction, badge, shown, loose, mix, todo>>,
         NEW c, NEW u, <<c, u>> \in DOMAIN work, DOMAIN work' = DOMAIN work,
         \A t \in DOMAIN work : t # <<c, u>> => work'[t] = work[t],
         NEW v, NEW w, v = work[<<c, u>>], w = work'[<<c, u>>],
         w.at \in BadgeStages <=> v.at \in BadgeStages, w.at \in ShownStages <=> v.at \in ShownStages,
         w.at \in NoteStages => v.at \in NoteStages, w.at \in ReactStages => v.at \in ReactStages,
         w.at = "tell" /\ ~w.late => w.n = w.was, w.at \notin {"update", "zero"}
  PROVE  ToldInv'
<1>1. ToldWork(<<c, u>>, v)  BY ToldFacts DEF ToldWorks
<1>2. ToldWork(<<c, u>>, w)  BY <1>1 DEF ToldWork
<1>3. ToldWorks' /\ OneEach'  BY <1>2, OneGoes
<1>4. \A t \in DOMAIN work : work[t].at \in BadgeStages \cup ShownStages =>
           t \in DOMAIN work' /\ work'[t].at \in BadgeStages \cup ShownStages
           /\ (work'[t].at \in BadgeStages <=> work[t].at \in BadgeStages)
  OBVIOUS
<1> QED  BY <1>3, <1>4, ToldSteps

\* A piece of work ends that had nothing to tell.
LEMMA EndsTold ==
  ASSUME NoticeInv, ToldInv, part = "notices", part' = part, UNCHANGED <<person, note, reaction, badge, shown, loose, mix, todo>>,
         NEW c, NEW u, <<c, u>> \in DOMAIN work, Notices!End(c, u), work[<<c, u>>].at \notin BadgeStages \cup ShownStages
  PROVE  ToldInv'
<1>1. /\ ToldWorks' /\ OneEach'
      /\ \A t \in DOMAIN work : t # <<c, u>> => t \in DOMAIN work' /\ work'[t] = work[t]
  BY EndTold
<1>2. \A t \in DOMAIN work : work[t].at \in BadgeStages \cup ShownStages =>
           t \in DOMAIN work' /\ work'[t].at \in BadgeStages \cup ShownStages
           /\ (work'[t].at \in BadgeStages <=> work[t].at \in BadgeStages)
  BY <1>1
<1> QED  BY <1>1, <1>2, ToldSteps

\* A piece of work passes from one stage to another.
LEMMA PassTold ==
  ASSUME NoticeInv, ToldInv, part = "notices", part' = part, UNCHANGED <<person, note, reaction, badge, shown, loose, mix, todo>>,
         NEW c, NEW u, NEW at, NEW next, Notices!At(c, u, at), Notices!Pass(c, u, next),
         next \in BadgeStages <=> at \in BadgeStages, next \in ShownStages <=> at \in ShownStages,
         next \in NoteStages => at \in NoteStages, next \in ReactStages => at \in ReactStages, next \notin {"tell", "update", "zero"}
  PROVE  ToldInv'
<1>1. <<c, u>> \in DOMAIN work /\ work[<<c, u>>].at = at  BY DEF Notices!At
<1>2. DOMAIN work[<<c, u>>] = WorkFields  BY <1>1, ToldFacts DEF WorksKept, WorkKept
<1>3. PICK v, w : v = work[<<c, u>>] /\ w = work'[<<c, u>>]  OBVIOUS
<1>4. work' = [work EXCEPT ![<<c, u>>].at = next]  BY DEF Notices!Pass
<1>5. DOMAIN work' = DOMAIN work /\ (\A t \in DOMAIN work : t # <<c, u>> => work'[t] = work[t]) /\ w.at = next
  BY <1>1, <1>2, <1>3, <1>4 DEF WorkFields
<1> QED  BY <1>1, <1>3, <1>5, GoTold

\* The stages on the way to a push.
LEMMA PushStages ==
  /\ {"prefs", "tokens", "send", "members", "receivers", "sender", "message_tokens", "mute"} \cap (NoteStages \cup ReactStages) = {}
  /\ BadgeStages \subseteq NoteStages /\ ShownStages \subseteq ReactStages /\ NoteStages \cap ReactStages = {}
  /\ {"offer", "role", "insert"} \subseteq NoteStages /\ {"offer", "role", "insert"} \cap BadgeStages = {}
BY DEF NoteStages, ReactStages, BadgeStages, ShownStages

\* Roles and preferences are looked at.
LEMMA LooksTold ==
  ASSUME NoticeInv, ToldInv, part = "notices", part' = part, NEW c, NEW u,
         \/ Notices!OfferRole(c, u) \/ Notices!RoleRead(c, u) \/ Notices!Prefs(c, u) \/ Notices!ReactionPush(c, u)
  PROVE  ToldInv'
<1>1. UNCHANGED <<person, note, reaction, badge, shown, loose, mix, todo>>
  BY DEF Notices!OfferRole, Notices!RoleRead, Notices!Prefs, Notices!ReactionPush, Notices!rows, Notices!told
<1>2. PICK at, next : /\ Notices!At(c, u, at) /\ (Notices!End(c, u) \/ Notices!Pass(c, u, next))
                      /\ <<at, next>> \in {<<"offer", "role">>, <<"role", "insert">>, <<"prefs", "tokens">>, <<"mute", "prefs">>}
  BY DEF Notices!OfferRole, Notices!RoleRead, Notices!Prefs, Notices!ReactionPush
<1>3. <<c, u>> \in DOMAIN work /\ work[<<c, u>>].at = at  BY <1>2 DEF Notices!At
<1>4. CASE Notices!End(c, u)
  <2>1. at \notin BadgeStages \cup ShownStages  BY <1>2, PushStages
  <2> QED  BY <1>1, <1>3, <1>4, <2>1, EndsTold
<1>5. CASE Notices!Pass(c, u, next)
  <2>1. /\ at \notin BadgeStages \cup ShownStages /\ next \notin BadgeStages \cup ReactStages /\ next \notin {"tell", "update", "zero"}
        /\ next \in NoteStages => at \in NoteStages
    BY <1>2, PushStages
  <2>2. next \notin ShownStages  BY <2>1, PushStages
  <2> QED  BY <1>1, <1>2, <1>5, <2>1, <2>2, PassTold
<1> QED  BY <1>2, <1>4, <1>5

\* Pushes are prepared and sent.
LEMMA PushesTold ==
  ASSUME NoticeInv, ToldInv, part = "notices", part' = part, NEW c, NEW u,
         \/ Notices!Tokens(c, u) \/ Notices!Send(c, u) \/ Notices!Members(c, u) \/ Notices!Receivers(c, u)
         \/ Notices!Sender(c, u) \/ Notices!MessageTokens(c, u)
  PROVE  ToldInv'
<1>1. UNCHANGED <<person, note, reaction, badge, shown, loose, mix, todo>>
  BY DEF Notices!Tokens, Notices!Send, Notices!Members, Notices!Receivers, Notices!Sender, Notices!MessageTokens,
         Notices!rows, Notices!told
<1> DEFINE Pushy == {"prefs", "tokens", "send", "members", "receivers", "sender", "message_tokens", "mute"}
<1>2. PICK at \in Pushy : Notices!At(c, u, at)
  BY DEF Notices!Tokens, Notices!Send, Notices!Members, Notices!Receivers, Notices!Sender, Notices!MessageTokens
<1>3. <<c, u>> \in DOMAIN work /\ work[<<c, u>>].at = at  BY <1>2 DEF Notices!At
<1>4. DOMAIN work[<<c, u>>] = WorkFields  BY <1>3, ToldFacts DEF WorksKept, WorkKept
<1>5. at \notin BadgeStages \cup ShownStages  BY <1>2, PushStages
<1>6. \/ Notices!End(c, u)
      \/ \E next \in Pushy : \E to : work' = [work EXCEPT ![<<c, u>>].to = to, ![<<c, u>>].at = next]
      \/ \E next \in Pushy : \E seen : work' = [work EXCEPT ![<<c, u>>].seen = seen, ![<<c, u>>].at = next]
  BY Zenon DEF Notices!Tokens, Notices!Send, Notices!Members, Notices!Receivers, Notices!Sender, Notices!MessageTokens
<1>7. CASE Notices!End(c, u)  BY <1>1, <1>3, <1>5, <1>7, EndsTold
<1>8. ASSUME NEW next \in Pushy, NEW x,
             \/ work' = [work EXCEPT ![<<c, u>>].to = x, ![<<c, u>>].at = next]
             \/ work' = [work EXCEPT ![<<c, u>>].seen = x, ![<<c, u>>].at = next]
      PROVE  ToldInv'
  <2>1. PICK v, w : v = work[<<c, u>>] /\ w = work'[<<c, u>>]  OBVIOUS
  <2>2. DOMAIN work' = DOMAIN work /\ (\A t \in DOMAIN work : t # <<c, u>> => work'[t] = work[t]) /\ w.at = next
    BY <1>3, <1>4, <1>8, <2>1, Zenon DEF WorkFields
  <2>3. next \notin NoteStages \cup ReactStages \cup BadgeStages \cup ShownStages /\ next \notin {"tell", "update", "zero"}
    BY <1>8, PushStages
  <2> QED  BY <1>1, <1>3, <1>5, <2>1, <2>2, <2>3, GoTold
<1> QED  BY <1>6, <1>7, <1>8, Zenon

\* The role is read, and then the notices are counted.
LEMMA CountsTold ==
  ASSUME NoticeInv, ToldInv, part = "notices", part' = part, NEW c, NEW u, Notices!CountRole(c, u) \/ Notices!Count(c, u)
  PROVE  ToldInv'
<1>1. UNCHANGED <<person, note, reaction, badge, shown, loose, mix, todo>>
  BY DEF Notices!CountRole, Notices!Count, Notices!rows, Notices!told
<1>2. <<c, u>> \in DOMAIN work /\ work[<<c, u>>].at \in {"countRole", "count"}
  BY DEF Notices!CountRole, Notices!Count, Notices!At
<1>3. DOMAIN work[<<c, u>>] = WorkFields  BY <1>2, ToldFacts DEF WorksKept, WorkKept
<1>4. PICK v, w : v = work[<<c, u>>] /\ w = work'[<<c, u>>]  OBVIOUS
<1>5. DOMAIN work' = DOMAIN work /\ \A t \in DOMAIN work : t # <<c, u>> => work'[t] = work[t]
  BY DEF Notices!CountRole, Notices!Count
<1>6. w.at \in {"count", "tell"} /\ (w.at = "tell" /\ ~w.late => w.n = w.was)
  <2>1. CASE Notices!CountRole(c, u)
    <3>1. work' = [work EXCEPT ![<<c, u>>].adm = Notices!IsAdmin(u), ![<<c, u>>].at = "count"]  BY <2>1 DEF Notices!CountRole
    <3> QED  BY <1>2, <1>3, <1>4, <3>1, Zenon DEF WorkFields
  <2>2. CASE Notices!Count(c, u)
    <3>1. PICK n, was, late0 : /\ n = Notices!UnreadFor(note, u, v.adm) /\ was = Notices!Unread(u)
                               /\ late0 = (v.adm # Notices!IsAdmin(u))
      OBVIOUS
    <3>2. w = [v EXCEPT !.n = n, !.at = "tell", !.was = was, !.late = late0]
      BY <1>2, <1>4, <2>2, <3>1 DEF Notices!Count
    <3>3. w.at = "tell" /\ w.n = n /\ w.was = was /\ w.late = late0  BY <1>3, <1>4, <3>2 DEF WorkFields
    <3>4. ~late0 => n = was  BY <3>1, Zenon DEF Notices!Unread
    <3> QED  BY <3>3, <3>4
  <2> QED  BY <2>1, <2>2
<1>7. /\ w.at \in BadgeStages /\ v.at \in BadgeStages /\ w.at \notin ReactStages \cup ShownStages /\ v.at \notin ShownStages
      /\ v.at \in NoteStages /\ w.at \notin {"update", "zero"}
  BY <1>2, <1>4, <1>6 DEF BadgeStages, ShownStages, NoteStages, ReactStages
<1> QED  BY <1>1, <1>2, <1>4, <1>5, <1>6, <1>7, GoTold

\* The reactions are read that will be broadcast, and the author's push begins.
LEMMA RowsTold ==
  ASSUME NoticeInv, ToldInv, part = "notices", part' = part, NEW c, NEW u, Notices!ReadReactions(c, u)
  PROVE  ToldInv'
<1>1. UNCHANGED <<person, note, reaction, badge, shown, loose, mix, todo>> /\ <<c, u>> \in DOMAIN work /\ work[<<c, u>>].at = "rows"
  BY DEF Notices!ReadReactions, Notices!rows, Notices!told, Notices!At
<1>2. ToldWorks /\ OneEach  BY ToldFacts
<1>3. DOMAIN work[<<c, u>>] = WorkFields  BY <1>1, ToldFacts DEF WorksKept, WorkKept
<1>4. c.kind \in Reactions /\ u = c.by /\ u # mix.author
  <2>1. ToldWork(<<c, u>>, work[<<c, u>>])  BY <1>1, <1>2 DEF ToldWorks
  <2> QED  BY <1>1, <2>1 DEF ToldWork, ReactStages, ShownStages
<1>5. PICK w : w = [work[<<c, u>>] EXCEPT !.seen = reaction, !.at = "broadcast"]  OBVIOUS
<1>6. w.at = "broadcast"  BY <1>3, <1>5 DEF WorkFields
<1>7. PICK a : a = <<c, mix.author>>  BY Zenon
<1>8. a # <<c, u>> /\ a[1] = c /\ a[2] = mix.author  BY <1>4, <1>7
<1>9. /\ DOMAIN work' = DOMAIN work \/ DOMAIN work' = DOMAIN work \cup {a}
      /\ work'[<<c, u>>] = w
      /\ \A t \in DOMAIN work' : t # <<c, u>> => (t = a /\ work'[t] = Notices!Begun("mute")) \/ (t \in DOMAIN work /\ work'[t] = work[t])
  BY <1>1, <1>5, <1>7, <1>8 DEF Notices!ReadReactions, Notices!With
<1>10. a \in DOMAIN work => work[a].at \notin NoteStages \cup ReactStages
  <2>1. ASSUME a \in DOMAIN work  PROVE ToldWork(a, work[a])  BY <1>2, <2>1 DEF ToldWorks
  <2> QED  BY <1>4, <1>8, <2>1 DEF ToldWork
<1>11. ASSUME NEW t \in DOMAIN work'  PROVE ToldWork(t, work[t])'
  <2>1. PICK x : x = work'[t]  OBVIOUS
  <2>2. CASE t = <<c, u>>
    <3>1. ToldWork(t, x)
      BY <1>4, <1>6, <1>9, <2>1, <2>2 DEF ToldWork, Loops, Reactions, NoteStages, BadgeStages
    <3>2. ToldWork(t, x)'  BY <1>1, <3>1, ToldLater
    <3> QED  BY <2>1, <3>2
  <2>3. CASE t = a /\ x = Notices!Begun("mute")
    <3>1. Starts(t, "mute") /\ t[1].kind \notin Loops
      BY <1>4, <1>8, <2>3 DEF Starts, NoteStages, BadgeStages, ReactStages, ShownStages, Loops, Reactions
    <3>2. ToldWork(t, x)  BY <2>3, <3>1, BegunTold
    <3>3. ToldWork(t, x)'  BY <1>1, <3>2, ToldLater
    <3> QED  BY <2>1, <3>3
  <2>4. CASE t \in DOMAIN work /\ x = work[t]
    <3>1. ToldWork(t, x)  BY <1>2, <2>4 DEF ToldWorks
    <3>2. ToldWork(t, x)'  BY <1>1, <3>1, ToldLater
    <3> QED  BY <2>1, <3>2
  <2> QED  BY <1>9, <1>11, <2>1, <2>2, <2>3, <2>4
<1>12. OneEach'
  <2>1. c.kind \notin Loops  BY <1>4 DEF Loops, Reactions
  <2>2. ASSUME NEW t \in DOMAIN work', NEW s \in DOMAIN work', t[1].kind \in Loops, s[1] = t[1]  PROVE s = t
    <3>1. t \in DOMAIN work /\ s \in DOMAIN work  BY <1>8, <1>9, <2>1, <2>2
    <3> QED  BY <1>2, <2>2, <3>1 DEF OneEach
  <2> QED  BY <2>2 DEF OneEach
<1>13. \A t \in DOMAIN work : work[t].at \in BadgeStages \cup ShownStages =>
           t \in DOMAIN work' /\ work'[t].at \in BadgeStages \cup ShownStages
           /\ (work'[t].at \in BadgeStages <=> work[t].at \in BadgeStages)
  <2>1. ASSUME NEW t \in DOMAIN work, work[t].at \in BadgeStages \cup ShownStages
        PROVE  t \in DOMAIN work' /\ work'[t].at \in BadgeStages \cup ShownStages
               /\ (work'[t].at \in BadgeStages <=> work[t].at \in BadgeStages)
    <3>1. t # a  BY <1>10, <2>1, PushStages
    <3>2. t \in DOMAIN work'  BY <1>9, <2>1
    <3>3. CASE t = <<c, u>>  BY <1>1, <1>6, <1>9, <3>2, <3>3 DEF BadgeStages, ShownStages
    <3>4. CASE t # <<c, u>>
      <4>1. work'[t] = work[t]  BY <1>9, <3>1, <3>2, <3>4
      <4> QED  BY <2>1, <3>2, <4>1
    <3> QED  BY <3>3, <3>4
  <2> QED  BY <2>1
<1>14. ToldWorks'  BY <1>11 DEF ToldWorks
<1> QED  BY <1>1, <1>12, <1>13, <1>14, ToldSteps

\* No work goes on.
LEMMA StillTold ==
  ASSUME NoticeInv, ToldInv, part = "notices", part' = part, UNCHANGED <<person, note, reaction, badge, shown, loose, mix>>,
         todo' \subseteq todo, DOMAIN work' = DOMAIN work,
         \A t \in DOMAIN work : /\ work'[t].at = work[t].at /\ work'[t].late = work[t].late
                                /\ work'[t].n = work[t].n /\ work'[t].was = work[t].was
  PROVE  ToldInv'
<1>1. ToldWorks' /\ OneEach'  BY NoneGoes
<1> QED  BY <1>1, ToldSteps

\* A job is one of those that are queued.
LEMMA JobKind ==
  ASSUME NoticeInv, part = "notices", NEW k \in DOMAIN queue, queue[k].at \in {"fetch", "batch"}
  PROVE  queue[k].job.kind \in Notices!PushJobs
<1>1. JobsKept /\ NULL \notin {"fetch", "batch", "chats"}  BY NoticeFacts
<1>2. QueueKept(k)  BY <1>1 DEF JobsKept
<1>3. queue[k].job # NULL
  <2>1. SUFFICES ASSUME queue[k].job = NULL  PROVE FALSE  OBVIOUS
  <2>2. queue[k] = Notices!Idle  BY <1>2, <2>1 DEF QueueKept
  <2> QED  BY <1>1, <2>2 DEF Notices!Idle
<1> QED  BY <1>2, <1>3 DEF QueueKept, JobCalls

\* Jobs are queued, worked off and end.
LEMMA DrainTold ==
  ASSUME NoticeInv, ToldInv, part = "notices", part' = part, NEW k \in DOMAIN queue, Notices!Draining(k)
  PROVE  ToldInv'
<1>1. UNCHANGED <<person, note, reaction, badge, shown, loose, mix, todo>>
  BY DEF Notices!Draining, Notices!Fetch, Notices!JobFails, Notices!Batches, Notices!OfferChats, Notices!rows, Notices!told
<1>2. CASE UNCHANGED work  BY <1>1, <1>2, StillTold
<1>3. CASE ~UNCHANGED work
  <2>1. PICK c, to, at : Notices!AtOnce(c, to, at) /\ c = queue[k].job /\ at \in {"offer", "prefs"} /\ queue[k].at \in {"fetch", "batch"}
    BY <1>3 DEF Notices!Draining, Notices!Fetch, Notices!JobFails, Notices!Batches, Notices!OfferChats
  <2>2. c.kind \in Notices!PushJobs  BY <2>1, JobKind
  <2>3. c.kind \notin Loops \cup Reactions  BY <2>2 DEF Notices!PushJobs, Loops, Reactions
  <2>4. \A v \in to : Starts(<<c, v>>, at)  BY <2>1, <2>3 DEF Starts, ReactStages, ShownStages
  <2>5. work' = [t \in DOMAIN work \cup {<<c, v>> : v \in to} |-> IF t \in DOMAIN work THEN work[t] ELSE Notices!Begun(at)]
    BY <2>1 DEF Notices!AtOnce
  <2> QED  BY <1>1, <2>3, <2>4, <2>5, AtOnceTold, Zenon
<1> QED  BY <1>2, <1>3

\* A job comes to its queue, and tokens and participants change.
LEMMA AsideTold ==
  ASSUME NoticeInv, ToldInv, part = "notices", part' = part, NEW c,
         \/ Notices!Enqueue(c) \/ Notices!RegisterToken(c) \/ Notices!UnregisterToken(c) \/ Notices!ChangeMember(c)
  PROVE  ToldInv'
<1>1. UNCHANGED <<person, note, reaction, badge, shown, loose, mix>> /\ todo' \subseteq todo
  BY DEF Notices!Enqueue, Notices!RegisterToken, Notices!UnregisterToken, Notices!ChangeMember, Notices!Become, Notices!Take,
         Notices!rows, Notices!told
<1>2. CASE UNCHANGED work  BY <1>1, <1>2, StillTold
<1>3. CASE ~UNCHANGED work
  <2>1. PICK p, m : work' = Notices!Worn(p, m)
    BY <1>3 DEF Notices!Enqueue, Notices!RegisterToken, Notices!UnregisterToken, Notices!ChangeMember, Notices!Become
  <2>2. \A t \in DOMAIN work : DOMAIN work[t] = WorkFields  BY ToldFacts DEF WorksKept, WorkKept
  <2>3. DOMAIN work' = DOMAIN work /\ \A t \in DOMAIN work : /\ work'[t].at = work[t].at /\ work'[t].late = work[t].late
                                                             /\ work'[t].n = work[t].n /\ work'[t].was = work[t].was
    BY <2>1, <2>2 DEF Notices!Worn, WorkFields
  <2> QED  BY <1>1, <2>3, StillTold
<1> QED  BY <1>2, <1>3

-----------------------------------------------------------------------------
(* Badges and reactions: notices come and are read.                        *)

\* A sequence some of whose entries change is one still.
LEMMA SeqChanges ==
  ASSUME NEW S, NEW s \in Seq(S), NEW r, DOMAIN r = DOMAIN s, \A i \in DOMAIN s : r[i] \in S, r = [i \in DOMAIN s |-> r[i]]
  PROVE  r \in Seq(S)
<1>1. DOMAIN s = 1 .. Len(s) /\ Len(s) \in Nat  OBVIOUS
<1>2. r \in [1 .. Len(s) -> S]  BY <1>1
<1> QED  BY <1>1, <1>2, SeqDef

\* The notices of one user change, and his badge is on its way.
LEMMA NoteTold ==
  ASSUME NoticeInv, ToldInv, part = "notices", part' = part, UNCHANGED <<person, reaction, badge, shown, loose, mix, todo>>,
         note' \in Seq(NoteRow), NEW c, NEW u, <<c, u>> \in DOMAIN work, DOMAIN work' = DOMAIN work,
         \A t \in DOMAIN work : t # <<c, u>> => work'[t] = work[t],
         ToldWork(<<c, u>>, work'[<<c, u>>]), work'[<<c, u>>].at \in BadgeStages, work[<<c, u>>].at \notin ShownStages,
         \A v \in DOMAIN person : v # u => Notices!Unread(v)' = Notices!Unread(v)
  PROVE  ToldInv'
<1>1. DOMAIN badge = mix.users /\ BadgesKept /\ ShownKept  BY ToldFacts
<1>2. ToldWorks' /\ OneEach'  BY OneGoes
<1>3. ASSUME NEW v \in DOMAIN person \ loose  PROVE badge'[v] = Notices!Unread(v)' \/ BadgeDue(v)'
  <2>1. CASE v = u
    <3>1. <<c, u>>[2] = v /\ <<c, u>> \in DOMAIN work'  BY <2>1
    <3> QED  BY <3>1 DEF BadgeDue
  <2>2. CASE v # u
    <3>1. Notices!Unread(v)' = Notices!Unread(v)  BY <1>3, <2>2
    <3>2. ASSUME BadgeDue(v)  PROVE BadgeDue(v)'
      <4>1. PICK t \in DOMAIN work : t[2] = v /\ work[t].at \in BadgeStages  BY <3>2 DEF BadgeDue
      <4>2. t # <<c, u>>  BY <2>2, <4>1
      <4> QED  BY <4>1, <4>2 DEF BadgeDue
    <3> QED  BY <1>1, <1>3, <3>1, <3>2 DEF BadgesKept
  <2> QED  BY <2>1, <2>2
<1>4. ASSUME ShownDue  PROVE ShownDue'
  <2>1. PICK t \in DOMAIN work : work[t].at \in ShownStages  BY <1>4 DEF ShownDue
  <2>2. t # <<c, u>>  BY <2>1
  <2> QED  BY <2>1, <2>2 DEF ShownDue
<1>5. BadgesKept' /\ ShownKept'  BY <1>1, <1>3, <1>4 DEF BadgesKept, ShownKept
<1>6. NoteRow' = NoteRow  BY DEF NoteRow, Notices!Kind
<1> QED  BY <1>1, <1>2, <1>5, <1>6 DEF ToldInv

\* A notice comes, or its user is gone.
LEMMA InsertTold ==
  ASSUME NoticeInv, ToldInv, part = "notices", part' = part, NEW c \in mix.calls, NEW u \in mix.users, Notices!Insert(c, u)
  PROVE  ToldInv'
<1>1. /\ <<c, u>> \in DOMAIN work /\ work[<<c, u>>].at = "insert"
      /\ UNCHANGED <<person, reaction, badge, shown, loose, mix, todo>>
  BY DEF Notices!Insert, Notices!At, Notices!told
<1>2. DOMAIN work[<<c, u>>] = WorkFields  BY <1>1, ToldFacts DEF WorksKept, WorkKept
<1>3. note \in Seq(NoteRow) /\ ToldWork(<<c, u>>, work[<<c, u>>])  BY <1>1, ToldFacts DEF ToldWorks
<1>4. work[<<c, u>>].at \notin BadgeStages \cup ShownStages  BY <1>1, PushStages
<1>5. CASE u \in DOMAIN person
  <2>1. PICK row : row = [user |-> u, kind |-> Notices!Kind(c), read |-> FALSE, old |-> FALSE]  BY Zenon
  <2>2. row \in NoteRow /\ row.user = u  BY <2>1 DEF NoteRow
  <2>3. note' = Append(note, row) /\ work' = [work EXCEPT ![<<c, u>>].at = "countRole"]
    BY <1>5, <2>1 DEF Notices!Insert, Notices!Pass
  <2>4. note' \in Seq(NoteRow)  BY <1>3, <2>2, <2>3
  <2>5. PICK v, w : v = work[<<c, u>>] /\ w = work'[<<c, u>>]  OBVIOUS
  <2>6. /\ DOMAIN work' = DOMAIN work /\ \A t \in DOMAIN work : t # <<c, u>> => work'[t] = work[t]
        /\ w.at = "countRole" /\ v.at = "insert"
    BY <1>1, <1>2, <2>3, <2>5, Zenon DEF WorkFields
  <2>7. ToldWork(<<c, u>>, v)  BY <1>3, <2>5
  <2>8. ToldWork(<<c, u>>, w) /\ w.at \in BadgeStages
    BY <2>6, <2>7 DEF ToldWork, NoteStages, BadgeStages, ReactStages, ShownStages
  <2>9. ASSUME NEW x \in DOMAIN person, x # u  PROVE Notices!Unread(x)' = Notices!Unread(x)
    <3>1. Notices!IsAdmin(x)' = Notices!IsAdmin(x)  BY <1>1 DEF Notices!IsAdmin
    <3>2. DOMAIN note = 1 .. Len(note) /\ Len(note) \in Nat /\ DOMAIN note' = 1 .. (Len(note) + 1)
          /\ (\A i \in DOMAIN note : note'[i] = note[i]) /\ note'[Len(note) + 1].user = u
      BY <1>3, <2>2, <2>3
    <3>3. \A i : i \in DOMAIN note' /\ note'[i].user = x <=> i \in DOMAIN note /\ note[i].user = x
      <4>1. ASSUME NEW i \in DOMAIN note'  PROVE i \in DOMAIN note \/ i = Len(note) + 1  BY <3>2, <4>1
      <4>2. ASSUME NEW i \in DOMAIN note  PROVE i \in DOMAIN note'  BY <3>2, <4>2
      <4> QED  BY <2>9, <3>2, <4>1, <4>2
    <3> QED  BY <3>1, <3>2, <3>3, UnreadSame
  <2> QED  BY <1>1, <1>4, <2>4, <2>5, <2>6, <2>8, <2>9, NoteTold
<1>6. CASE u \notin DOMAIN person
  <2>1. UNCHANGED note /\ work' = Notices!Without(work, <<c, u>>)  BY <1>6 DEF Notices!Insert, Notices!Fail
  <2>2. DOMAIN work' = DOMAIN work \ {<<c, u>>} /\ \A t \in DOMAIN work' : work'[t] = work[t]
    BY <2>1 DEF Notices!Without, Notices!Restrict
  <2>3. ToldWorks' /\ OneEach'  BY <1>1, <2>2, NoneGoes
  <2>4. \A t \in DOMAIN work : work[t].at \in BadgeStages \cup ShownStages =>
           t \in DOMAIN work' /\ work'[t].at \in BadgeStages \cup ShownStages
           /\ (work'[t].at \in BadgeStages <=> work[t].at \in BadgeStages)
    BY <1>4, <2>2
  <2> QED  BY <1>1, <2>1, <2>3, <2>4, ToldSteps
<1> QED  BY <1>5, <1>6

\* Notices are marked as read.
LEMMA MarkTold ==
  ASSUME NoticeInv, ToldInv, part = "notices", part' = part, NEW c, NEW u, Notices!MarkRead(c, u) \/ Notices!MarkAll(c, u)
  PROVE  ToldInv'
<1>1. /\ <<c, u>> \in DOMAIN work /\ work[<<c, u>>].at = "update"
      /\ UNCHANGED <<person, reaction, badge, shown, loose, mix, todo>>
  BY DEF Notices!MarkRead, Notices!MarkAll, Notices!At, Notices!told
<1>2. DOMAIN work[<<c, u>>] = WorkFields  BY <1>1, ToldFacts DEF WorksKept, WorkKept
<1>3. note \in Seq(NoteRow) /\ ToldWork(<<c, u>>, work[<<c, u>>])  BY <1>1, ToldFacts DEF ToldWorks
<1>4. PICK S, next : /\ S \subseteq {i \in DOMAIN note : note[i].user = u} /\ next \in {"countRole", "zero"}
                     /\ note' = [i \in DOMAIN note |-> IF i \in S THEN [note[i] EXCEPT !.read = TRUE] ELSE note[i]]
                     /\ work' = [work EXCEPT ![<<c, u>>].at = next]
  <2>1. CASE Notices!MarkRead(c, u)
    <3>1. PICK S : S = {i \in DOMAIN note : i = c.n /\ note[i].user = u}  BY Zenon
    <3>2. note' = [i \in DOMAIN note |-> IF i \in S THEN [note[i] EXCEPT !.read = TRUE] ELSE note[i]]
      BY <2>1, <3>1 DEF Notices!MarkRead
    <3>3. work' = [work EXCEPT ![<<c, u>>].at = "countRole"]  BY <2>1 DEF Notices!MarkRead, Notices!Pass
    <3> QED  BY <3>1, <3>2, <3>3, Zenon
  <2>2. CASE Notices!MarkAll(c, u)
    <3>1. PICK S : S = {i \in DOMAIN note : note[i].user = u}  BY Zenon
    <3>2. note' = [i \in DOMAIN note |-> IF i \in S THEN [note[i] EXCEPT !.read = TRUE] ELSE note[i]]
      BY <2>2, <3>1 DEF Notices!MarkAll
    <3>3. work' = [work EXCEPT ![<<c, u>>].at = "zero"]  BY <2>2 DEF Notices!MarkAll, Notices!Pass
    <3> QED  BY <3>1, <3>2, <3>3, Zenon
  <2> QED  BY <2>1, <2>2, Zenon
<1>5. \A i \in DOMAIN note : note[i] \in NoteRow  BY <1>3
<1>6. \A i \in DOMAIN note : [note[i] EXCEPT !.read = TRUE] \in NoteRow /\ [note[i] EXCEPT !.read = TRUE].user = note[i].user
  BY <1>5, Zenon DEF NoteRow
<1>7. DOMAIN note' = DOMAIN note /\ (\A i \in DOMAIN note : note'[i] \in NoteRow /\ note'[i].user = note[i].user)
      /\ note' = [i \in DOMAIN note |-> note'[i]] /\ \A i \in DOMAIN note : note[i].user # u => note'[i] = note[i]
  BY <1>4, <1>5, <1>6
<1>8. note' \in Seq(NoteRow)  BY <1>3, <1>7, SeqChanges
<1>9. PICK v, w : v = work[<<c, u>>] /\ w = work'[<<c, u>>]  OBVIOUS
<1>10. /\ DOMAIN work' = DOMAIN work /\ \A t \in DOMAIN work : t # <<c, u>> => work'[t] = work[t]
       /\ w.at = next /\ v.at = "update" /\ w.was = v.was
  BY <1>1, <1>2, <1>4, <1>9 DEF WorkFields
<1>11. ToldWork(<<c, u>>, v)  BY <1>3, <1>9
<1>12. ToldWork(<<c, u>>, w) /\ w.at \in BadgeStages /\ v.at \notin ShownStages
  BY <1>4, <1>10, <1>11 DEF ToldWork, NoteStages, BadgeStages, ReactStages, ShownStages
<1>13. ASSUME NEW x \in DOMAIN person, x # u  PROVE Notices!Unread(x)' = Notices!Unread(x)
  <2>1. Notices!IsAdmin(x)' = Notices!IsAdmin(x)  BY <1>1 DEF Notices!IsAdmin
  <2>2. \A i : i \in DOMAIN note' /\ note'[i].user = x <=> i \in DOMAIN note /\ note[i].user = x  BY <1>7
  <2>3. \A i \in DOMAIN note : note[i].user = x => note'[i] = note[i]  BY <1>7, <1>13
  <2> QED  BY <2>1, <2>2, <2>3, UnreadSame
<1> QED  BY <1>1, <1>8, <1>9, <1>10, <1>12, <1>13, NoteTold

-----------------------------------------------------------------------------
(* Badges and reactions: what is told.                                     *)

\* A piece of work passes or ends: the rest of the work is as it was.
LEMMA MovesOn ==
  ASSUME NoticeInv, ToldInv, part = "notices", UNCHANGED <<mix, todo>>, NEW c, NEW u, NEW next, <<c, u>> \in DOMAIN work,
         Notices!End(c, u) \/ Notices!Pass(c, u, next),
         next \notin NoteStages, next \in ReactStages => work[<<c, u>>].at \in ReactStages
  PROVE  /\ ToldWorks' /\ OneEach'
         /\ \A t \in DOMAIN work : t # <<c, u>> => t \in DOMAIN work' /\ work'[t] = work[t]
         /\ Notices!Pass(c, u, next) => <<c, u>> \in DOMAIN work' /\ work'[<<c, u>>].at = next
<1>1. DOMAIN work[<<c, u>>] = WorkFields  BY ToldFacts DEF WorksKept, WorkKept
<1>2. CASE Notices!Pass(c, u, next)
  <2>1. PICK v, w : v = work[<<c, u>>] /\ w = work'[<<c, u>>]  OBVIOUS
  <2>2. work' = [work EXCEPT ![<<c, u>>].at = next]  BY <1>2 DEF Notices!Pass
  <2>3. DOMAIN work' = DOMAIN work /\ (\A t \in DOMAIN work : t # <<c, u>> => work'[t] = work[t]) /\ w.at = next
    BY <1>1, <2>1, <2>2 DEF WorkFields
  <2>4. ToldWork(<<c, u>>, v)  BY <2>1, ToldFacts DEF ToldWorks
  <2>5. ToldWork(<<c, u>>, w)  BY <2>1, <2>3, <2>4 DEF ToldWork, NoteStages, BadgeStages
  <2>6. ToldWorks' /\ OneEach'  BY <2>1, <2>3, <2>5, OneGoes
  <2> QED  BY <2>1, <2>3, <2>6
<1>3. CASE Notices!End(c, u) /\ ~Notices!Pass(c, u, next)  BY <1>3, EndTold
<1> QED  BY <1>2, <1>3

\* A count is told: it is that of the notices, or the badge is loose.
LEMMA BadgeTold ==
  ASSUME NoticeInv, ToldInv, part = "notices", part' = part, UNCHANGED <<person, note, reaction, shown, mix, todo>>,
         NEW c, NEW u \in mix.users, NEW n, <<c, u>> \in DOMAIN work, work[<<c, u>>].at \in BadgeStages,
         badge' = [badge EXCEPT ![u] = n], u \notin loose' => n = Notices!Unread(u), loose' \ {u} = loose \ {u},
         Notices!End(c, u) \/ Notices!Pass(c, u, "prefs")
  PROVE  ToldInv'
<1>1. note \in Seq(NoteRow) /\ DOMAIN badge = mix.users /\ BadgesKept /\ ShownKept /\ NULL # u  BY ToldFacts
<1>2. /\ ToldWorks' /\ OneEach'
      /\ \A t \in DOMAIN work : t # <<c, u>> => t \in DOMAIN work' /\ work'[t] = work[t]
  BY MovesOn, PushStages
<1>3. ASSUME NEW v \in DOMAIN person, v \notin loose'  PROVE badge'[v] = Notices!Unread(v)' \/ BadgeDue(v)'
  <2>1. Notices!Unread(v)' = Notices!Unread(v)  BY UnreadStays
  <2>2. CASE v = u  BY <1>1, <1>3, <2>1, <2>2
  <2>3. CASE v # u
    <3>1. badge'[v] = badge[v] /\ v \notin loose  BY <1>3, <2>3
    <3>2. ASSUME BadgeDue(v)  PROVE BadgeDue(v)'
      <4>1. PICK t \in DOMAIN work : t[2] = v /\ work[t].at \in BadgeStages  BY <3>2 DEF BadgeDue
      <4>2. t # <<c, u>>  BY <2>3, <4>1
      <4> QED  BY <1>2, <4>1, <4>2 DEF BadgeDue
    <3> QED  BY <1>1, <1>3, <2>1, <3>1, <3>2 DEF BadgesKept
  <2> QED  BY <2>2, <2>3
<1>4. ASSUME ShownDue  PROVE ShownDue'
  <2>1. PICK t \in DOMAIN work : work[t].at \in ShownStages  BY <1>4 DEF ShownDue
  <2>2. t # <<c, u>>  BY <2>1, PushStages
  <2> QED  BY <1>2, <2>1, <2>2 DEF ShownDue
<1>5. NULL \in loose' <=> NULL \in loose  BY <1>1
<1>6. BadgesKept'  BY <1>3 DEF BadgesKept
<1>7. ShownKept'  BY <1>1, <1>4, <1>5 DEF ShownKept
<1>8. NoteRow' = NoteRow  BY DEF NoteRow, Notices!Kind
<1>9. DOMAIN badge' = mix'.users  BY <1>1
<1> QED  BY <1>1, <1>2, <1>6, <1>7, <1>8, <1>9 DEF ToldInv

\* sendUnreadCountToUser(), with the count or with zero.
LEMMA TellsTold ==
  ASSUME NoticeInv, ToldInv, part = "notices", part' = part, NEW c, NEW u \in mix.users, Notices!Tell(c, u) \/ Notices!TellZero(c, u)
  PROVE  ToldInv'
<1>1. UNCHANGED <<person, note, reaction, shown, mix, todo>> /\ <<c, u>> \in DOMAIN work
  BY DEF Notices!Tell, Notices!TellZero, Notices!TellCount, Notices!At, Notices!rows
<1>2. PICK w : w = work[<<c, u>>]  OBVIOUS
<1>3. ToldWork(<<c, u>>, w)  BY <1>1, <1>2, ToldFacts DEF ToldWorks
<1>4. PICK n : /\ w.at \in {"tell", "zero"} /\ (w.at = "tell" => n = w.n) /\ (w.at = "zero" => n = 0)
               /\ badge' = [badge EXCEPT ![u] = n]
               /\ loose' = IF w.was = Notices!Unread(u) /\ ~w.late THEN loose \ {u} ELSE loose \cup {u}
               /\ Notices!End(c, u) \/ Notices!Pass(c, u, "prefs")
  BY <1>2 DEF Notices!Tell, Notices!TellZero, Notices!TellCount, Notices!At
<1>5. u \notin loose' => n = Notices!Unread(u)  BY <1>3, <1>4 DEF ToldWork
<1>6. loose' \ {u} = loose \ {u} /\ w.at \in BadgeStages  BY <1>4 DEF BadgeStages
<1> QED  BY <1>1, <1>2, <1>4, <1>5, <1>6, BadgeTold, Zenon

\* Reactions, and what is shown of them, change by a piece of work.
LEMMA ReactionTold ==
  ASSUME NoticeInv, ToldInv, part = "notices", part' = part, UNCHANGED <<person, note, badge, mix, todo>>,
         NEW c, NEW u, NEW next, <<c, u>> \in DOMAIN work, work[<<c, u>>].at \in ReactStages,
         Notices!End(c, u) \/ Notices!Pass(c, u, next), next \in ReactStages,
         loose' \ {NULL} = loose \ {NULL},
         \/ NULL \notin loose' => shown' = reaction'
         \/ Notices!Pass(c, u, next) /\ next \in ShownStages
         \/ UNCHANGED <<reaction, shown, loose>> /\ work[<<c, u>>].at \notin ShownStages
  PROVE  ToldInv'
<1>1. note \in Seq(NoteRow) /\ DOMAIN badge = mix.users /\ BadgesKept /\ ShownKept /\ NULL \notin mix.users  BY ToldFacts
<1>2. next \notin NoteStages /\ work[<<c, u>>].at \notin BadgeStages  BY PushStages
<1>3. /\ ToldWorks' /\ OneEach'
      /\ \A t \in DOMAIN work : t # <<c, u>> => t \in DOMAIN work' /\ work'[t] = work[t]
      /\ Notices!Pass(c, u, next) => <<c, u>> \in DOMAIN work' /\ work'[<<c, u>>].at = next
  BY <1>2, MovesOn
<1>4. ASSUME NEW v \in DOMAIN person, v \notin loose'  PROVE badge'[v] = Notices!Unread(v)' \/ BadgeDue(v)'
  <2>1. Notices!Unread(v)' = Notices!Unread(v)  BY UnreadStays
  <2>2. v \notin loose  BY <1>1, <1>4 DEF NoticeInv
  <2>3. ASSUME BadgeDue(v)  PROVE BadgeDue(v)'
    <3>1. PICK t \in DOMAIN work : t[2] = v /\ work[t].at \in BadgeStages  BY <2>3 DEF BadgeDue
    <3>2. t # <<c, u>>  BY <1>2, <3>1
    <3> QED  BY <1>3, <3>1, <3>2 DEF BadgeDue
  <2> QED  BY <1>1, <1>4, <2>1, <2>2, <2>3 DEF BadgesKept
<1>5. NULL \notin loose' => shown' = reaction' \/ ShownDue'
  <2>1. CASE Notices!Pass(c, u, next) /\ next \in ShownStages  BY <1>3, <2>1 DEF ShownDue
  <2>2. CASE UNCHANGED <<reaction, shown, loose>> /\ work[<<c, u>>].at \notin ShownStages
    <3>1. ASSUME ShownDue  PROVE ShownDue'
      <4>1. PICK t \in DOMAIN work : work[t].at \in ShownStages  BY <3>1 DEF ShownDue
      <4>2. t # <<c, u>>  BY <2>2, <4>1
      <4> QED  BY <1>3, <4>1, <4>2 DEF ShownDue
    <3> QED  BY <1>1, <2>2, <3>1 DEF ShownKept
  <2> QED  BY <2>1, <2>2
<1>6. BadgesKept' /\ ShownKept'  BY <1>4, <1>5 DEF BadgesKept, ShownKept
<1>7. NoteRow' = NoteRow  BY DEF NoteRow, Notices!Kind
<1> QED  BY <1>1, <1>3, <1>6, <1>7 DEF ToldInv

\* The stages of a reaction.
LEMMA ReactsTold ==
  ASSUME NoticeInv, ToldInv, part = "notices", part' = part, NEW c, NEW u,
         \/ Notices!SetReaction(c, u) \/ Notices!RemoveReaction(c, u) \/ Notices!AccessAgain(c, u) \/ Notices!Broadcast(c, u)
  PROVE  ToldInv'
<1>1. UNCHANGED <<person, note, badge, mix, todo>> /\ <<c, u>> \in DOMAIN work /\ work[<<c, u>>].at \in {"write", "again", "broadcast"}
  BY DEF Notices!SetReaction, Notices!RemoveReaction, Notices!AccessAgain, Notices!Broadcast, Notices!At, Notices!rows, Notices!told
<1>2. work[<<c, u>>].at \in ReactStages /\ "write" \notin ShownStages /\ {"again", "rows"} \subseteq ShownStages \cap ReactStages
  BY <1>1 DEF ReactStages, ShownStages
<1>3. CASE Notices!SetReaction(c, u) \/ Notices!RemoveReaction(c, u)
  <2>1. loose' = loose /\ shown' = shown /\ work[<<c, u>>].at = "write"
        /\ (Notices!Pass(c, u, "again") \/ (Notices!End(c, u) /\ UNCHANGED reaction))
    BY <1>3 DEF Notices!SetReaction, Notices!RemoveReaction, Notices!At, Notices!told
  <2> QED  BY <1>1, <1>2, <2>1, ReactionTold
<1>4. CASE Notices!AccessAgain(c, u)
  <2>1. reaction' = reaction /\ shown' = shown
        /\ \/ Notices!Pass(c, u, "rows") /\ loose' = loose
           \/ Notices!End(c, u) /\ loose' = IF reaction = shown THEN loose \ {NULL} ELSE loose \cup {NULL}
    BY <1>4 DEF Notices!AccessAgain, Notices!rows, Notices!ReactionsLoose
  <2>2. loose' \ {NULL} = loose \ {NULL} /\ (Notices!Pass(c, u, "rows") \/ (NULL \notin loose' => shown' = reaction'))
    BY <2>1
  <2> QED  BY <1>1, <1>2, <2>1, <2>2, ReactionTold
<1>5. CASE Notices!Broadcast(c, u)
  <2>1. /\ reaction' = reaction /\ Notices!End(c, u)
        /\ loose' = IF shown' = reaction THEN loose \ {NULL} ELSE loose \cup {NULL}
    BY <1>5 DEF Notices!Broadcast, Notices!rows
  <2>2. loose' \ {NULL} = loose \ {NULL} /\ (NULL \notin loose' => shown' = reaction')  BY <2>1
  <2> QED  BY <1>1, <1>2, <2>1, <2>2, ReactionTold
<1> QED  BY <1>3, <1>4, <1>5

-----------------------------------------------------------------------------
(* Badges and reactions: the accounts change, notices go, the process ends. *)

\* Accounts, notices and reactions change under the work: whom that touches is loose.
LEMMA UnderTold ==
  ASSUME NoticeInv, ToldInv, part = "notices", part' = part, UNCHANGED <<badge, shown, mix>>, todo' \subseteq todo,
         note' \in Seq(NoteRow), DOMAIN work' = DOMAIN work,
         \A t \in DOMAIN work : /\ work'[t].at = work[t].at /\ work'[t].late = work[t].late
                                /\ work'[t].n = work[t].n /\ work'[t].was = work[t].was,
         \A v \in DOMAIN person' \ loose' : v \in DOMAIN person \ loose /\ Notices!Unread(v)' = Notices!Unread(v),
         NULL \notin loose' => shown = reaction' \/ (NULL \notin loose /\ reaction' = reaction)
  PROVE  ToldInv'
<1>1. DOMAIN badge = mix.users /\ BadgesKept /\ ShownKept  BY ToldFacts
<1>2. ToldWorks' /\ OneEach'  BY NoneGoes
<1>3. ASSUME NEW v \in DOMAIN person' \ loose'  PROVE badge'[v] = Notices!Unread(v)' \/ BadgeDue(v)'
  <2>1. v \in DOMAIN person \ loose /\ Notices!Unread(v)' = Notices!Unread(v)  BY <1>3
  <2>2. ASSUME BadgeDue(v)  PROVE BadgeDue(v)'  BY <2>2 DEF BadgeDue
  <2> QED  BY <1>1, <2>1, <2>2 DEF BadgesKept
<1>4. ASSUME ShownDue  PROVE ShownDue'  BY <1>4 DEF ShownDue
<1>5. BadgesKept' /\ ShownKept'  BY <1>1, <1>3, <1>4 DEF BadgesKept, ShownKept
<1>6. NoteRow' = NoteRow  BY DEF NoteRow, Notices!Kind
<1> QED  BY <1>1, <1>2, <1>5, <1>6 DEF ToldInv

\* deleteOldNotifications(): whose count it changes is loose.
LEMMA CleanupTold ==
  ASSUME NoticeInv, ToldInv, part = "notices", part' = part, NEW c, Notices!Cleanup(c)
  PROVE  ToldInv'
<1>1. /\ UNCHANGED <<person, reaction, badge, shown, work, mix>> /\ todo' \subseteq todo
      /\ loose' = loose \cup Notices!Overtaken(note', person)
  BY DEF Notices!Cleanup, Notices!Take
<1>2. note \in Seq(NoteRow) /\ NULL \notin mix.users /\ DOMAIN person \subseteq mix.users  BY ToldFacts DEF NoticeInv
<1>3. note' = [i \in DOMAIN note |-> IF note[i].old THEN [note[i] EXCEPT !.user = NULL] ELSE note[i]]
  BY DEF Notices!Cleanup
<1>4. \A i \in DOMAIN note : note[i] \in NoteRow  BY <1>2
<1>5. \A i \in DOMAIN note : [note[i] EXCEPT !.user = NULL] \in NoteRow  BY <1>4 DEF NoteRow
<1>6. DOMAIN note' = DOMAIN note /\ (\A i \in DOMAIN note : note'[i] \in NoteRow) /\ note' = [i \in DOMAIN note |-> note'[i]]
  BY <1>3, <1>4, <1>5
<1>7. note' \in Seq(NoteRow)  BY <1>2, <1>6, SeqChanges
<1>8. ASSUME NEW v \in DOMAIN person' \ loose'  PROVE v \in DOMAIN person \ loose /\ Notices!Unread(v)' = Notices!Unread(v)
  <2>1. v \in DOMAIN person \ loose /\ v \notin Notices!Overtaken(note', person)  BY <1>1, <1>8
  <2>2. PICK n, m, adm : n = note /\ m = note' /\ adm = (person[v].role = "admin")  OBVIOUS
  <2>3. Notices!UnreadFor(m, v, adm) = Notices!Unread(v)  BY <2>1, <2>2 DEF Notices!Overtaken
  <2>4. Notices!Unread(v)' = Notices!UnreadFor(m, v, adm)
    BY <1>1, <2>1, <2>2, Zenon DEF Notices!Unread, Notices!UnreadFor, Notices!IsAdmin
  <2> QED  BY <2>1, <2>3, <2>4
<1>9. NULL \notin loose' => NULL \notin loose /\ reaction' = reaction  BY <1>1
<1> QED  BY <1>1, <1>7, <1>8, <1>9, UnderTold

\* Under what becomes of the accounts the work goes on from where it was.
LEMMA BecomeWorks ==
  ASSUME NoticeInv, part = "notices", NEW p, NEW s, NEW m, Notices!Become(p, s, m)
  PROVE  /\ DOMAIN work' = DOMAIN work
         /\ \A t \in DOMAIN work : /\ work'[t].at = work[t].at /\ work'[t].late = work[t].late
                                   /\ work'[t].n = work[t].n /\ work'[t].was = work[t].was
<1>1. work' = Notices!Worn(p, m)  BY DEF Notices!Become
<1>2. ASSUME NEW t \in DOMAIN work
      PROVE  /\ work'[t].at = work[t].at /\ work'[t].late = work[t].late
             /\ work'[t].n = work[t].n /\ work'[t].was = work[t].was
  <2>1. DOMAIN work[t] = WorkFields  BY NoticeFacts DEF WorksKept, WorkKept
  <2>2. PICK o : work'[t] = [work[t] EXCEPT !.off = o]  BY <1>1, Zenon DEF Notices!Worn
  <2> QED  BY <2>1, <2>2 DEF WorkFields
<1>3. DOMAIN work' = DOMAIN work  BY <1>1 DEF Notices!Worn
<1> QED  BY <1>2, <1>3

\* An account changes: whose count that changes is loose.
LEMMA PersonTold ==
  ASSUME NoticeInv, ToldInv, part = "notices", part' = part, NEW c, Notices!ChangePerson(c)
  PROVE  ToldInv'
<1>1. /\ UNCHANGED <<note, reaction, badge, shown, mix>> /\ todo' \subseteq todo
      /\ loose' = loose \cup Notices!Overtaken(note, person')
      /\ Notices!Become([person EXCEPT ![c.by] = c.row], token, member)
  BY DEF Notices!ChangePerson, Notices!Take
<1>2. person' = [person EXCEPT ![c.by] = c.row]  BY <1>1 DEF Notices!Become
<1>3. DOMAIN person' = DOMAIN person /\ note' \in Seq(NoteRow)  BY <1>1, <1>2, ToldFacts
<1>4. /\ DOMAIN work' = DOMAIN work
      /\ \A t \in DOMAIN work : /\ work'[t].at = work[t].at /\ work'[t].late = work[t].late
                                /\ work'[t].n = work[t].n /\ work'[t].was = work[t].was
  BY <1>1, BecomeWorks
<1>5. ASSUME NEW v \in DOMAIN person' \ loose'  PROVE v \in DOMAIN person \ loose /\ Notices!Unread(v)' = Notices!Unread(v)
  <2>1. v \in DOMAIN person' /\ v \in DOMAIN person \ loose /\ v \notin Notices!Overtaken(note, person')  BY <1>1, <1>3, <1>5
  <2>2. PICK n, adm : n = note /\ adm = (person'[v].role = "admin")  OBVIOUS
  <2>3. Notices!UnreadFor(n, v, adm) = Notices!Unread(v)  BY <2>1, <2>2 DEF Notices!Overtaken
  <2>4. Notices!Unread(v)' = Notices!UnreadFor(n, v, adm)
    BY <1>1, <2>1, <2>2, Zenon DEF Notices!Unread, Notices!UnreadFor, Notices!IsAdmin
  <2> QED  BY <2>1, <2>3, <2>4
<1>6. NULL \notin loose' => NULL \notin loose /\ reaction' = reaction  BY <1>1
<1> QED  BY <1>1, <1>3, <1>4, <1>5, <1>6, UnderTold

\* An account goes, with its notices and its reaction.
LEMMA RemoveTold ==
  ASSUME NoticeInv, ToldInv, part = "notices", part' = part, NEW c, Notices!RemovePerson(c)
  PROVE  ToldInv'
<1>1. /\ UNCHANGED <<badge, shown, mix>> /\ todo' \subseteq todo /\ c.by \in DOMAIN person
      /\ loose' = (loose \ {c.by}) \cup (IF reaction' = shown THEN {} ELSE {NULL})
      /\ note' = [i \in DOMAIN note |-> IF note[i].user = c.by THEN [note[i] EXCEPT !.user = NULL] ELSE note[i]]
  BY DEF Notices!RemovePerson, Notices!Take
<1>2. PICK p, s, m : Notices!Become(p, s, m) /\ p = Notices!Without(person, c.by)  BY DEF Notices!RemovePerson
<1>3. person' = Notices!Without(person, c.by)  BY <1>2 DEF Notices!Become
<1>4. DOMAIN person' = DOMAIN person \ {c.by} /\ \A v \in DOMAIN person' : person'[v] = person[v]
  BY <1>3 DEF Notices!Without, Notices!Restrict
<1>5. note \in Seq(NoteRow) /\ NULL \notin mix.users /\ DOMAIN person \subseteq mix.users  BY ToldFacts DEF NoticeInv
<1>6. \A i \in DOMAIN note : note[i] \in NoteRow  BY <1>5
<1>7. \A i \in DOMAIN note : [note[i] EXCEPT !.user = NULL] \in NoteRow /\ [note[i] EXCEPT !.user = NULL].user = NULL
  BY <1>6 DEF NoteRow
<1>8. /\ DOMAIN note' = DOMAIN note /\ (\A i \in DOMAIN note : note'[i] \in NoteRow) /\ note' = [i \in DOMAIN note |-> note'[i]]
      /\ \A i \in DOMAIN note : IF note[i].user = c.by THEN note'[i].user = NULL ELSE note'[i] = note[i]
  BY <1>1, <1>6, <1>7, Zenon
<1>9. note' \in Seq(NoteRow)  BY <1>5, <1>8, SeqChanges
<1>10. /\ DOMAIN work' = DOMAIN work
       /\ \A t \in DOMAIN work : /\ work'[t].at = work[t].at /\ work'[t].late = work[t].late
                                 /\ work'[t].n = work[t].n /\ work'[t].was = work[t].was
  BY <1>2, BecomeWorks
<1>11. ASSUME NEW v \in DOMAIN person' \ loose'  PROVE v \in DOMAIN person \ loose /\ Notices!Unread(v)' = Notices!Unread(v)
  <2>1. v # c.by /\ v \in DOMAIN person \ loose /\ v # NULL  BY <1>1, <1>4, <1>5, <1>11
  <2>2. Notices!IsAdmin(v)' = Notices!IsAdmin(v)  BY <1>4, <1>11, <2>1 DEF Notices!IsAdmin
  <2>3. \A i : i \in DOMAIN note' /\ note'[i].user = v <=> i \in DOMAIN note /\ note[i].user = v  BY <1>8, <2>1
  <2>4. \A i \in DOMAIN note : note[i].user = v => note'[i] = note[i]  BY <1>8, <2>1
  <2> QED  BY <2>1, <2>2, <2>3, <2>4, UnreadSame
<1>12. NULL \notin loose' => shown = reaction'  BY <1>1
<1> QED  BY <1>1, <1>9, <1>10, <1>11, <1>12, UnderTold

\* The process ends: whoever was to be told is loose.
LEMMA RestartTold ==
  ASSUME NoticeInv, ToldInv, part = "notices", part' = part, NEW c, Notices!Restart(c)
  PROVE  ToldInv'
<1>1. /\ UNCHANGED <<person, note, reaction, badge, shown, mix>> /\ work' = <<>>
      /\ loose' = loose \cup {t[2] : t \in DOMAIN work} \cup (IF reaction = shown THEN {} ELSE {NULL})
  BY DEF Notices!Restart, Notices!Take, Notices!rows
<1>2. note \in Seq(NoteRow) /\ DOMAIN badge = mix.users /\ BadgesKept  BY ToldFacts
<1>3. DOMAIN work' = {}  BY <1>1
<1>4. ASSUME NEW v \in DOMAIN person \ loose'  PROVE badge'[v] = Notices!Unread(v)'
  <2>1. v \notin loose /\ \A t \in DOMAIN work : t[2] # v  BY <1>1, <1>4
  <2>2. ~BadgeDue(v)  BY <2>1 DEF BadgeDue
  <2>3. Notices!Unread(v)' = Notices!Unread(v)  BY <1>1, UnreadStays
  <2> QED  BY <1>1, <1>2, <1>4, <2>1, <2>2, <2>3 DEF BadgesKept
<1>5. BadgesKept' /\ ShownKept' /\ ToldWorks' /\ OneEach'  BY <1>1, <1>3, <1>4 DEF BadgesKept, ShownKept, ToldWorks, OneEach
<1>6. NoteRow' = NoteRow  BY <1>1 DEF NoteRow, Notices!Kind
<1> QED  BY <1>1, <1>2, <1>5, <1>6 DEF ToldInv

-----------------------------------------------------------------------------
(* Badges and reactions: the theorem.                                      *)

\* The invariant holds at first.
LEMMA ToldInit == Init => ToldInv
<1> SUFFICES ASSUME Init, part = "notices"  PROVE ToldInv  BY DEF ToldInv
<1>1. Notices!Init  BY DEF Init
<1>2. /\ mix \in NoticeMixes /\ note = mix.note /\ person = mix.person /\ work = <<>> /\ reaction = shown
      /\ badge = [u \in mix.users |-> Notices!Unread(u)]
  BY <1>1 DEF Notices!Init
<1>3. mix.note \in Seq(NoticeRecord(mix)) /\ DOMAIN person \subseteq mix.users  BY <1>2, NoticeAssumption
<1>4. note \in Seq(NoteRow)
  <2>1. ASSUME NEW r \in NoticeRecord(mix)  PROVE r \in NoteRow  BY <2>1 DEF NoticeRecord, NoteRow
  <2>2. PICK n, S, R : n = note /\ S = NoticeRecord(mix) /\ R = NoteRow  OBVIOUS
  <2>3. n \in Seq(S) /\ S \subseteq R  BY <1>2, <1>3, <2>1, <2>2
  <2>4. n \in Seq(R)  BY <2>3
  <2> QED  BY <2>2, <2>4
<1>5. DOMAIN work = {} /\ DOMAIN badge = mix.users  BY <1>2
<1>6. BadgesKept /\ ShownKept /\ ToldWorks /\ OneEach  BY <1>2, <1>3, <1>5 DEF BadgesKept, ShownKept, ToldWorks, OneEach
<1> QED  BY <1>4, <1>5, <1>6 DEF ToldInv

\* Every step keeps the invariant.
LEMMA ToldNext == NoticeInv /\ ToldInv /\ [Next]_vars => ToldInv'
<1> SUFFICES ASSUME NoticeInv, ToldInv, [Next]_vars, part' = "notices"  PROVE ToldInv'  BY DEF ToldInv
<1>1. CASE NoticeStep
  <2>1. part = "notices" /\ part' = part /\ Notices!Next  BY <1>1 DEF NoticeStep, InNotices
  <2>2. ASSUME NEW c \in mix.calls,
               \/ Notices!Notify(c) \/ Notices!Ask(c) \/ Notices!Cleanup(c) \/ Notices!PushOne(c) \/ Notices!PushTms(c)
               \/ Notices!PushMessage(c) \/ Notices!React(c) \/ Notices!Enqueue(c) \/ Notices!ChangePerson(c)
               \/ Notices!RemovePerson(c) \/ Notices!RegisterToken(c) \/ Notices!UnregisterToken(c)
               \/ Notices!ChangeMember(c) \/ Notices!Restart(c)
        PROVE  ToldInv'
    BY <2>1, <2>2, CallsTold, AsideTold, CleanupTold, PersonTold, RemoveTold, RestartTold
  <2>3. ASSUME NEW c \in mix.calls, NEW u \in mix.users, Notices!Telling(c, u)  PROVE ToldInv'
    BY <2>1, <2>3, LooksTold, InsertTold, CountsTold, TellsTold, MarkTold DEF Notices!Telling
  <2>4. ASSUME NEW c \in mix.calls, NEW u \in mix.users, Notices!Pushing(c, u)  PROVE ToldInv'
    BY <2>1, <2>4, LooksTold, PushesTold DEF Notices!Pushing
  <2>5. ASSUME NEW c \in mix.calls, NEW u \in mix.users, Notices!Reacting(c, u)  PROVE ToldInv'
    BY <2>1, <2>5, ReactsTold, RowsTold, LooksTold DEF Notices!Reacting
  <2>6. ASSUME NEW k \in DOMAIN queue, Notices!Draining(k)  PROVE ToldInv'
    BY <2>1, <2>6, DrainTold
  <2> QED  BY <2>1, <2>2, <2>3, <2>4, <2>5, <2>6 DEF Notices!Next, Notices!Serving
<1>2. CASE UNCHANGED vars \/ DirectoryStep \/ TemplateStep \/ BoardStep \/ LocationStep
  <2>1. UNCHANGED vars
    BY <1>2 DEF DirectoryStep, InDirectory, TemplateStep, InTemplates, BoardStep, InBoard, LocationStep, InLocation
  <2>2. part = "notices" /\ part' = part /\ UNCHANGED <<person, note, reaction, badge, shown, loose, work, mix, todo>>
    BY <2>1 DEF vars, noticeVars
  <2> QED  BY <2>2, StillTold
<1> QED  BY <1>1, <1>2 DEF Next

\* ToldAgrees: when nothing is on its way to a user, his badge is the count of his notices, and when
\* no reaction is being made, the reactions shown are those of the database, except where a late
\* count, a cleanup, a change of role or a restart has come between.
THEOREM BadgesRight == Spec => []ToldAgrees
<1>1. NoticeInv /\ ToldInv => ToldAgrees
  <2> SUFFICES ASSUME NoticeInv, ToldInv, part = "notices"  PROVE Notices!ToldAgrees  BY DEF ToldAgrees
  <2>1. BadgesKept /\ ShownKept /\ ToldWorks  BY ToldFacts
  <2>2. ASSUME NEW u \in DOMAIN person \ loose, \A t \in DOMAIN work : t[2] # u  PROVE badge[u] = Notices!Unread(u)
    <3>1. ~BadgeDue(u)  BY <2>2 DEF BadgeDue
    <3> QED  BY <2>1, <3>1 DEF BadgesKept
  <2>3. ASSUME NULL \notin loose, \A t \in DOMAIN work : t[1].kind \notin {"react", "unreact"}  PROVE shown = reaction
    <3>1. ~ShownDue
      <4>1. SUFFICES ASSUME NEW t \in DOMAIN work, work[t].at \in ShownStages  PROVE FALSE  BY DEF ShownDue
      <4>2. ToldWork(t, work[t])  BY <2>1 DEF ToldWorks
      <4>3. t[1].kind \in Reactions  BY <4>1, <4>2 DEF ToldWork, ReactStages
      <4> QED  BY <2>3, <4>3 DEF Reactions
    <3> QED  BY <2>1, <2>3, <3>1 DEF ShownKept
  <2> QED  BY <2>2, <2>3 DEF Notices!ToldAgrees
<1>2. Init => NoticeInv /\ ToldInv  BY NoticeInit, ToldInit
<1>3. (NoticeInv /\ ToldInv) /\ [Next]_vars => (NoticeInv /\ ToldInv)'  BY NoticeNext, ToldNext
<1> QED  BY <1>1, <1>2, <1>3, PTL DEF Spec
=============================================================================
