---------------------------- MODULE MCUserDirectory ----------------------------
(* Instances of UserDirectory for TLC. *)
EXTENDS UserDirectory

Call(n, kind) == [n |-> n, kind |-> kind, ext |-> NULL, email |-> NULL, driver |-> TRUE, active |-> FALSE, row |-> NULL,
                  device |-> NULL, page |-> 1, entry |-> NULL, known |-> TRUE]
Hook(n, kind, ext, email) == [Call(n, kind) EXCEPT !.ext = ext, !.email = email]
Staff(c, active) == [c EXCEPT !.driver = FALSE, !.active = active]
Unknown(c) == [Staff(c, TRUE) EXCEPT !.known = FALSE]
OnRow(n, kind, row, active) == [Call(n, kind) EXCEPT !.row = row, !.active = active]
Listed(ext, email, driver) == [ext |-> ext, email |-> email, driver |-> driver]

Driver(ext, email) == Row(ext, email, TRUE, TRUE, "web")
Employee(ext, email) == Row(ext, email, FALSE, TRUE, "web")
Using(ext, email, seen) == [Driver(ext, email) EXCEPT !.seen = seen]
Device(ext) == [ext |-> ext, user |-> NULL]

Base == [users |-> <<>>, devices |-> <<>>, list |-> <<>>, calls |-> {}, per |-> 1, batch |-> 1, faults |-> 0]

\* Webhooks about drivers and employees who share ids and emails.
L1 == [Base EXCEPT !.users = <<Driver(1, "a")>>, !.devices = <<Device(1)>>,
        !.calls = {Hook(1, "add", 2, "b"), Hook(2, "update", 2, "c"), Hook(3, "update", 1, "b"), Hook(4, "delete", 1, "a"),
                   Hook(5, "add", 1, "c")}]
L2 == [Base EXCEPT !.users = <<Driver(1, "a"), Employee(1, "b")>>, !.devices = <<Device(1)>>,
        !.calls = {Staff(Hook(1, "add", 2, "c"), TRUE), Staff(Hook(2, "update", 1, "c"), FALSE), Staff(Hook(3, "delete", 1, "b"), FALSE),
                   Hook(4, "delete", 1, "a"), Hook(5, "delete", 1, "a")}]
\* Employees of no known role become drivers.
L10 == [Base EXCEPT !.users = <<Driver(1, "a"), Employee(2, "b")>>, !.devices = <<Device(2)>>,
        !.calls = {Unknown(Hook(1, "add", 1, "c")), Unknown(Hook(2, "update", 2, "d")), Staff(Hook(3, "update", 2, "b"), FALSE),
                   Hook(4, "update", 2, "e"), Hook(5, "delete", 2, "d")}]
\* Imports next to webhooks.
L3 == [Base EXCEPT !.users = <<Driver(1, "a"), Employee(7, "c")>>, !.faults = 1,
        !.list = <<Listed(1, "b", TRUE), Listed(2, "c", TRUE), Listed(3, NULL, TRUE), Listed(4, "d", TRUE)>>,
        !.calls = {Call(1, "drivers"), Hook(2, "update", 1, "b"), Hook(3, "add", 4, "d")}]
L4 == [Base EXCEPT !.users = <<Driver(9, "a"), Employee(1, "b")>>, !.devices = <<[ext |-> 9, user |-> 1]>>, !.per = 2, !.faults = 1,
        !.list = <<Listed(1, "b", FALSE), Listed(2, "a", FALSE), Listed(3, "c", FALSE), Listed(4, "d", FALSE), Listed(5, "e", FALSE)>>,
        !.calls = {Call(1, "users"), Hook(2, "delete", 9, "a"), Staff(Hook(3, "add", 3, "c"), TRUE), Call(4, "restart"),
                   Staff(Hook(5, "delete", 2, "a"), FALSE)}]
L5 == [Base EXCEPT !.list = <<Listed(1, "a", TRUE), Listed(2, "b", TRUE), Listed(3, "c", TRUE)>>, !.faults = 1,
        !.calls = {Call(1, "driversNow"), Call(2, "drivers"), Call(3, "unlist")}]
L6 == [Base EXCEPT !.list = <<Listed(1, "a", FALSE), Listed(2, "b", FALSE), Listed(4, "d", FALSE), Listed(5, "e", FALSE)>>,
        !.calls = {[Call(1, "usersNow") EXCEPT !.page = 2], Call(2, "users"), [Call(3, "enlist") EXCEPT !.entry = Listed(3, "c", FALSE)]}]
\* The backfills, with rows that leave and move.
L7 == [Base EXCEPT !.users = <<Driver(1, "a"), Employee(2, "b")>>, !.devices = <<Device(1), Device(2), Device(3), Device(1), Device(3)>>, !.batch = 2,
        !.calls = {Call(1, "devices"), [OnRow(2, "foreground", 1, TRUE) EXCEPT !.device = 4], Hook(3, "delete", 1, "a"), Staff(Hook(4, "add", 3, "c"), TRUE)}]
L8 == [Base EXCEPT !.users = <<Using(1, "a", 1), Using(2, "b", 2), Using(3, "c", 3), Using(4, "d", 4)>>, !.batch = 1, !.faults = 2,
        !.calls = {Call(1, "activate"), OnRow(2, "foreground", 1, TRUE), OnRow(3, "foreground", 3, TRUE), OnRow(4, "status", 1, FALSE),
                   OnRow(5, "status", 1, TRUE)}]
L9 == [L8 EXCEPT !.batch = 2, !.calls = {Call(1, "activate"), OnRow(2, "foreground", 2, TRUE), Hook(3, "delete", 1, "a"), Call(4, "restart")}]

Mixed == {L1, L2, L3, L4, L5, L6, L7, L8, L9, L10}

=============================================================================
