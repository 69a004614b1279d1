------------------------------ MODULE MCLoadBoard ------------------------------
(* Instances of LoadBoard for TLC. *)
EXTENDS LoadBoard

Window(earliest, latest, hours) == [earliest |-> earliest, latest |-> latest, hours |-> hours]
Call(n, kind, i) == [n |-> n, kind |-> kind, ship |-> i, status |-> NULL, window |-> NULL]
Form(n, kind, i, status, window) == [Call(n, kind, i) EXCEPT !.status = status, !.window = window]
Set(n, i, status) == [Call(n, "status", i) EXCEPT !.status = status]

Base == [ship |-> <<>>, calls |-> {}, faults |-> 0]

\* A day, several days, an hour; windows that are edited while the sweep is under way.
B1 == [Base EXCEPT !.ship = <<Posted("posted", Window(0, 1, 0)), Posted("posted", Window(0, NULL, NULL))>>,
        !.calls = {Form(1, "edit", 1, NULL, Window(0, 1, NULL)), Call(3, "list", NULL)}]
B2 == [Base EXCEPT !.ship = <<Posted("unposted", Window(0, NULL, 0)), Posted("posted", Window(0, 1, NULL))>>,
        !.calls = {Form(1, "edit", 1, "posted", Window(1, NULL, NULL)), Call(3, "remove", 2), Form(4, "edit", 2, NULL, Window(1, 0, NULL))}]
B3 == [Base EXCEPT !.faults = 1,
        !.calls = {Form(1, "create", NULL, NULL, Window(0, 1, 0)), Form(2, "create", NULL, "unposted", Window(0, NULL, 0)),
                   Call(3, "list", NULL)}]
B4 == [Base EXCEPT !.ship = <<Posted("posted", Window(0, NULL, 1))>>, !.faults = 1,
        !.calls = {Set(1, 1, "unposted"), Form(2, "edit", 1, NULL, Window(0, 1, 1)), Set(3, 1, "posted")}]

Mixed == {B1, B2, B3, B4}

=============================================================================
