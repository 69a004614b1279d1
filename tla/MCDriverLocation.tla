---------------------------- MODULE MCDriverLocation ----------------------------
(* Instances of DriverLocation for TLC: rows and external ids are numbers. *)
EXTENDS DriverLocation

CONSTANTS A, B

Call(n) == [n |-> n, kind |-> NULL, row |-> 1, id |-> 1, place |-> NULL, status |-> NULL, auto |-> NULL,
            active |-> FALSE, instance |-> NULL]
Manual(n, place, status, auto) == [Call(n) EXCEPT !.kind = "manual", !.place = place, !.status = status, !.auto = auto]
Ping(n, place) == [Call(n) EXCEPT !.kind = "ping", !.place = place]
InTms(n, status) == [Call(n) EXCEPT !.kind = "tms", !.status = status]
Account(n, on) == [Call(n) EXCEPT !.kind = "account", !.active = on]
Kill(n, i) == [Call(n) EXCEPT !.kind = "crash", !.instance = i]
On(c, r) == [c EXCEPT !.row = r]

User == [status |-> "available", auto |-> TRUE, active |-> TRUE, place |-> "here", seen |-> 0]
Base == [db |-> <<User>>, ext |-> <<1>>, calls |-> {}, jobs |-> {}, instances |-> {A}, conns |-> {1},
         permits |-> 1, chunk |-> 1, hours |-> 0, faults |-> 0, tracked |-> {}, test |-> NULL]

\* Status by hand, by TMS and by the job.
L1 == [Base EXCEPT !.jobs = {"location"}, !.faults = 1,
        !.calls = {Manual(1, "there", "loaded_enroute", TRUE), InTms(3, "not_available")}]
L2 == [Base EXCEPT !.calls = {Manual(1, "there", "loaded_enroute", TRUE), Manual(2, "here", NULL, NULL), InTms(3, "not_available")}, !.faults = 2]
L3 == [Base EXCEPT !.jobs = {"location"}, !.faults = 2, !.calls = {Manual(1, NULL, "not_available", FALSE), Ping(2, "there")}]
L4 == [Base EXCEPT !.calls = {InTms(1, "loaded_enroute"), InTms(2, "not_available"), Account(3, FALSE), Account(4, TRUE)}, !.faults = 1]
\* Two instances, a pool of one or of two connections, a process that dies.
L5 == [Base EXCEPT !.jobs = {"location"}, !.instances = {A, B}, !.conns = {1}, !.faults = 1,
        !.calls = {Manual(1, "there", NULL, NULL), Kill(2, A)}]
L6 == [Base EXCEPT !.jobs = {"location", "app"}, !.instances = {A, B}, !.calls = {Kill(1, B)}]
L7 == [L5 EXCEPT !.conns = {1, 2}, !.calls = {Kill(2, A), Account(3, FALSE)}]
\* The history of a load.
L8 == [Base EXCEPT !.db[1].status = "loaded_enroute", !.tracked = {1}, !.hours = 3, !.permits = 1,
        !.calls = {Ping(1, "there"), Ping(2, "here"), Ping(3, "abroad"), Ping(4, "there")}]
L9 == [Base EXCEPT !.db[1].status = "loaded_enroute", !.tracked = {1}, !.hours = 2, !.permits = 2,
        !.calls = {Ping(1, "there"), Ping(2, "here"), Manual(4, "abroad", "available", TRUE), Kill(5, A)}]
\* Two rows of one external id, chunks, old places, test mode.
L10 == [Base EXCEPT !.db = <<User, User, User>>, !.ext = <<1, 1, 2>>, !.jobs = {"location"}, !.hours = 1,
        !.calls = {On(Ping(1, "there"), 2), On(Ping(2, "there"), 3)}]
L11 == [L10 EXCEPT !.test = 2, !.jobs = {"location", "app"}, !.chunk = 2, !.hours = 0]
L12 == [L11 EXCEPT !.hours = 1, !.calls = {On(Ping(1, "there"), 2)}]
\* A ping that brings a status.
L13 == [Base EXCEPT !.jobs = {"location"}, !.calls = {[Ping(1, "there") EXCEPT !.status = "loaded_enroute"], InTms(2, "not_available")}]

Mixed == {L1, L2, L3, L4, L5, L6, L7, L8, L9, L10, L11, L12, L13}

=============================================================================
