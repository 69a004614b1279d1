------------------------------ MODULE MCTemplates ------------------------------
(* Instances of Templates for TLC. *)
EXTENDS Templates, TLC

CONSTANTS adm, exp, trk, rec, dsp, drv   \* an administrator, three managers, a dispatcher, a driver

Roles == (adm :> "ADMINISTRATOR") @@ (exp :> "EXPEDITE_MANAGER") @@ (trk :> "TRACKING_TL") @@ (rec :> "RECRUITER_TL")
         @@ (dsp :> "DISPATCHER") @@ (drv :> "DRIVER")
Ids == (adm :> 1) @@ (exp :> 2) @@ (trk :> 3) @@ (rec :> 4) @@ (dsp :> 5) @@ (drv :> 5)

Call(n, kind, u) == [n |-> n, kind |-> kind, user |-> u, id |-> NULL, type |-> NULL, group |-> NULL, ext |-> NULL, role |-> NULL]
Save(n, u, id, type, group) == [Call(n, "upsert", u) EXCEPT !.id = id, !.type = type, !.group = group]
Drop(n, u, id) == [Call(n, "delete", u) EXCEPT !.id = id]
Become(n, u, x) == [Call(n, "identify", u) EXCEPT !.ext = x, !.role = Roles[u]]
Turn(n, u, role) == [Call(n, "identify", u) EXCEPT !.ext = Ids[u], !.role = role]
Personal(u) == [ext |-> Ids[u], type |-> "personal", group |-> NULL, by |-> u, moved |-> FALSE]
Company(u, group) == [Personal(u) EXCEPT !.type = "company", !.group = group]

Base == [role |-> Roles, ext |-> Ids, template |-> <<>>, calls |-> {}]

\* Managers and their groups; an administrator moves a template.
T1 == [Base EXCEPT !.calls = {Save(1, exp, NULL, "company", NULL), Save(2, trk, NULL, "company", NULL), Save(3, rec, NULL, "company", NULL),
                              Save(4, adm, NULL, "company", "HR"), Save(5, dsp, NULL, "company", NULL), Drop(6, trk, 1)}]
T2 == [Base EXCEPT !.template = <<Company(exp, "Expedite"), Company(trk, "Tracking")>>,
        !.calls = {Save(1, adm, 1, NULL, "Tracking"), Save(2, exp, 1, NULL, "HR"), Drop(3, exp, 1), Save(4, trk, 1, NULL, NULL), Drop(5, trk, 2),
                   Save(6, adm, 2, "personal", NULL)}]
\* Personal ones, and ids that change hands.
T3 == [Base EXCEPT !.template = <<Personal(dsp), Personal(exp), Company(exp, "Expedite")>>,
        !.calls = {Drop(1, drv, 1), Save(2, drv, 2, NULL, NULL), Become(3, drv, 2), Save(4, dsp, 1, "company", NULL), Drop(5, drv, 3),
                   Save(6, drv, NULL, NULL, NULL)}]
T4 == [Base EXCEPT !.template = <<Company(trk, "Tracking"), Personal(dsp)>>,
        !.calls = {Become(1, exp, 3), Save(2, exp, 1, NULL, NULL), Drop(3, exp, 1), Save(4, adm, 1, NULL, "Expedite"), Become(5, dsp, NULL),
                   Save(6, dsp, 2, NULL, NULL), Drop(7, dsp, 2)}]

\* Roles that change: a manager who leaves his team, and others who come to one.
T5 == [Base EXCEPT !.template = <<Company(exp, "Expedite"), Personal(exp)>>,
        !.calls = {Turn(1, exp, "DISPATCHER"), Save(2, exp, 1, NULL, NULL), Drop(3, exp, 1), Drop(4, exp, 2), Save(5, exp, NULL, "company", NULL),
                   Turn(6, exp, "EXPEDITE_MANAGER")}]
T6 == [Base EXCEPT !.template = <<Company(trk, "Tracking")>>,
        !.calls = {Turn(1, dsp, "TRACKING_TL"), Save(2, dsp, NULL, "company", NULL), Save(3, dsp, 1, NULL, NULL), Drop(4, dsp, 1),
                   Turn(5, adm, "DRIVER"), Save(6, adm, 1, NULL, "HR"), Turn(7, trk, "RECRUITER_TL")}]

Mixed == {T1, T2, T3, T4, T5, T6}

=============================================================================
