------------------------------- MODULE MCNotices -------------------------------
(* Instances of Notices for TLC. *)
EXTENDS Notices, TLC

CONSTANTS a, d, e, f   \* an administrator, drivers, an employee

Call(n, kind) == [n |-> n, kind |-> kind, by |-> NULL, to |-> <<>>, system |-> FALSE, emoji |-> NULL, row |-> NULL, device |-> NULL]
By(n, kind, u) == [Call(n, kind) EXCEPT !.by = u]
To(n, kind, by, to) == [Call(n, kind) EXCEPT !.by = by, !.to = to]
Emoji(n, u, x) == [By(n, "react", u) EXCEPT !.emoji = x]
Changed(n, u, row) == [By(n, "person", u) EXCEPT !.row = row]
OnDevice(n, kind, u, x) == [By(n, kind, u) EXCEPT !.device = x]

Person(role) == [role |-> role, enabled |-> TRUE, status |-> "ok", active |-> TRUE]
Off(p) == [p EXCEPT !.enabled = FALSE]
Is(p, status) == [p EXCEPT !.status = status]
Notice(u, kind, old) == [user |-> u, kind |-> kind, read |-> FALSE, old |-> old]

People == (a :> Person("admin")) @@ (d :> Person("driver")) @@ (e :> Person("other")) @@ (f :> Person("driver"))
Base == [users |-> {a, d, e, f}, person |-> People, token |-> (1 :> d) @@ (2 :> e) @@ (3 :> f) @@ (4 :> a), note |-> <<>>,
         member |-> (d :> FALSE) @@ (e :> FALSE) @@ (f :> FALSE), author |-> e, type |-> "GROUP", platform |-> <<{a, d, e, f}, {d, a}>>,
         calls |-> {}, faults |-> 0]

\* Notices, read and counted.
N1 == [Base EXCEPT !.note = <<Notice(e, "private_created", TRUE), Notice(e, "offer_staff", FALSE)>>,
        !.calls = {To(1, "offer_staff", d, <<e, a>>), By(2, "read", e), By(3, "cleanup", e), By(4, "list", e)}]
N2 == [Base EXCEPT !.note = <<Notice(a, "group_created", FALSE), Notice(a, "load", FALSE)>>,
        !.calls = {To(1, "load", e, <<a, d>>), By(2, "read_all", a), Changed(3, a, Person("other")), By(1, "list", a)}]
\* The loops over recipients.
N3 == [Base EXCEPT !.calls = {To(1, "participants_added", e, <<d, e, a, f>>), By(2, "remove", d), Changed(3, f, Person("admin")),
                              To(4, "private_created", d, <<e>>)}]
N4 == [Base EXCEPT !.calls = {To(1, "group_created", e, <<d, e, a, f>>), Changed(2, a, Person("other")), By(3, "restart", e)}]
N5 == [Base EXCEPT !.calls = {To(1, "participant_removed", e, <<a, d, e>>), To(2, "user_left", d, <<a, e>>), By(3, "read_all", e)}]
\* Pushes.
N6 == [Base EXCEPT !.calls = {To(1, "offer_driver", e, <<d, f>>), Changed(2, d, Off(Person("driver"))), OnDevice(3, "unregister", f, 3), By(4, "push_tms", d)}]
N7 == [Base EXCEPT !.person = (d :> Is(Person("driver"), "expired")) @@ (f :> Is(Person("driver"), "blocked")) @@ People,
        !.calls = {By(1, "message", e), By(2, "mute", d), Changed(3, f, Person("driver")), [By(4, "message", d) EXCEPT !.system = TRUE],
                   By(5, "leave", e), OnDevice(6, "unregister", d, NULL), Changed(7, e, Person("recruiter"))}]
N8 == [N7 EXCEPT !.type = "DIRECT", !.member = (d :> FALSE) @@ (e :> FALSE),
        !.calls = {By(1, "message", e), Changed(2, e, Person("recruiter")), Changed(3, d, Off(Person("driver"))), By(4, "push", d)}]
N9 == [N8 EXCEPT !.type = "BID", !.calls = {By(1, "message", e), Emoji(2, d, 1)}]
\* Reactions.
N10 == [Base EXCEPT !.calls = {Emoji(1, d, 1), Emoji(2, f, 2), By(3, "leave", f), Changed(4, e, Off(Person("other")))}]
N11 == [Base EXCEPT !.calls = {Emoji(1, d, 1), By(2, "unreact", d), By(3, "mute", e), By(4, "remove", d)}]
\* The queues.
N12 == [Base EXCEPT !.calls = {Call(1, "broadcast"), Call(2, "broadcast"), Changed(3, e, [Person("other") EXCEPT !.active = FALSE]),
                               OnDevice(4, "register", d, 3)}]
N13 == [Base EXCEPT !.faults = 1,
        !.calls = {To(1, "offer_job", e, <<d, a, f>>), To(2, "offer_job", e, <<d>>), By(3, "remove", f), By(4, "restart", e)}]
N14 == [Base EXCEPT
        !.calls = {Call(1, "broadcast"), Call(2, "broadcast"), Changed(3, d, Off(Person("driver"))), To(1, "offer_job", e, <<d>>)}]

Mixed == {N1, N2, N3, N4, N5, N6, N7, N8, N9, N10, N11, N12, N13, N14}

=============================================================================
