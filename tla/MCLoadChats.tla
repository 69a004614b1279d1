----------------------------- MODULE MCLoadChats -----------------------------
(* Instances of LoadChats for TLC. *)
EXTENDS LoadChats, TLC

CONSTANTS d1, d2, d3, s1, t1, t2, l1, l2, p1, p2

M(kinds, drivers, teams, loads, offered, rooms) ==
  [kinds |-> kinds, drivers |-> drivers, staff |-> UNION teams, teams |-> teams,
   adds |-> {{}}, loads |-> loads, offered |-> offered, rooms |-> rooms,
   sells |-> s1, offerLoad |-> l1]

M1 == M({"create"}, {d1, d2}, {{t1}}, {l1}, <<d1, d2, d3>>, 4)
M2 == M({"create", "status", "leave"}, {d1}, {{s1}}, {l1}, <<d1, d2>>, 3)
M3 == M({"create", "fork", "leave"}, {d1, d2}, {{s1}}, {l1}, <<>>, 2)
M4 == M({"update", "leave"}, {d1}, {{s1, t1}, {t1}}, {l1}, <<>>, 1)
M5 == M({"create", "attach", "leave"}, {d1, d2}, {{s1}}, {l1}, <<>>, 2)
M6 == M({"create", "transfer"}, {d1}, {{s1, t1}, {t2}}, {l1, l2}, <<>>, 2)
MB == M({"create", "transfer", "leave"}, {d1}, {{s1, t1}, {t2}}, {l1}, <<>>, 1)
M7 == M({"create", "status", "sweep", "say"}, {d1}, {{s1}}, {l1}, <<>>, 2)
M8 == M({"create", "status", "delete"}, {d1}, {{s1}}, {l1, l2}, <<>>, 2)
M9 == M({"create", "fork", "status"}, {d1, d2}, {{s1}}, {l1}, <<>>, 2)
MC == M({"create", "fork", "archive"}, {d1, d2}, {{s1}}, {l1}, <<>>, 2)
MA == M({"create", "tell", "say", "delete"}, {d1, d2}, {{s1}}, {l1}, <<>>, 2)

Mixed == {M1, M2, M3, M4, M5, M6, M7, M8, M9, MA, MB, MC}

Symmetry == Permutations({p1, p2})

=============================================================================
