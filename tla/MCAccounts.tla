------------------------------ MODULE MCAccounts ------------------------------
(* Instances of Accounts for TLC. *)
EXTENDS Accounts, TLC

CONSTANTS p1, p2

Base ==
  [user |-> [status |-> "ACTIVE", password |-> First], kinds |-> {}, reqs |-> 1..3, ids |-> 1..2, from |-> {NULL}, fails |-> FALSE, phones |-> {}, syncs |-> {},
   app |-> [p \in Phones |-> "new"], model |-> [p \in Phones |-> "a"]]
Invited == [status |-> "INACTIVE", password |-> NULL]

\* Passwords, with mails that fail; codes and links.
M1 == [Base EXCEPT !.user = Invited, !.kinds = {"email", "mobile", "google", "status"}, !.fails = TRUE]
M2 == [Base EXCEPT !.user = Invited, !.kinds = {"email", "change", "driver"}, !.fails = TRUE]
M3 == [Base EXCEPT !.kinds = {"forgot", "reset", "email"}, !.fails = TRUE]
M4 == [Base EXCEPT !.kinds = {"login", "verify", "driver", "status"}]

\* Two phones of one model whose app moves to deviceIds; removals and blocks.
M5 == [Base EXCEPT !.reqs = 1..2, !.ids = 1..3, !.phones = Phones, !.syncs = {p1}, !.kinds = {"register", "sync"}, !.app = [p \in Phones |-> "old"]]
M6 == [Base EXCEPT !.reqs = 1..2, !.phones = Phones, !.syncs = {p1}, !.kinds = {"register", "sync", "erase", "remove", "others"}]
M7 == [Base EXCEPT !.reqs = 1..2, !.phones = {p1}, !.syncs = {p1}, !.kinds = {"register", "sync", "block", "unblock", "email"}, !.from = {p1}]

Mixed == {M1, M2, M3, M4, M5, M6, M7}

=============================================================================
