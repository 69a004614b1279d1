\* A sender, a reader and a driver who comes and goes: two requests of all
\* kinds at the same time about one message, which may be sent twice.
SPECIFICATION Spec
CONSTANTS
  Users = {u1, u2, u3}
  Drivers = {u3}
  Movers = {u3}
  Messages = {m1}
  ClientIds = {c1}
  Reqs = {p1, p2}
  Traffic = {"create", "read", "unread", "markAll", "uncount"}
  MaxUnread = 1
  Horizon = 1
  NULL = NULL
SYMMETRY Symmetry
INVARIANTS TypeOK BadgeBacked ReceiptAgrees
CHECK_DEADLOCK FALSE
