SPECIFICATION Spec
CONSTANTS
  p1 = p1 p2 = p2 NULL = NULL Gone = Gone
  Reqs = {1, 2, 3} Phones = {p1, p2} Rows = {1, 2, 3}
  Mixes <- Mixed
INVARIANTS CredentialsSound ProofsServeOnce
PROPERTIES DevicesRight
CHECK_DEADLOCK FALSE
