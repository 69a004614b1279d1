SPECIFICATION Spec
CONSTANTS
  u1 = u1
  u2 = u2
  u3 = u3
  p1 = p1
  p2 = p2
  Users = {u1, u2, u3}
  Active = {u1, u2}
  MaxRooms = 3
  Reqs = {p1, p2}
  Mixes <- Mixed
  NULL = NULL
SYMMETRY Symmetry
INVARIANTS ChatsBounded
PROPERTIES ShownToMembers
CHECK_DEADLOCK FALSE
