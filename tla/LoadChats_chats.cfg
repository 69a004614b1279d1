SPECIFICATION Spec
CONSTANTS
  d1 = d1
  d2 = d2
  d3 = d3
  s1 = s1
  t1 = t1
  t2 = t2
  l1 = l1
  l2 = l2
  p1 = p1
  p2 = p2
  Drivers = {d1, d2, d3}
  Staff = {s1, t1, t2}
  Tracking = {t1, t2}
  Loads = {l1, l2}
  MaxRooms = 4
  Reqs = {p1, p2}
  Mixes <- Mixed
  NULL = NULL
SYMMETRY Symmetry
INVARIANTS LoadChatsAgree
PROPERTIES StaffAgrees DeletesJustified
CHECK_DEADLOCK FALSE
