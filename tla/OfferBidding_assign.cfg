SPECIFICATION Spec
CONSTANTS
  Offers = {o1}
  Rows = {r1, r2}
  Drivers = {d1, d2}
  Staff = {s1}
  Loads = {l1, l2}
  Rates = {1}
  Reqs = {p1, p2}
  Traffic = {"bid", "update", "add", "select", "cleanup", "enroute"}
  MaxCounterOffers = 1
  MaxOpen = 2
  NULL = NULL
SYMMETRY Symmetry
INVARIANTS
  AtMostOneSelected
  LoadMatchesSelection
PROPERTIES
  ImplementsAssignment
CHECK_DEADLOCK FALSE
