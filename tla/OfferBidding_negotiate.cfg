SPECIFICATION Spec
CONSTANTS
  Offers = {o1}
  Rows = {r1, r2}
  Drivers = {d1}
  Staff = {s1}
  Loads = {l1}
  Rates = {1, 2}
  Reqs = {p1, p2}
  Traffic = {"bid", "edit", "counter", "accept", "decline", "eta", "etaRefresh", "extend", "update"}
  MaxCounterOffers = 1
  MaxOpen = 1
  NULL = NULL
SYMMETRY Symmetry
INVARIANTS
  TypeOK
  CounterLimitSlack
PROPERTIES
  BidsTimed
CHECK_DEADLOCK FALSE
