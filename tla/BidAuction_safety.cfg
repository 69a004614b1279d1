SPECIFICATION Spec
CONSTANTS
  Users = {u0,u1}
  Owner = u0
  Rates = {1,2}
  Reqs = {p1,p2,c1}
  Cron = {c1}
  Traffic = {"join","price","extendPart","resolve"}
  Fresh = 2
  Timer = 2
  MaxExtend = 2
  MaxOffers = 2
  ArchiveIdle = 3
  PurgeAfter = 0
  Stall = 1
  LastRequest = 2
  Horizon = 2
  NULL = NULL
SYMMETRY Symmetry
INVARIANTS
  TypeOK
  ApplyExclusive
  TimerSlack
PROPERTIES
  UndercutsEarlier
CHECK_DEADLOCK FALSE
