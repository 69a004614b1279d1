SPECIFICATION FairSpec
CONSTANTS
  Users = {u0, u1}
  Owner = u0
  Rates = {1, 2}
  Reqs = {p1, p2, c1, c2}
  Cron = {c1, c2}
  Traffic = {"join", "price", "vote", "voteLock", "resolve", "extendBid", "archive", "purge"}
  Fresh = 2
  Timer = 3
  MaxExtend = 3
  MaxOffers = 1
  ArchiveIdle = 3
  PurgeAfter = 0
  Stall = 1
  LastRequest = 0
  Horizon = 5
  NULL = NULL
INVARIANTS
  OfferLimitSlack
PROPERTIES
  OffersSettle
  ArchivesIdleOrRaced
CHECK_DEADLOCK FALSE
