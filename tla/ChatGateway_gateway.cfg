SPECIFICATION Spec
CONSTANTS
  u1 = u1 u2 = u2 s1 = s1 s2 = s2 s3 = s3 p1 = p1 p2 = p2 r1 = r1 r2 = r2 NULL = NULL
  Users = {u1, u2} Sockets = {s1, s2, s3} Chats = {r1, r2} MaxAsked = 2
  Reqs = {p1, p2} MaxUnread = 2
  Mixes <- Mixed
INVARIANTS PresenceSound ChangesTold
PROPERTIES OfflineRight
CHECK_DEADLOCK FALSE
