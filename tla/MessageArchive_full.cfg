SPECIFICATION Spec
CONSTANTS
  a = a  b = b  NULL = NULL
  Rooms = {a, b}  Days = {1, 2}  MaxPosts = 3  Batch = 1
  Jobs = {1, 2}
  Mixes <- Plain
PROPERTIES FullArchives
CHECK_DEADLOCK FALSE
