SPECIFICATION Spec
CONSTANTS
  NULL = NULL
  MaxPages = 2
  Batch = 2
  Day = 2
  MaxTime = 3
  a = a  d = d  e = e  f = f
  adm = adm  exp = exp  trk = trk  rec = rec  dsp = dsp  drv = drv
  A = A  B = B  One = A  Rows = {1, 2, 3}  Instances = {A, B}  Conns = {1, 2}  Jobs = {"location", "app"}
  Interval = 2  MaxAge = 1
  DirectoryMixes <- DirectoryMixed
  NoticeMixes <- NoticeMixed
  TemplateMixes <- TemplateMixed
  BoardMixes <- BoardMixed
  LocationMixes <- LocationMixed
INVARIANTS TypeOK DirectoryAgrees ToldAgrees NoticesRight TemplatesOwned BoardKept LocationKept StatusAgrees
PROPERTIES Settles
CHECK_DEADLOCK FALSE
