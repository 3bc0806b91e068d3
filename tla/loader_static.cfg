SPECIFICATION Spec
CONSTANTS
  Threads = {t1, t2}
  Main = t1
  NSym = 2
  StaticLoad = TRUE
  MayFree = FALSE
PROPERTY ImplementsApi
\* The process stops when the static constructor cannot load XLLR.
CHECK_DEADLOCK FALSE
