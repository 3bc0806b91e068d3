SPECIFICATION Spec
CONSTANTS
  Threads = {t1}
  Main = t1
  NSym = 2
  StaticLoad = FALSE
  MayFree = FALSE
INVARIANT LoadSuccessComplete
CHECK_DEADLOCK FALSE
