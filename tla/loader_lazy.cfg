SPECIFICATION FairSpec
CONSTANTS
  Threads = {t1, t2}
  Main = t1
  NSym = 2
  StaticLoad = FALSE
  MayFree = TRUE
INVARIANTS
  TypeOK
  FaultNeedsRaceOrFree
  BoundIsPrefix
  OpenedOnce
PROPERTIES
  CompleteStaysComplete
  CallEnds
\* The process stops when it faults.
CHECK_DEADLOCK FALSE
