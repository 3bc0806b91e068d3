SPECIFICATION MCSpec
CONSTANTS
  Roots = {r1, r2}
  Bufs = {b1, b2, b3}
  CacheBufs = {b3}
  Objs = {o1, o2, o3}
  MaxLen = 1
  Used = {"scalar", "handle", "string", "callable", "array"}
  MayThrow = TRUE
INVARIANTS
  TypeOK
  NoBadFree
  OneOwner
  LeaksAreOverwrites
  HandlesKept
  EmptiedByFreeOrMove
\* A host may stop, and a process that faults does.
CHECK_DEADLOCK FALSE
