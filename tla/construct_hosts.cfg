SPECIFICATION Spec
CONSTANTS
  Leaves = {"int", "callable"}
  Unset = {"callable"}
  Claims = {1, 2}
  MaxRoot = 1
  MaxLen = 2
  MaxDepth = 2
  MaxRank = 2
INVARIANTS
  TypeOK
  DimsExact
  DimsSound
  CrashNeedsFalseClaim
  RoundTrip
  TypedDims
\* A construction or a traversal ends.
CHECK_DEADLOCK FALSE
