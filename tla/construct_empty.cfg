SPECIFICATION Spec
CONSTANTS
  Leaves = {"int"}
  Unset = {}
  Claims = {1, 2}
  MaxRoot = 1
  MaxLen = 2
  MaxDepth = 2
  MaxRank = 2
INVARIANT DimsDocumented
\* A construction or a traversal ends.
CHECK_DEADLOCK FALSE
