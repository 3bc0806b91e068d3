SPECIFICATION Spec
CONSTANTS
  Keys = {"module", "metaffi_guest_lib"}
  Values = {"empty", "variable", "pair", "list"}
  MaxSets = 2
INVARIANTS
  PathsArrive
  ClassPathsReach
  PanicNeedsNullPath
PROPERTY SetsStayInside
\* Writing into a nil map ends the process.
CHECK_DEADLOCK FALSE
