SPECIFICATION MCSpec
CONSTANTS
  Infos = {i1, i2}
  Strings = {s1, s2}
  Texts = {A, B}
  Null = Null
  Callables = {c1, c2}
  Arrays = {a1, a2}
  NoArray = NoArray
  Counts = {2, 128, 256}
  Guarded = {g1}
  Values = {v1}
  MaxFns = 2
SYMMETRY Symmetry
INVARIANTS
  AliasesOwned
  ArraysOwned
  MovesAreSafe
  GuardsFree
  FaultsExplained
PROPERTIES
  MisnamedByAssign
  LostByOverwrite
\* A host may stop, and a process that faults does.
CHECK_DEADLOCK FALSE
