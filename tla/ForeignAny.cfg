SPECIFICATION Spec
CONSTANTS
  Obj = {o1, o2, o3}
  Cell = {c1, c2}
  Shared = {s1}
  ReturnValue = {a1}
  NULL = NULL
  Habits <- WithReferences
SYMMETRY Symmetry
CHECK_DEADLOCK FALSE
INVARIANTS AnyExtendsLifetime
