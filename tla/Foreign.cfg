SPECIFICATION Spec
CONSTANTS
  Obj = {o1, o2, o3}
  Cell = {c1, c2}
  Shared = {s1, s2}
  ReturnValue = {a1}
  NULL = NULL
  Habits <- SharedOrAll
SYMMETRY Symmetry
CHECK_DEADLOCK FALSE
INVARIANTS TypeOK NothingUndefined OwnedAlive
