SPECIFICATION Spec
CONSTANTS
  n1 = n1
  n2 = n2
  t1 = t1
  o1 = o1
  Number = {n1, n2}
  Text = {t1}
  Object = {o1}
  Element = {n1, n2, t1}
  Signature <- ListsAndNumbers
  Kept = {}
  MaxArgs = 2
  MaxItems = 2
  NULL = NULL
  RECEIVER = RECEIVER
  EMPTY = EMPTY
SYMMETRY Symmetry
CHECK_DEADLOCK FALSE
INVARIANTS ArgumentsArrive
