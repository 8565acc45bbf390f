SPECIFICATION Spec
CONSTANTS
  NodeBased = TRUE
  Element = {1, 2}
  Loop = {l1}
CHECK_DEADLOCK FALSE
INVARIANTS LoopDefined
