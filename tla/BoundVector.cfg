SPECIFICATION Spec
CONSTANTS
  NodeBased = FALSE
  Element = {e1, e2, e3}
  Loop = {l1, l2}
  MaxIndex = 3
SYMMETRY Symmetry
CHECK_DEADLOCK FALSE
INVARIANTS TypeOK LoopExact LoopDefined
PROPERTIES IndexesMeanPositions
