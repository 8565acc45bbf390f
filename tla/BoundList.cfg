SPECIFICATION Spec
CONSTANTS
  NodeBased = TRUE
  Element = {e1, e2, e3}
  Loop = {l1, l2}
  MaxIndex = 2
CHECK_DEADLOCK FALSE
INVARIANTS LoopComplete
PROPERTIES LoopsEnd ImplementsTraversal
