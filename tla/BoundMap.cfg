SPECIFICATION Spec
CONSTANTS
  NodeBased = TRUE
  Element = {1, 2, 3}
  Loop = {l1, l2}
CHECK_DEADLOCK FALSE
INVARIANTS TypeOK LoopExact LoopDefinedUnlessEmpty LoopComplete
PROPERTIES LoopsEnd ImplementsTraversal
