SPECIFICATION Spec
CONSTANTS
  Name = {a}
  NumPaths = 2
  MaxErrors = 3
  MaxTexts = 1
  MaxDepth = 3
CHECK_DEADLOCK FALSE
INVARIANTS TypeOK ReportsKept CauseTold TextOnce
PROPERTIES ImportRunsOnce
