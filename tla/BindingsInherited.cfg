SPECIFICATION Spec
CONSTANTS
  Module = {"m"}
  Name = {"A", "B"}
  base = base
  derived = derived
  Type = {base, derived}
  Base <- DerivedFromBase
  Application <- OnlyInheriting
CHECK_DEADLOCK FALSE
INVARIANTS InheritedAccepted
