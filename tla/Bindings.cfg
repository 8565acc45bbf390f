SPECIFICATION Spec
CONSTANTS
  Module = {"m"}
  Name = {"A", "B"}
  base = base
  derived = derived
  Type = {base, derived}
  Base <- DerivedFromBase
  Application <- Applications
CHECK_DEADLOCK FALSE
INVARIANTS TypeOK FinalizerFits OneClassPerType SelfAccepted DeclarationsBound TypeSafe
