SPECIFICATION Spec
CONSTANTS
  VM = {v1, v2}
  VMObject = {b1, b2}
  Shared = {s1, s2, s3}
  ReturnValue = {a1, a2}
  Variable = {x1, x2}
  Method = {m1, m2}
  WrenHandle = {w1, w2, w3}
  Obj = {o1, o2}
  NULL = NULL
  MaxDepth = 1
SYMMETRY Symmetry
CHECK_DEADLOCK FALSE
INVARIANTS TypeOK HandleMatches SoleOwner NoLeak HeldObjectExists
PROPERTIES FreedUntouched ImplementsRetention
