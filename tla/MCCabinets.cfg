SPECIFICATION Spec
CONSTANTS
  c1 = c1
  c2 = c2
  Cabs <- TwoCabs
  CallMax = 1
  None = None
SYMMETRY Symmetry
INVARIANTS DeadlockUnderAssign  ShownIsThere
CHECK_DEADLOCK FALSE
