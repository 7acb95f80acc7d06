SPECIFICATION Spec
CONSTANTS
  u1 = u1
  u2 = u2
  Units <- Both
  All = All
  Asked <- Polling
  Places = {0}
  Values = {0, 1}
  LenMax = 2
  InMax = 2
  FaultMax = 2
  None = None
INVARIANTS WasHeld DoneWhenAlone
PROPERTY Heals
CHECK_DEADLOCK FALSE
