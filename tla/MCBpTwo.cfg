CONSTANTS
  BpNumber = 2
  Pack = {p1, p2}
  Device = {}
  Served = {}
  None = None
  QueueMax = 0
  RetryMax = 0
SPECIFICATION Spec
SYMMETRY Symmetry
INVARIANT SingleAssignment
 
