CONSTANTS
  BpNumber = 1
  Pack = {p1}
  Device = {d1}
  Served = {0}
  None = None
  QueueMax = 1
  RetryMax = 0
SPECIFICATION Spec
SYMMETRY Symmetry
INVARIANT AwaitedIsPending
PROPERTY NoCommandLost
