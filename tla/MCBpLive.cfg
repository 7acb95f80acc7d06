CONSTANTS
  BpNumber = 1
  Pack = {p1, p2}
  Device = {}
  Served = {0}
  None = None
  QueueMax = 0
  RetryMax = 1
SPECIFICATION FairSpec
  
PROPERTY AssignmentEnds
