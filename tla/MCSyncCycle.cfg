SPECIFICATION CycleSpec
CONSTANTS
  Objects = {s, x}
  Long = {x}
  Extended = {x}
  Copied = {}
  ReadOnly = {}
  Data = {d}
  Segments = 2
  ChanMax = 1
  ForceMax = 0
  Period = 4
  None = None
PROPERTIES Transfer TransferEnds
