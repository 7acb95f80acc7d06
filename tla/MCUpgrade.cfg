SPECIFICATION Spec
CONSTANTS
  r1 = r1
  r2 = r2
  s1 = s1
  s2 = s2
  Requests = {r1, r2}
  Slots = {s1, s2}
  Slot <- SlotOfRequest
  Foreign = {}
  Unreadable = {}
  Segments = 3
  RepeatMax = 3
  NoteMax = 1
  FaultMax = 1
  None = None
 
PROPERTIES SuccessIsStored UpgradeEnds
CHECK_DEADLOCK FALSE
