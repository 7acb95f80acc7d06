SPECIFICATION AllSpec
CONSTANTS
  Callers = {u}
  StartMax = 2
  EventMax = 3
  Data = {170, 85, 7}
  Plain = {7}
  Crc <- SmallCrc
  Size = 7
  LagMax = 3
  CanFaultMax = 2
  Threads = {t1, t2}
  Cabs = {c1, c2}
  Nobody = Nobody
  CabFaultMax = 1
INVARIANTS ServiceHasBus OnceNeverCrashes HandedInOrder OwnAnswer
PROPERTIES  Transparent CanResyncs
