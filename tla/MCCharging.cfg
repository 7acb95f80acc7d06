SPECIFICATION ChargingSpec
CONSTANTS
  CabNumber = 3
  VolMax = 2
  Cabs = {c1, c2}
  None = None
  RetryNumber = 1
  CmdMax = 1
  CallMax = 0
 
PROPERTIES ChargeSpec CommandEnds StrayStopped
