CONSTANTS
  Cabs = {c1, c2}
  None = None
  RetryNumber = 2
  CmdMax = 2
  CallMax = 1
SPECIFICATION Spec
SYMMETRY Symmetry
INVARIANT ChosenIsValid
 
