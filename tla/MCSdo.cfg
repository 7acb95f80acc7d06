SPECIFICATION Spec
CONSTANTS
  Objects = {r, x}
  Long = {r, x}
  Extended = {x}
  Copied = {x}
  ReadOnly = {r}
  Data = {d1, d2}
  Segments = 2
  ChanMax = 2
  ForceMax = 1
  None = None
SYMMETRY DataSymmetry
INVARIANTS UploadWhole SuccessIsTransfer UndisturbedSucceeds
