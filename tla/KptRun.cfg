\* Two objects, each of which the function may edit, clone, insert and delete.
SPECIFICATION Spec
SYMMETRY ValueSymmetry
CONSTANTS
  Fields = {path}
  AlteredFields = {path}
  Values = {a, b, c}
  EmptyValues = {}
  None = None
  MaxInput = 2
  MaxItems = 2
CHECK_DEADLOCK FALSE
INVARIANT IInv
INVARIANT EditsSurvive
INVARIANT FormatsKept
INVARIANT ResourceIdsRemoved
INVARIANT ExitCodes
