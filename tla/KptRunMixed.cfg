\* Objects of different formats in one input.
SPECIFICATION Spec
CONSTANTS
  Fields = {path}
  AlteredFields = {path}
  Values = {a}
  EmptyValues = {}
  None = None
  MaxInput = 2
  MaxItems = 2
CHECK_DEADLOCK FALSE
INVARIANT MixedFormatsRejected
