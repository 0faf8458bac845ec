\* Empty values, and an annotation that is not compared with its saved value.
SPECIFICATION Spec
CONSTANTS
  Fields = {path, id}
  AlteredFields = {path}
  Values = {a}
  EmptyValues = {""}
  None = None
  MaxInput = 1
  MaxItems = 1
CHECK_DEADLOCK FALSE
INVARIANT EditsSurvive
INVARIANT FormatsKept
PROPERTY RunEnds
