\* A function that sets only Go maps: one of two levels passes the lock.
SPECIFICATION Spec
CONSTANTS
  Metadata = metadata
  Annotations = annotations
  Identifier = identifier
  Names = {metadata, annotations, identifier}
  Strings = {string}
  Origin = origin
  NoString = noString
  Settable = {"map"}
  MaxFields = 2
  MaxLevels = 2
  MaxNodes = 5
  MaxHeld = 2
CHECK_DEADLOCK FALSE
INVARIANT NeverForged
