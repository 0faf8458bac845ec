\* An object, and a function that sets values of every kind.
SPECIFICATION Spec
CONSTANTS
  Metadata = metadata
  Annotations = annotations
  Identifier = identifier
  Names = {metadata, annotations, identifier}
  Strings = {string}
  Origin = origin
  NoString = noString
  Settable = {"string", "other", "map", "slice", "struct"}
  MaxFields = 2
  MaxLevels = 2
  MaxNodes = 5
  MaxHeld = 2
CHECK_DEADLOCK FALSE
INVARIANT IInv
INVARIANT FailedCallsChangeNothing
PROPERTY LockHolds
PROPERTY WritesLand
PROPERTY ImplementsTree
