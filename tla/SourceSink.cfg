\* Two objects and two paths; the source has had no input.
SPECIFICATION Spec
CONSTANTS
  MaxFiles = 2
  MaxKeys = 2
  MaxDocs = 3
  BothFormats = TRUE
INVARIANT IInv
PROPERTY DirectoryIsInput
PROPERTY NothingDeletedEarly
PROPERTY KeptWithoutOverwrite
PROPERTY SecondRunChangesNothing
PROPERTY RoundTrip
