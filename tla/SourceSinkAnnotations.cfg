\* Both formats, which is what run decides on for a source without input.
SPECIFICATION Spec
CONSTANTS
  MaxFiles = 2
  MaxKeys = 2
  MaxDocs = 1
  BothFormats = TRUE
INVARIANT AnnotationsRemoved
