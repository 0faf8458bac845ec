\* All entry points, arguments and kinds of processor.
SPECIFICATION Spec
CONSTANTS
  Entries = {"AsMain", "Execute"}
  Arguments = {"WithContext", "ResourceListProcessorFunc", "ResourceListProcessor", "Runner"}
  Processors = {"nil", "struct", "plain", "mapped", "func", "selector"}
  MaxChain = 2
  MaxIncoming = 1
  MaxLogged = 2
CHECK_DEADLOCK FALSE
INVARIANT IInv
INVARIANT FailuresSurface
INVARIANT StopsAtErrors
INVARIANT RejectedDoNotRun
INVARIANT ResultsKept
INVARIANT ErrorsAfterOutput
INVARIANT ResultsInOrder
PROPERTY ResultsGrow
PROPERTY RunEnds
