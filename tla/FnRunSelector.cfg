\* ApplyFnBySelector in a processor of the chain.
SPECIFICATION Spec
CONSTANTS
  Entries = {"AsMain"}
  Arguments = {"WithContext", "ResourceListProcessorFunc"}
  Processors = {"plain", "selector"}
  MaxChain = 2
  MaxIncoming = 1
  MaxLogged = 2
CHECK_DEADLOCK FALSE
INVARIANT ResultsAppended
