\* Three objects, two of which an insert or a delete can have as its arguments.
SPECIFICATION Spec
CONSTANTS
  Objects = {o1, o2, o3}
  Keys = {1, 2, 3}
  MaxArgs = 2
INVARIANT IInv
INVARIANT SortedByKey
INVARIANT SearchedOutside
PROPERTY InsertReplaces
PROPERTY DeleteRemovesUnrenamed
PROPERTY DeepCopyKeepsKeys
PROPERTY CallsReturn
PROPERTY StoreSpec
