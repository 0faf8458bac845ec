\* The package of ObjectMeta, another, and one with a name that is too short to print;
\* two names, which inline types have too.
SPECIFICATION Spec
CONSTANTS
  Packages = {"meta", "apps", "v1"}
  ShortPackages = {"v1"}
  Names = {"ObjectMeta", "Item"}
  MetaPackage = "meta"
  MetaName = "ObjectMeta"
  ItemName = "Item"
  MaxDefinitions = 2
  MaxLinks = 2
INVARIANT IInv
INVARIANT FilesFit
PROPERTY TypegenEnds
\* typegen ends.
CHECK_DEADLOCK FALSE
