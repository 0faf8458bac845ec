\* What the documentation of delete says, when the function renames objects.
SPECIFICATION Spec
CONSTANTS
  Objects = {o1, o2}
  Keys = {1, 2}
  MaxArgs = 1
PROPERTY DeleteRemoves
