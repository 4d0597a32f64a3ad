SPECIFICATION Spec
CONSTANTS
  x = x
  y = y
  Values = {x, y}
  Junk = Junk
  VRegs = {"a", "b", "c", "d", "e", "g"}
  HomeRegs = {"R6", "R7"}
  Keepers = {1, 2}
  Modules <- KeepersModules
INVARIANT CalleeSavedKept
\* The program ends when the entry function returns or compilation fails.
CHECK_DEADLOCK FALSE
