SPECIFICATION Spec
CONSTANTS
  b1 = b1
  b2 = b2
  main = main
  static = static
  helper = helper
  NoSym = NoSym
  OffMod = 8
  ImmMod = 16
  Blocks = {b1, b2}
  Funcs = {main, static}
  Externs = {helper}
  StaticFuncs = {}
  BlocksOf <- MCBlocksOf
  Instrs <- FarInstrs
  Aligns = {8}
  MaxSlots = 7
INVARIANT NoBranchNeedsRelaxation
\* The program ends: the object is written or the assertion has stopped it.
CHECK_DEADLOCK FALSE
