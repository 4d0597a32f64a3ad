SPECIFICATION Spec
CONSTANTS
  b1 = b1
  b2 = b2
  main = main
  static = static
  helper = helper
  NoSym = NoSym
  OffMod = 16
  ImmMod = 16
  Blocks = {b1, b2}
  Funcs = {main, static}
  Externs = {helper}
  StaticFuncs = {static}
  BlocksOf <- MCBlocksOf
  Instrs <- LayoutInstrs
  Aligns = {8, 16}
  MaxSlots = 5
INVARIANT TypeOK
INVARIANT InstructionsDecode
INVARIANT LabelsOnInstructions
INVARIANT JumpsLand
INVARIANT RelocsExact
INVARIANT AbortsExactly
PROPERTY OnlyBranchOffsetsPatched
\* The program ends: the object is written or the assertion has stopped it.
CHECK_DEADLOCK FALSE
