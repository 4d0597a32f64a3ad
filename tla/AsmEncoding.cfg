SPECIFICATION Spec
CONSTANTS
  b1 = b1
  b2 = b2
  main = main
  static = static
  helper = helper
  NoSym = NoSym
  OffMod = 16
  ImmMod = 32
  Blocks = {b1}
  Funcs = {main}
  Externs = {helper}
  StaticFuncs = {}
  BlocksOf <- MCBlocksOf
  Instrs <- EncodingInstrs
  Aligns = {8}
  MaxSlots = 2
INVARIANT InstructionsDecode
INVARIANT TextMeansObject
\* The program ends: the object is written or the assertion has stopped it.
CHECK_DEADLOCK FALSE
