SPECIFICATION Spec
CONSTANTS
  x = x
  y = y
  NoFI = NoFI
  NoReg = "none"
  R10 = "R10"
  R11 = "R11"
  PhysRegs = {"R0", "R6", "R7", "R8", "R10", "R11"}
  Objects = {x, y}
  MaxSpills = 2
  WordMod = 1024
  ImmMod = 128
  FP0 = 512
  Ptr0 = 100
  Programs <- MCPrograms
INVARIANT TypeOK
INVARIANT AddressesKept
PROPERTY FramePointerStays
\* The program ends when the function returns.
CHECK_DEADLOCK FALSE
