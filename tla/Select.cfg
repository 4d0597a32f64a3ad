SPECIFICATION Spec
CONSTANTS
  a = a
  b = b
  p = p
  d1 = d1
  d2 = d2
  t1 = t1
  t2 = t2
  t3 = t3
  NoReg = NoReg
  WordMod = 8
  ImmMod = 4
  Regs = {a, b, p, d1, d2, t1, t2, t3}
  LiveIns = {a, b}
  Temps <- MCTemps
  Programs <- MCPrograms
INVARIANT TypeOK
INVARIANT LoweredFaithfully
INVARIANT ResultsAgree
INVARIANT CFGConsistent
PROPERTY Completes
\* The program ends when the block has been left.
CHECK_DEADLOCK FALSE
