SPECIFICATION Spec
CONSTANTS
  b1 = b1
  b2 = b2
  b3 = b3
  Blocks = {b1, b2, b3}
  NoBlock = NoBlock
  Entry = b1
  Bodies <- MCBodies
INVARIANT TypeOK
INVARIANT EdgesPreserved
INVARIANT AnalysisTruthful
INVARIANT FoldedBlocksTidy
PROPERTY CallsReturn
