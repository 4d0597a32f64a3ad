SPECIFICATION Spec
CONSTANTS
  WordMod = 65536
  ImmMod = 256
  MaxNodes = 40
  Samples <- MCSamples
  Sources <- MCSources
INVARIANT TypeOK
INVARIANT MeaningKept
INVARIANT AcceptsExactly
PROPERTY Terminates
\* A function ends selected or refused.
CHECK_DEADLOCK FALSE
