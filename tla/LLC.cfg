SPECIFICATION Spec
CONSTANTS
  m1 = m1
  m2 = m2
  IRs = {m1, m2}
  Inputs <- MCInputs
  Outputs <- MCOutputs
  Commands <- MCCommands
  Edits <- MCEdits
  MaxRuns = 2
INVARIANT TypeOK
PROPERTY Implements
PROPERTY InputSurvives
\* The user may stop calling llc.
CHECK_DEADLOCK FALSE
