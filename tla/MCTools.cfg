SPECIFICATION Spec
CONSTANTS
  FLAGS = 2
  NIBBLE = 2
  HEAD = 2
  UINT = 256
  Archives <- RingRuns
  BITS = 2
  MAXBITS = 5
  WORD = 256
  HOLE = 99
  Inputs <- LzwRuns
CHECK_DEADLOCK FALSE
INVARIANTS
  TypeOK
  DecodesThePacked
  CutsWhatIsThere
  AccountsForTheInput
PROPERTY
  EndsAndRefusesOnlyTheBroken
