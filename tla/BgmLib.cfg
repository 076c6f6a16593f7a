SPECIFICATION Spec
CONSTANTS
  None = None
  Tunes = {1, 2}
  Codes <- TuneCodes
PROPERTY RequestsAreServed
CHECK_DEADLOCK FALSE
