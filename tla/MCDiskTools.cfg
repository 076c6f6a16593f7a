SPECIFICATION MCSpec
CONSTANTS
  NULL = NULL
  MAX_DISK = 4
  TRACKS = 41
  SecSize <- MCSecSize
  Image <- MCImage
  Tools <- MCTools
  Variants <- MCVariants
  Arguments <- MCArguments
  Entry0 <- MCEntry0
  Promise <- MCPromise
  AngelImage <- MCAngelImage
  AngelTable <- MCAngelTable
CHECK_DEADLOCK FALSE
INVARIANTS
  TypeOK
  CutsWhatTheEntrySays
PROPERTIES
  EndsWithEverything
