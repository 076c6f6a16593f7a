SPECIFICATION Spec
CONSTANTS
  NULL = NULL
  Image <- MCImage
  MAX_DISK = 3
  TRACKS = 4
  SecSize <- MCSecSize
  Selections <- MCSelections
  Ranges <- MCRanges
  Reads <- MCReads
INVARIANTS
  TypeOK
  ReadsTheLine
  AnswersAsTheFileIs
PROPERTIES
  ReadsLinearly
