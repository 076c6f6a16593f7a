SPECIFICATION MCSpec
CONSTANTS
  Bytes = {0, 177, 65}
  Lengths = {0, 1, 2, 3, 4, 5, 6, 7, 8, 9, 10}
  BufferSize = 10
  PtrRoom = 6
  Channels = 2
INVARIANTS
  AcceptsTheFormat PointersAreStarts RightArguments
PROPERTY
  Terminates
CHECK_DEADLOCK FALSE
