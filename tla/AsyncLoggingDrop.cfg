\* A batch longer than the limit.
SPECIFICATION FairSpec
CONSTANTS
  Buffers = {1, 2, 3, 4, 5, 6, 7}
  NoBuffer = 0
  Capacity = 1
  DropAbove = 2
  MaxLines = 4
PROPERTIES BuffersAreWritten
CHECK_DEADLOCK FALSE
