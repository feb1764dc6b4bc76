\* Buffers of two lines, nine lines, batches of up to three buffers: the limit
\* is exceeded, and nextBuffer_ used up, in many ways.  Eight buffers are enough
\* for append() never to lack one.
SPECIFICATION FairSpec
CONSTANTS
  Buffers = {1, 2, 3, 4, 5, 6, 7, 8}
  NoBuffer = 0
  Capacity = 2
  DropAbove = 3
  MaxLines = 9
INVARIANTS TypeOK AssertionsHold BuffersNotShared
PROPERTIES ImplementsLogPipe NoLineWaits StopFinishes
CHECK_DEADLOCK FALSE
