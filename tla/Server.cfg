\* Two loop threads, three connections, a limit of descriptors below MAXFDS or
\* above it.
SPECIFICATION FairSpec
CONSTANTS
  NumThreads = 2
  Conns = {c1, c2, c3}
  MaxFds = 3
  Limits = {2, 4}
INVARIANTS TypeOK LoopsExist NothingStranded
PROPERTIES EveryConnectionServed DestructionEnds
CHECK_DEADLOCK FALSE
