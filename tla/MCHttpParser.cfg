\* Every sequence of up to two of eight requests, read in any pieces.
SPECIFICATION Spec
CONSTANTS
  Menu <- Requests
  MaxRequests = 2
INVARIANTS ParsedAsSent NeverWaitsInVain
CHECK_DEADLOCK FALSE
