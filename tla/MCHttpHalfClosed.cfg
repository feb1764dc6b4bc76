\* A response larger than the socket, and a peer that half closes.
SPECIFICATION FairSpec
CONSTANTS
  Kinds <- Answerable
  MaxRequests = 1
  ResponseSize = 3
  SendBuffer = 2
PROPERTIES HalfClosedIsClosed
CHECK_DEADLOCK FALSE
