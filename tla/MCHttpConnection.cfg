\* Every sequence of up to three requests, a response fills the socket.
SPECIFICATION FairSpec
CONSTANTS
  Kinds <- AllButHello
  MaxRequests = 3
  ResponseSize = 2
  SendBuffer = 2
INVARIANTS TypeOK AnsweredInOrder ResponsesIntact NothingUnparsed NoLostEdge OpenMeansTimed
PROPERTIES EveryRequestAnswered OutputDrains
CHECK_DEADLOCK FALSE
