\* A response that does not fit, followed by /hello.
SPECIFICATION Spec
CONSTANTS
  Kinds <- WithHello
  MaxRequests = 2
  ResponseSize = 3
  SendBuffer = 2
INVARIANTS AnswersKept
CHECK_DEADLOCK FALSE
