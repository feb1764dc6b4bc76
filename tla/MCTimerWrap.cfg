\* A timer set just before the clock starts again.
SPECIFICATION Spec
CONSTANTS
  Conns = {c1, c2}
  Nodes = {n1, n2, n3}
  NoConn = NoConn
  NoNode = NoNode
  Never = Never
  ExpiredTime = 1
  KeepAliveTime = 4
  Wrap = 5
  MaxTime = 9
PROPERTIES DeletedAreGone
CHECK_DEADLOCK FALSE
