\* Two connections, more nodes than connections, behaviours that pass two wraps of
\* the clock with timers of all three lengths across them.
SPECIFICATION Spec
CONSTANTS
  Conns = {c1, c2}
  Nodes = {n1, n2, n3, n4}
  NoConn = NoConn
  NoNode = NoNode
  Never = Never
  ExpiredTime = 1
  KeepAliveTime = 4
  Wrap = 5
  MaxTime = 11
SYMMETRY Symmetry
INVARIANTS TypeOK
PROPERTIES ImplementsDeadlines ExpiredAreGone
CHECK_DEADLOCK FALSE
