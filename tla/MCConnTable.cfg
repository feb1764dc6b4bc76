\* Three connections through two descriptors and two loops: every descriptor
\* can be reused, by the same loop and by the other one.
SPECIFICATION Spec
CONSTANTS
  Conns = {c1, c2, c3}
  Fds = {f1, f2}
  Loops = {l1, l2}
  None = None
SYMMETRY Symmetry
INVARIANTS TypeOK NoDanglingHandler TablesConsistent TimersKnown NothingForgotten
CHECK_DEADLOCK FALSE
