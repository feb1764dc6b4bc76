\* Two threads and client code on the loop thread hand over three callbacks in
\* every interleaving; anybody may quit.  No symmetry: liveness is checked too.
SPECIFICATION FairSpec
CONSTANTS
  Threads = {t1, t2}
  Functors = {f1, f2, f3}
INVARIANTS TypeOK NoLostWakeup
PROPERTIES BatchOnlyShrinks ImplementsTaskQueue EveryFunctorRuns QuitStops
CHECK_DEADLOCK FALSE
