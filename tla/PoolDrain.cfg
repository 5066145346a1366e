SPECIFICATION Spec
CONSTANTS
  Workers = {w1, w2}
  Main = main
  Nobody = nobody
  MaxConns = 3
  MaxSignals = 1
  MaxErrors = 0
INVARIANTS
  Drained
CHECK_DEADLOCK FALSE
