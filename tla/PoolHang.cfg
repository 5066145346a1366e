SPECIFICATION FairSpec
CONSTANTS
  Workers = {w1, w2}
  Main = main
  Nobody = nobody
  MaxConns = 2
  MaxSignals = 1
  MaxErrors = 0
PROPERTIES
  CleanShutdown
CHECK_DEADLOCK FALSE
