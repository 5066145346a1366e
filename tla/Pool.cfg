SPECIFICATION FairSpec
CONSTANTS
  Workers = {w1, w2}
  Main = main
  Nobody = nobody
  MaxConns = 7
  MaxSignals = 1
  MaxErrors = 1
INVARIANTS
  TypeOK
  OneHolder
  NoIdleWorker
  NoIdleMain
  ShutdownReachesAll
  DrainedButLast
PROPERTIES
  HandoffSpec
  Served
  StopTerminates
CHECK_DEADLOCK FALSE
