SPECIFICATION RivalSpec
CONSTANTS
  NumProcesses = 3
  NumPriorities = 2
  MaxQueueSize = 4
  MaxArrival = 2
  RunTimes = {1, 2, 3}
  Quanta = {2, 4}
INVARIANTS
  TypeOK
  QueuesComplete
  FcfsNeverPreempts
  SrtIsLeast
  RoundRobinIsFcfs
  TurnsAlternate
  PriorityFirst
PROPERTIES
  ShareSpec
CHECK_DEADLOCK FALSE
