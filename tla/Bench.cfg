SPECIFICATION BothSpec
CONSTANTS
  NumClients = 4
  Ops = 1
  MaxCreateErrors = 1
  MaxRefused = 1
  Workers = {w1}
  Capacity = 1
  NoConn = noconn
  Backlogs = {0, 1}
  MaxFaults = 1
INVARIANTS
  TypeOK
  StartTogether
  OpsAccounted
PROPERTIES
  EndsIfAllFit
CHECK_DEADLOCK FALSE
