SPECIFICATION FairSpec
CONSTANTS
  NumClients = 2
  Ops = 2
  MaxCreateErrors = 0
  MaxRefused = 1
PROPERTIES
  Ends
CHECK_DEADLOCK FALSE
