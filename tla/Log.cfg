SPECIFICATION FairSpec
CONSTANTS
  NumLogs = 5
  MaxSpurious = 1
PROPERTIES
  AllProcessed
CHECK_DEADLOCK FALSE
