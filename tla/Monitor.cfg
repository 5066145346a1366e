SPECIFICATION FairSpec
CONSTANTS
  Readers = {r1, r2, r3}
  Writers = {w1, w2}
  Nobody = nobody
INVARIANTS
  TypeOK
  Exclusion
  ReaderHasAWaker
  WriterHasAWaker
PROPERTIES
  WritersFirst
  WriterGetsIn
  Ends
CHECK_DEADLOCK FALSE
