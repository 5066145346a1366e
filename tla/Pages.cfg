SPECIFICATION Spec
CONSTANTS
  Pages = {p1, p2, p3, p4, p5}
  Empty = empty
  MaxFrames = 4
  MaxRefs = 8
SYMMETRY PageSymmetry
INVARIANTS
  TypeOK
  FifoIsQueue
  LruIsMostRecent
  OptIsLeast
CHECK_DEADLOCK FALSE
