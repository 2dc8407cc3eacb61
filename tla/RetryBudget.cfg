SPECIFICATION Spec
CONSTANTS
  Callers = {c1, c2}
  None = None
  NumBuckets = 2
  WindowLen = 4
  EpochShift = 0
  RatioNum = 1
  RatioDen = 2
  Floor = 1
  MaxNow = 6
  MaxRequests = 3
  MaxRetries = 2
SYMMETRY CallerSymmetry
INVARIANTS TypeOK WindowPrecise
PROPERTY NeverOverspent
