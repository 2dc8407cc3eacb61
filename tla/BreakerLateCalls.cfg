SPECIFICATION Spec
CONSTANTS
  Callers = {c1, c2, c3}
  Outcomes <- MCTwoOutcomes
  NumBuckets = 2
  WindowLen = 4
  EpochShift = 0
  MinimumRequests = 1
  RatioNum = 1
  RatioDen = 2
  OpenDuration = 2
  HalfOpenMaxCalls = 1
  HalfOpenSuccesses = 2
  CallTimeout = 99
  HealthyFrom = 99
  MaxNow = 6
  MaxPerBucket = 6
SYMMETRY CallerSymmetry
PROPERTY ClosesOnProbes
