SPECIFICATION Spec
CONSTANTS
  Callers = {c1, c2, c3}
  Outcomes <- MCOutcomes
  NumBuckets = 2
  WindowLen = 4
  EpochShift = 0
  MinimumRequests = 2
  RatioNum = 1
  RatioDen = 2
  OpenDuration = 3
  HalfOpenMaxCalls = 2
  HalfOpenSuccesses = 3
  CallTimeout = 2
  HealthyFrom = 99
  MaxNow = 8
  MaxPerBucket = 4
SYMMETRY CallerSymmetry
INVARIANTS ProbeCap NoSlotLeak
PROPERTIES ClosesOnProbes ReopensOnProbe ImplementsBreakerSpec
