SPECIFICATION FairSpec
CONSTANTS
  Callers = {c1, c2}
  Outcomes <- MCTwoOutcomes
  NumBuckets = 2
  WindowLen = 2
  EpochShift = 0
  MinimumRequests = 2
  RatioNum = 1
  RatioDen = 2
  OpenDuration = 2
  HalfOpenMaxCalls = 1
  HalfOpenSuccesses = 2
  CallTimeout = 99
  HealthyFrom = 3
  MaxNow = 8
  MaxPerBucket = 4
PROPERTY Recovers
