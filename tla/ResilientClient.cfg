SPECIFICATION ClientFairSpec
CONSTANTS
  Callers = {c1, c2}
  Outcomes <- MCOutcomes
  NumBuckets = 1
  WindowLen = 4
  EpochShift = 0
  MinimumRequests = 2
  RatioNum = 1
  RatioDen = 2
  OpenDuration = 2
  HalfOpenMaxCalls = 1
  HalfOpenSuccesses = 1
  CallTimeout = 99
  HealthyFrom = 99
  MaxNow = 4
  MaxPerBucket = 99
  RetryEnabled = TRUE
  MaxAttempts = 2
  Base = 1
  MaxBackoff = 2
  BudgetNum = 1
  BudgetDen = 2
  Floor = 1
  Buffer = 1
  Minimum = 1
  Deadlines <- MCDeadlines
  MayPanic = TRUE
  MayCancel = TRUE
  LastCall = 0
  MaxCalls = 2
INVARIANTS ClientTypeOK AttemptsBounded RetriesFollowSends DeadlineKept
INVARIANT RetriesAreCounted
PROPERTIES ReportsTheCause EveryCallReturns
