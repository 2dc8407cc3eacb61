\* Three hops, two attempts each.
CONSTANTS
  MaxAttempts = 1
  Root <- MCRoot
  Nodes <- MCNodes
  Child <- MCChild
  Deadlines <- MCDeadlines
  Buffer = 1
  Minimum = 1
  Timeout <- MCTimeout
  Backstop = 5
  Backoff = 1
  Latency = 1
  None = None
SPECIFICATION Spec
INVARIANT NoWorkForTheDeparted
PROPERTY RootReturns
CHECK_DEADLOCK FALSE
