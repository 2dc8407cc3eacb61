SPECIFICATION Spec
CONSTANTS
  Requests = {r1, r2}
  MaxInFlight = 1
  UserErrors <- MCUserErrors
  Threshold = 2
  HardCap = 3
SYMMETRY RequestSymmetry
INVARIANT UserPanicsMeasured
