SPECIFICATION Spec
CONSTANTS
  Requests = {r1, r2, r3}
  MaxInFlight = 1
  UserErrors <- MCUserErrors
  Threshold = 2
  HardCap = 3
SYMMETRY RequestSymmetry
INVARIANTS TypeOK FloodStopsAtShed SlotsReturned OutcomesMeasured WarnsOnce
INVARIANTS OnlyAbortsEscape BlameIsRight
PROPERTY ShedOnlyAtCap
