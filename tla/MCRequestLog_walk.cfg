SPECIFICATION Spec
CONSTANTS
  Request = {r1, r2, r3, r4, r5}
  Instant = {1, 2, 3, 4, 5}
  PageSize = 2
INVARIANTS
  NothingMissed
  RepeatsAreShifts
  NextPageHasRows
SYMMETRY Symmetry
CHECK_DEADLOCK FALSE
