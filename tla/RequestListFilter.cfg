SPECIFICATION Spec
CONSTANTS
  Route = {r1, r2}
  All = All
  Task = {t1, t2}
  Gestures = {"filter"}
  Lossy = FALSE
  MaxEntries = 2
  MaxID = 2
SYMMETRY MCSymmetry
INVARIANT NothingMissed
