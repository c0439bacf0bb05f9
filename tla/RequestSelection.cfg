SPECIFICATION Spec
CONSTANTS
  Route = {r1, r2}
  All = All
  Task = {t1, t2}
  Gestures = {"filter", "clear", "routes", "select"}
  Lossy = TRUE
  MaxEntries = 1
  MaxID = 1
SYMMETRY MCSymmetry
INVARIANT SelectionListed
