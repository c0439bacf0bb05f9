SPECIFICATION Spec
CONSTANTS
  Route = {r1, r2}
  All = All
  Task = {t1, t2}
  Gestures = {"filter", "clear", "routes"}
  Lossy = TRUE
  MaxEntries = 2
  MaxID = 2
SYMMETRY MCSymmetry
INVARIANTS TypeOK ListConsistent RowsPassFilter
