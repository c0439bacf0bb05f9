SPECIFICATION Spec
CONSTANTS
  Route = {r1}
  All = All
  Task = {t1, t2}
  Gestures = {"clear"}
  Lossy = FALSE
  MaxEntries = 2
  MaxID = 2
INVARIANT ClearedStayCleared
