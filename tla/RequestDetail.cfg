SPECIFICATION FairSpec
CONSTANTS
  Route = {r1}
  All = All
  Task = {t1, t2}
  Gestures = {"routes", "select"}
  Lossy = FALSE
  MaxEntries = 1
  MaxID = 1
PROPERTY DetailSettles
