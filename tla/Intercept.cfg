SPECIFICATION Spec
CONSTANTS
  Conn = {c1, c2}
  MaxBody = 1
  MaxSize = 2
  MaxEntries = 2
  MaxID = 3
SYMMETRY MCSymmetry
INVARIANTS TypeOK CaptureBounded BodyExact StatusAgrees StreamFlagExact AmendsOwnEntry
