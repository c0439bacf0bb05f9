SPECIFICATION Spec
CONSTANTS
  Conn = {c1}
  MaxBody = 2
  MaxSize = 4
  MaxEntries = 2
  MaxID = 3
INVARIANTS TypeOK CaptureBounded BodyExact StatusAgrees StreamFlagExact AmendsOwnEntry
