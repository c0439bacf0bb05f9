SPECIFICATION Spec
CONSTANTS
  Conn = {c1}
  MaxBody = 1
  MaxSize = 2
  MaxEntries = 2
  MaxID = 2
INVARIANT ClosedStreamsAreClosed
