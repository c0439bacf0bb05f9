SPECIFICATION Spec
CONSTANTS
  none = none
  text = text
  pending = pending
  done = done
  routeA = routeA
  routeB = routeB
  MaxEntries = 3
  MaxID = 6
  Tag <- MCTag
  Body <- MCBody
  Proxy <- MCProxy
  NoBody = none
  NoProxy = pending
INVARIANTS TypeOK Contiguous Bounded PollExact
PROPERTIES GoneIsGone ImplementsRequestLog
