SPECIFICATION FairSpec
CONSTANTS
  render = render
  identify = identify
  nested = nested
  None = None
  Iterators <- MCIterators
  MainIterators <- MCMainIterators
  Outer <- MCOuter
  MaxConnections = 2
  Kinds = {"ogr", "server"}
  ShapeIndex = {FALSE}
  MaxCalls = 6
INVARIANTS TypeOK PermitsBalance ConnectionLimit GroupOutlivesUsers RefsCounted
PROPERTIES WaitersFindPermit
CHECK_DEADLOCK FALSE
