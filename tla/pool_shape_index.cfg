SPECIFICATION Spec
CONSTANTS
  render = render
  identify = identify
  nested = nested
  None = None
  Iterators <- MCTwoIterators
  MainIterators <- MCMainIterators
  Outer <- MCNotNested
  MaxConnections = 2
  Kinds = {"ogr"}
  ShapeIndex = {TRUE}
  MaxCalls = 4
INVARIANTS GroupOutlivesUsers
CHECK_DEADLOCK FALSE
