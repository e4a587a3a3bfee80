SPECIFICATION Spec
CONSTANTS
  Null = Null
  NoGeometry = NoGeometry
  JoinFields <- MCNoFields
  ExpressionFields <- MCNoFields
  StoredName <- MCStoredName
  InitialProvider <- MCOneRow
  Edits <- MCFeatureEdits
  NewFieldNames = {}
  NewValues = {"v1"}
  Geometries = {"g1"}
  ProviderFailures <- MCAnyStageFails
  RenderExtents <- MCPanningMap
  MaxEntries = 2
  MaxMacroCommands = 0
  MaxNewFeatures = 2
  MaxSelected = 0
  MaxStoredFid = 2
  MaxSessions = 1
INVARIANTS UndoRestoresAttributes FreshIds
PROPERTIES CommitKeepsLayer
CHECK_DEADLOCK FALSE
