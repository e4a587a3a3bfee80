SPECIFICATION Spec
CONSTANTS
  Null = Null
  NoGeometry = NoGeometry
  JoinFields <- MCNoFields
  ExpressionFields <- MCNoFields
  StoredName <- MCStoredName
  InitialProvider <- MCOneRow
  Edits <- MCFeatureEdits
  NewFieldNames = {}
  NewValues = {"v1"}
  Geometries = {"g1", "g2"}
  ProviderFailures <- MCNoFailure
  RenderExtents <- MCWholeMap
  MaxEntries = 3
  MaxMacroCommands = 1
  MaxNewFeatures = 1
  MaxSelected = 0
  MaxStoredFid = 5
  MaxSessions = 1
INVARIANTS UndoRestores
