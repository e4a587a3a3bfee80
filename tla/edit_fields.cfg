SPECIFICATION Spec
CONSTANTS
  Null = Null
  NoGeometry = NoGeometry
  JoinFields <- MCOneJoin
  ExpressionFields <- MCOneExpression
  StoredName <- MCStoredName
  InitialProvider <- MCTwoFields
  Edits <- MCFieldEdits
  NewFieldNames = {"b", "c"}
  NewValues = {"v0", "v1"}
  Geometries = {"g1"}
  ProviderFailures <- MCNoFailure
  RenderExtents = {}
  MaxEntries = 4
  MaxMacroCommands = 0
  MaxNewFeatures = 1
  MaxSelected = 0
  MaxStoredFid = 5
  MaxSessions = 1
INVARIANTS TypeOK UndoRestores BottomCommitsNothing
PROPERTIES ImplementsHistory CommitKeepsLayer
CHECK_DEADLOCK FALSE
