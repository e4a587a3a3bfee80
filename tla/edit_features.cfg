SPECIFICATION Spec
CONSTANTS
  Null = Null
  NoGeometry = NoGeometry
  JoinFields <- MCNoFields
  ExpressionFields <- MCNoFields
  StoredName <- MCStoredName
  InitialProvider <- MCOneRow
  Edits <- MCFeatureEdits
  NewFieldNames = {}
  NewValues = {"v1"}
  Geometries = {"g1", "g2"}
  ProviderFailures <- MCNoFailure
  RenderExtents = {}
  MaxEntries = 2
  MaxMacroCommands = 2
  MaxNewFeatures = 2
  MaxSelected = 1
  MaxStoredFid = 5
  MaxSessions = 1
INVARIANTS UndoRestores NothingPendingAtBottom NoAssertionFails FreshIds
PROPERTIES ImplementsHistory CommitKeepsLayer SelectionFollowsCommit
