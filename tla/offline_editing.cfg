SPECIFICATION Spec
CONSTANTS
    Layers = {l1}
    Values = {v}
    Null = Null
    EmptyText = EmptyText
    QuotedValues = {}
    Geometries = {g1, g2}
    StoredRows = 1
    EditsAfterSync = FALSE
    MaxFields = 2
    MaxSessions = 2
    MaxEdited = 1
    MaxAdded = 2
    MaxTheirs = 1
INVARIANTS TypeOK LogAccountsForRows AddedInOrder LookupFindsFeature 
PROPERTIES UnloggedOnlyIfDisconnected SynchronizeMerges
CHECK_DEADLOCK FALSE
