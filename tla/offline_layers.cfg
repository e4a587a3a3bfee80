SPECIFICATION Spec
CONSTANTS
    Layers = {l1, l2}
    Values = {v}
    Null = Null
    EmptyText = EmptyText
    QuotedValues = {}
    Geometries = {g1, g2}
    StoredRows = 1
    EditsAfterSync = FALSE
    MaxFields = 2
    MaxSessions = 1
    MaxEdited = 1
    MaxAdded = 1
    MaxTheirs = 0
PROPERTIES SynchronizeMerges
CHECK_DEADLOCK FALSE
