SPECIFICATION Spec
CONSTANTS
    Layers = {l1}
    Values = {v}
    Null = Null
    EmptyText = EmptyText
    QuotedValues = {}
    Geometries = {g1, g2}
    StoredRows = 2
    EditsAfterSync = FALSE
    MaxFields = 2
    MaxSessions = 2
    MaxEdited = 1
    MaxAdded = 2
    MaxTheirs = 1
INVARIANTS LookupFindsFeature
CHECK_DEADLOCK FALSE
