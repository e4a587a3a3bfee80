SPECIFICATION Spec
CONSTANTS
    StoredFids = {1, 2, 3}
    InitialFids = {1}
    Values = {0, 1}
    NewContents <- MCNewContents
    NoValue = NoValue
    Readers = {reader}
    Loader = Loader
    Configurations <- MCConfigurations
    Slack = 1
    CacheSizes = {1}
    MaxNew = 2
    MaxFields = 2
    MaxEdits = 3
INVARIANTS TypeOK FullCacheComplete
PROPERTIES OnlyLateReadersSpoil NewAttributesCovered
CHECK_DEADLOCK FALSE
