SPECIFICATION Spec
CONSTANTS
    roads = roads
    wms = wms
    Layers = {roads, wms}
    BaseFirst <- MCBaseFirst
    VectorLayers = {roads}
    NetworkLayers = {wms}
    Extents = {e1, e2}
    MinimalExtent = MinimalExtent
    TransformsWithCache = FALSE
    RemovesLayers = {wms}
    RepaintsDuringCachedJob = FALSE
    MaxNested = 2
    MaxEvents = 4
INVARIANTS TypeOK ImagesFitView NoStaleImage JobUsesCanvasCache
PROPERTIES CancelledJobsLeaveNoTrace CancelledJobNeverStarts EventuallyCurrent
CHECK_DEADLOCK FALSE
