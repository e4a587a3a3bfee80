SPECIFICATION Spec
CONSTANTS
    roads = roads
    wms = wms
    Layers = {roads, wms}
    BaseFirst <- MCBaseFirst
    VectorLayers = {roads}
    NetworkLayers = {wms}
    Extents = {e1, e2}
    MinimalExtent = MinimalExtent
    TransformsWithCache = FALSE
    RemovesLayers = {roads}
    RepaintsDuringCachedJob = FALSE
    MaxNested = 1
    MaxEvents = 1
INVARIANT NoDeletedLayerRead
CHECK_DEADLOCK FALSE
