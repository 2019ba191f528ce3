CONSTANTS
    main = main
    raster = raster
    Threads = {main, raster}
    EventLoop = main
    Raster = raster
    MaxSurfaces = 2
    a = a
    Pool = {a}
    MaxLayers = 2
    MaxFills = 2
    MaxRequests = 2
    Legacy = TRUE
SPECIFICATION FairSpec
CHECK_DEADLOCK FALSE
INVARIANTS
    SurfaceOutlivesOwners
PROPERTIES
    EverythingReleased
