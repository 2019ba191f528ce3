CONSTANTS
    main = main
    raster = raster
    Threads = {main, raster}
    EventLoop = main
    Raster = raster
    MaxSurfaces = 1
    a = a
    b = b
    Pool = {a, b}
    MaxLayers = 1
    MaxFills = 3
    MaxRequests = 3
    Legacy = FALSE
SYMMETRY SlotSymmetry
SPECIFICATION Spec
CHECK_DEADLOCK FALSE
INVARIANTS
    CountsMatchOwners
    ImagesStable
    ScanoutAfterRender
    CleanWhenFree
