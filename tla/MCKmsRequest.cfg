CONSTANTS
    main = main
    raster = raster
    Threads = {main, raster}
    EventLoop = main
    Raster = raster
    Devices <- MCDevices
    Compositions <- MCCompositions
    MaxPushes = 3
    MaxCursors = 2
SPECIFICATION Spec
CHECK_DEADLOCK FALSE
INVARIANTS
    ScreenMatchesRequest
    LayersComposed
    ResourcesOwned
