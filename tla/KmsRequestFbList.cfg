CONSTANTS
    main = main
    raster = raster
    Threads = {main, raster}
    EventLoop = main
    Raster = raster
    Devices <- OneDevice
    Compositions <- FewCompositions
    MaxPushes = 3
    MaxCursors = 2
SPECIFICATION Spec
CHECK_DEADLOCK FALSE
INVARIANTS
    FbListExclusive
