CONSTANTS
    main = main
    raster = raster
    l1 = l1
    Threads = {main, raster}
    EventLoop = main
    Batons = {1}
    Listeners = {l1}
    MaxFrames = 3
    MaxListeners = 1
    MaxRequests = 1
    DoubleBuffered = TRUE
SPECIFICATION Spec
CHECK_DEADLOCK FALSE
INVARIANTS
    TracksTheCommit
