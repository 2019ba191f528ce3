CONSTANTS
    main = main
    raster = raster
    web = web
    l1 = l1
    l2 = l2
    Threads = {main, raster, web}
    EventLoop = main
    Batons = {1}
    Listeners = {l1}
    MaxFrames = 3
    MaxListeners = 1
    MaxRequests = 1
    DoubleBuffered = TRUE
SPECIFICATION FairSpec
CHECK_DEADLOCK FALSE
INVARIANTS
    SingleCommit
    NothingStranded
    FrameOwnership
    MailboxSemantics
    CallbackAccounting
    NoUseAfterDestroy
PROPERTIES
    EveryRequestServed
    ImplementsDisplay
