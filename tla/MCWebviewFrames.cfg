CONSTANTS
    b1 = b1
    b2 = b2
    Buffers = {b1, b2}
    MaxFrames = 2
SPECIFICATION FairSpec
CHECK_DEADLOCK FALSE
INVARIANTS
    HandedBackOnce
    NotReleasedWhileShown
    EverythingCounted
PROPERTIES
    FramesComeBack
