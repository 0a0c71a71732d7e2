SPECIFICATION Spec
CONSTANTS
    Frames = 3
    FrameLength = 4
INVARIANT FramesReceived
CHECK_DEADLOCK FALSE
