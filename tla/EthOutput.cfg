\* Two descriptors and one frame of the main loop against one reply.
CONSTANTS
    N = 2
    MaxFrames = 3
SPECIFICATION Spec
INVARIANT FramesWhole
CHECK_DEADLOCK FALSE
