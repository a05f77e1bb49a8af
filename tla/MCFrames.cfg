\* two slots and three windows, so that slots and windows are reused;
\* a frame counter that wraps
CONSTANTS
    Windows = {w1, w2, w3}
    NULL = NULL
    MAX_NUM_OF_WINDOWS = 2
    FrameRange = 4
SPECIFICATION FramesSpec
INVARIANTS
    CopiesWholeFrames
    AtMostOneFrameLost
    
    
PROPERTIES
    FramesKeepComing
