CONSTANTS
    Capacity = 4
    MaxFrames = 11
SPECIFICATION Spec
INVARIANTS TypeOK HoldsLatest
PROPERTIES LastFrameWritten LatestSpec
CHECK_DEADLOCK FALSE
