CONSTANTS
    WindowDuration = 2
    MinFrames = 1
    BadNum = 2
    BadDen = 3
    None = None
    MaxFrames = 7
    MaxTime = 5
SPECIFICATION Spec
INVARIANTS TypeOK RehandshakeJustified NoVerdictPending SustainedAttackCaught
CHECK_DEADLOCK FALSE
