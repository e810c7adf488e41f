CONSTANTS
    None = None
    WindowDuration = 1
    MinFrames = 1
    BadNum = 1
    BadDen = 3
    MaxSessionAttempts = 2
    MaxHandshakeAge = 1
    Zero = Zero
    Second = 2
    Camera = c1
    Trusted = {c1, c2}
    MaxAhead = 1
    Sessions = {s1, s2}
    MaxReads = 2
    MaxSequence = 2
    Start = 3
    MaxClock = 4
SPECIFICATION PlayingSpec
INVARIANTS TypeOK PromptAccepted PlayedInOrder GuardIsLastPlayed NothingLeftBehind
PROPERTIES SessionAnswered GivenUpForCause ReadersExit LossEnds
CHECK_DEADLOCK FALSE
