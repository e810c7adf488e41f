CONSTANTS
    Conns = {c1, c2}
    None = None
SPECIFICATION SteadySpec
PROPERTY AnsweredIsServed
CHECK_DEADLOCK FALSE
