CONSTANTS
    Conns = {c1, c2}
    None = None
SPECIFICATION SteadySpec
PROPERTY HubCleared
CHECK_DEADLOCK FALSE
