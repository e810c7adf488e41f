CONSTANTS
    Conns = {c1, c2}
    None = None
SPECIFICATION SteadySpec
PROPERTIES StartedHubCleared LockGranted ServedOrClosed DepartureNoticed
CHECK_DEADLOCK FALSE
