CONSTANTS
    Conns = {c1, c2}
    None = None
SPECIFICATION Spec
INVARIANT ActiveSessionServed
CHECK_DEADLOCK FALSE
