CONSTANTS
    Conns = {c1, c2, c3}
    None = None
SPECIFICATION CameraSpec
INVARIANTS PTypeOK SessionKept ExclusiveCamera
PROPERTIES LeaseSpec StreamReleased
CHECK_DEADLOCK FALSE
