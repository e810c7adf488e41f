CONSTANTS
    Conns = {c1, c2}
    None = None
SPECIFICATION Spec
SYMMETRY Symmetry
INVARIANTS STypeOK OneLiveHub UpstreamAccounted NoGhostSubscriber
INVARIANTS FramesMatchSession WaitsAreKnown CameraServesHub NobodyStuck
CHECK_DEADLOCK FALSE
