CONSTANTS
    Conns = {c1, c2}
    None = None
SPECIFICATION Spec
SYMMETRY Symmetry
INVARIANT HubCarriesItsSession
CHECK_DEADLOCK FALSE
