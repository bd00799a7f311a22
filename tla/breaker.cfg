CONSTANTS
    Conns = {c1, c2}
    MaxRequests = 4
    Threshold = 2
SPECIFICATION Spec
INVARIANT HalfOpenProbes
CHECK_DEADLOCK FALSE
