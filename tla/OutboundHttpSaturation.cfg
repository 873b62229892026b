CONSTANTS
    Calls = {c1, c2}
    MaxInFlight = 1
    AbsoluteBodyBytes = 2
    MaxBodyBytes = 1
    None = None
SPECIFICATION Spec
INVARIANT SaturationIsNamed
CHECK_DEADLOCK FALSE
