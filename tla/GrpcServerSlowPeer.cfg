CONSTANTS
    Business = {b1}
    Checks = {p1}
    Watches = {w1}
    BusinessLimit = 1
    HealthLimit = 1
SPECIFICATION ServerFair
PROPERTY CloseIsImmediate
\* Behaviours end when all RPCs are over.
CHECK_DEADLOCK FALSE
