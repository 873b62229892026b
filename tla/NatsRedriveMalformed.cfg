CONSTANTS
    Events = {e1}
    Strangers = {s1}
    MaxRecords = 3
    Bad = Bad
    None = None
SPECIFICATION Spec
INVARIANT MalformedStaysDead
CHECK_DEADLOCK FALSE
