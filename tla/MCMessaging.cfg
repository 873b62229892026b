CONSTANTS
    Records = {r1}
    Contexts = {c1, c2}
    RetryDelays = 1
    Kinds = {"event", "malformed", "oversize", "unfit"}
    MaxExpiries = 1
    Probes = {p1}
    Admissions = {a1, a2}
    MaxLosses = 1
    Events = {e1}
    Strangers = {s1}
    MaxRecords = 3
    Bad = Bad
    Callers = {k1, k2}
    Ids = {i1}
    MaxAttempts = 2
    MaxStores = 2
    None = None
SPECIFICATION MCSpec
INVARIANTS NoLoss DeadLetterIsTrue OneWorker OutboxIsFaithful
PROPERTIES EverythingSettles ClosedIsUnready
