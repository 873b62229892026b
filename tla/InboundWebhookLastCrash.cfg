CONSTANTS
    Deliveries = {d1}
    Bodies = {1, 2}
    Executions = {e1, e2}
    MaxAttempts = 3
    None = None
SPECIFICATION Spec
INVARIANT PendingIsOwned
