CONSTANTS
    Deliveries = {d1, d2}
    Bodies = {1, 2}
    Executions = {e1, e2}
    MaxAttempts = 3
    None = None
SPECIFICATION FairSpec
INVARIANT AnswerIsTrue
PROPERTIES ReceiptIsFinal EventuallyTerminal
