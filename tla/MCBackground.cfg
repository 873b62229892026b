CONSTANTS
    Tasks = {t1, bad}
    Runnable = {t1}
    Callers = {c1, c2}
    NoErr = NoErr
    Deadline = Deadline
    NoCaller = NoCaller
    Calls = {q1, q2}
    EarlyExpiry = 2
    MaxTime = 3
    None = None
    Txs = {x1, x2}
    Conns = {k1}
SPECIFICATION MCSpec
INVARIANTS ReleasedAfterOwners NoFailureLost JoinIsComplete CredentialIsSound
PROPERTIES StopsOnEvent ImplementsContract ShutdownReturns EveryCallEnds
