CONSTANT Contexts = {c1, c2}
SPECIFICATION FairSpec
INVARIANTS CleanupAfterJoin FaultIsReported
PROPERTY StopsOnEvent
