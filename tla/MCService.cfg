CONSTANTS
    API = {"http"}
    Diagnostics = {"diagnostics"}
    NoErr = NoErr
    Thresholds <- MCThresholds
    MaxEvaluations = 8
    Interval = 2
    ProbeBudget = 1
    FailureThreshold = 3
    Business = {b1, b2}
    Checks = {p1}
    Watches = {w1}
    BusinessLimit = 1
    HealthLimit = 1
    Delays = {0, 1, 2}
    ClassChainDepth = 2
    MaxValidationViolations = 2
SPECIFICATION MCSpec
INVARIANTS VerdictMatchesHistory StatusIsHonest OwnersOutliveUsers GracefulLosesNothing
PROPERTIES DrainOrder StaleIsWithdrawn StopsOnEvent
