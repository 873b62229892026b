CONSTANTS
    MaxInt = 15
    N = 4
    Want <- TailWant
    Rest <- TailRest
    MaxOverhead = 2
    MaxSettings = 3
    MaxDuration = 5
    Tail = 1
    ProbeNeeds = 2
    Runs = {r1, r2}
    Latest = 2
    Calls = {c1, c2}
    Slots = 1
    PartBytes = 1
    MaxParts = 2
    MaxInFlight = 1
    AbsoluteBodyBytes = 2
    MaxBodyBytes = 1
    Callers = {k1, k2}
    Plans <- MCPlans
    MaxStages = 2
    InitialBackoff = 3
    MaxBackoff = 6
    MaxElapsed = 10
    JitterShare = 3
    NoTime = NoTime
    Addresses = 2
    Hints = {1, 5, 20}
    MaxAttempts = 3
    Horizon = 11
    None = None
SYMMETRY Symmetry
SPECIFICATION MCSpec
INVARIANTS StageKeepsItsBudget LoadIsFaithful AcceptedSettingsHold TelemetryIsHonest MigratedOnce
    OutcomeIsTrue AdmissionsAreExact
PROPERTY DeliveryIsGentle
