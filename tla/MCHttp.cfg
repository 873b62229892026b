CONSTANTS
    Keys = {k1, k2, k3, k4, k5}
    maxKeys = 2
    Burst = 2
    Requests = {r1, r2, p1}
    Probes = {p1}
    limit = 1
    None = None
    Executions = {q1, q2, q3}
    Fingerprints = {1, 2}
    NoRequest = NoRequest
    Verifications = {c1}
    SigningKeys = {j1, j2}
    MaxTime = 2
    MaxShapeProperties = 2
SYMMETRY Symmetry
SPECIFICATION MCSpec
INVARIANTS OneEffectPerWindow BodyIsValid VerdictIsTrue
PROPERTIES ChainIsHonest RateHolds
