SPECIFICATION LoginSpec
CONSTANTS
    Logins = {l1, l2}
    Bearers = {b1}
    Accounts = {a1, a2, a3}
    MaxAttempts = 1
    GlobalMax = 3
    Window = 3
    MaxKeys = 2
    LoginPermits = 1
    BearerPermits = 1
    MaxDelay = 1
    MaxClock = 4
    MaxSubmits = 5
SYMMETRY LoginSymmetry
INVARIANTS
    UpstreamIsSpared
PROPERTIES
    BlocksSurviveChurn
    RetryAfterIsEnough
CHECK_DEADLOCK FALSE
