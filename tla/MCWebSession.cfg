SPECIFICATION FairSessionSpec
CONSTANTS
    None = None
    Web = {w1, w2}
    Replicas = {p1, p2}
    Revokers = {r1}
    MaxFailures = 1
    MaxRotations = 1
    MaxLeases = 3
    Grace = TRUE
INVARIANTS
    LocalSingleFlight
    ConfirmedMeansSignedOut
    LostTokensAreNoticed
PROPERTIES
    LogoutIsFinal
    ImplementsLife
    LogoutsSettle
    RequestsReturn
CHECK_DEADLOCK FALSE
