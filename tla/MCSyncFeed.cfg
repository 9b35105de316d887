SPECIFICATION FairFeedSpec
CONSTANTS
    c1 = c1
    k1 = k1
    k2 = k2
    n1 = n1
    n2 = n2
    None = None
    Clients = {c1}
    Keys = {k1, k2}
    Notes = {n1, n2}
    Oversized = {}
    PageLimit = 2
    MutationIds <- FeedIds
    Mutations <- FeedMutations
    Devices = {d1}
INVARIANTS
    NothingSkipped
    CaughtUpMeansEqual
PROPERTIES
    ConfirmedMovesForward
    EveryChangeArrives
