SPECIFICATION TxnSpec
CONSTANTS
    c1 = c1
    c2 = c2
    k1 = k1
    n1 = n1
    n2 = n2
    None = None
    Clients = {c1, c2}
    Keys = {k1}
    Notes = {n1, n2}
    Oversized = {}
    PageLimit = 1
    MutationIds <- TxnIds
    Mutations <- TxnMutations
    Batches <- TxnBatches
    Handlers = {h1, h2}
    Devices = {d1}
INVARIANTS
    HintsFollowCommits
    BatchPrefixSettled
PROPERTY ImplementsFeed
SYMMETRY HandlerSymmetry
