SPECIFICATION Spec
CONSTANTS
    c1 = c1
    c2 = c2
    i1 = i1
    i2 = i2
    k1 = k1
    k2 = k2
    n1 = n1
    n2 = n2
    big = big
    None = None
    Clients = {c1, c2}
    Keys = {k1, k2}
    Notes = {n1, n2, big}
    Oversized = {big}
    PageLimit = 2
    MutationIds <- SmallIds
    Mutations <- SmallMutations
INVARIANTS
    LogIsDense
    VersionsFollowCursor
    RecordIsLastChange
    AppliedExactlyOnce
    AnswersAgree
PROPERTY HistoryIsKept
