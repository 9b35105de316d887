SPECIFICATION OfflineSpec
CONSTANTS
    Me = me
    me = me
    other = other
    k1 = k1
    mine = mine
    theirs = theirs
    None = None
    Clients = {me, other}
    Keys = {k1}
    Notes = {mine, theirs}
    Drafts = {mine}
    Oversized = {}
    PageLimit = 2
    Tabs = {t1}
    WebLocks = FALSE
    Aborts = FALSE
    MaxEdits = 2
    MutationIds <- Ids
    Mutations <- OnlyUpdate
INVARIANTS
    SettledShowsServer
CHECK_DEADLOCK FALSE
