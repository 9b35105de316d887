SPECIFICATION FairOfflineSpec
CONSTANTS
    Me = me
    me = me
    other = other
    k1 = k1
    mine = mine
    theirs = theirs
    None = None
    Clients = {me, other}
    Keys = {k1}
    Notes = {mine, theirs}
    Drafts = {mine}
    Oversized = {}
    PageLimit = 2
    Tabs = {t1}
    WebLocks = TRUE
    Aborts = TRUE
    MaxEdits = 3
    MutationIds <- Ids
    Mutations = {}
PROPERTIES
    EditsSettle
CHECK_DEADLOCK FALSE
