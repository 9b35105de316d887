SPECIFICATION FairInvSpec
CONSTANTS
    o1 = o1
    o2 = o2
    t1 = t1
    NoConn = NoConn
    Owners = {o1, o2}
    Tabs = {t1}
    OwnerOf <- TabOwner
    Conns = {c1, c2}
    Capacity = 1
    MaxPerUser = 1
    MaxPerInstance = 2
    MaxCommits = 1
INVARIANTS
    PermitsMatchSockets
PROPERTIES
    HintsArrive
    SocketsClose
CHECK_DEADLOCK FALSE
