SPECIFICATION FairEngineSpec
CONSTANTS
    t1 = t1
    t2 = t2
    e1 = e1
    e2 = e2
    Nobody = Nobody
    Tabs = {t1, t2}
    Edits = {e1, e2}
    WebLocks = TRUE
INVARIANTS
    LogoutPurges
PROPERTIES
    EditsReachThePass
    LogoutsFinish
CHECK_DEADLOCK FALSE
